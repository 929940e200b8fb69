----------------------------- MODULE MCPrekeys -----------------------------
EXTENDS Prekeys
=============================================================================

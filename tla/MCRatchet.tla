----------------------------- MODULE MCRatchet -----------------------------
EXTENDS Ratchet
=============================================================================

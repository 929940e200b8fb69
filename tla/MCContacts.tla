----------------------------- MODULE MCContacts -----------------------------
EXTENDS Contacts, TLC

\* Nothing tells one user from another.
Symmetry == Permutations(Users)
=============================================================================

---------------------------- MODULE MCClientCreds ----------------------------
EXTENDS ClientCreds, TLC

\* Symmetry over the interchangeable values of each kind.
MCSymmetry == Permutations(Users) \cup Permutations(Tokens)
=============================================================================

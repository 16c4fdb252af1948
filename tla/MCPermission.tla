---------------------------- MODULE MCPermission ----------------------------
EXTENDS Permission, TLC

\* Request ids are alike.
Symmetry == Permutations(Req)
=============================================================================

------------------------------ MODULE MCRewind ------------------------------
EXTENDS Rewind, TLC

\* Files are alike, and so are contents.
Symmetry == Permutations(File) \cup Permutations(Content)
=============================================================================

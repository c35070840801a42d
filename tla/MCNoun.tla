------------------------------- MODULE MCNoun -------------------------------
\* Noun with small constants.
EXTENDS Noun, TLC

\* Boxes are alike.
BoxSymmetry == Permutations(Box)
=============================================================================

------------------------------- MODULE MCKafk -------------------------------
\* Kafk with small constants.
EXTENDS Kafk
=============================================================================

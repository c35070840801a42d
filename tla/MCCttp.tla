------------------------------- MODULE MCCttp -------------------------------
\* Cttp with small constants.
EXTENDS Cttp
=============================================================================

------------------------------- MODULE MCHttp -------------------------------
\* Http with small constants.
EXTENDS Http
=============================================================================

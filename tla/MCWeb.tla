------------------------------- MODULE MCWeb -------------------------------
EXTENDS Web

\* Every kind of request another client may make.
Anything == Request
=============================================================================

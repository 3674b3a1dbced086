----------------------------- MODULE MCRequests -----------------------------
EXTENDS Requests

\* The names of request.h.
MCStrlen == [n \in Headers \cup Commands |-> Len(n)]
=============================================================================

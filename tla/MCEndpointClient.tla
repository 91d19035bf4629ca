--------------------------- MODULE MCEndpointClient ---------------------------
(* EndpointClient with three callers and two sessions.                      *)
EXTENDS EndpointClient

CONSTANTS c1, c2, c3, s1, s2
=============================================================================

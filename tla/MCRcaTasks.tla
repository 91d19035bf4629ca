---------------------------- MODULE MCRcaTasks ----------------------------
(* RcaTasks on small instances.                                            *)
EXTENDS RcaTasks
=============================================================================

------------------------------- MODULE MCView -------------------------------
(* View for TLC: one thread and two blocks, a search for everything          *)
(* and one for what is not freed.                                            *)
EXTENDS View

CONSTANTS t0, p, q

MCFilters == [notFreed : BOOLEAN, thread : {NULL}]
=============================================================================

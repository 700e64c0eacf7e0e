--------------------------- MODULE MCLeakDetector ---------------------------
(* LeakDetector for TLC.                                                     *)
EXTENDS LeakDetector, TLC

CONSTANTS t0, t1, t2, p, q

AddrSymmetry == Permutations({p, q})

\* one process, reported in time
Regular == [env |-> {"threads", "realloc"}, codes |-> {"malloc"}, sizes |-> {1, 2},
            maxMsg |-> 5, maxTime |-> 1, maxRestart |-> 0]

\* a process dies and another is traced
Restarted == [Regular EXCEPT !.env = {"threads", "restart"}, !.sizes = {1}, !.maxMsg = 4,
                             !.maxRestart = 1]

\* threads that come and go and are not reported in time or not there, and calloc of
\* several elements
Irregular == [Regular EXCEPT !.env = {"threads", "early_child", "create_fails", "realloc",
                                      "calloc_many"},
                             !.codes = {"calloc"}, !.sizes = {1}, !.maxMsg = 4]

\* reallocations that are not reported, or whose report comes too late, in seconds
\* that pass
Overtaken == [Irregular EXCEPT !.env = {"threads", "realloc", "realloc_overlap", "realloc_zero"},
                               !.maxTime = 2]

MCView == {Regular, Restarted, Irregular, Overtaken}
MCCatchesUp == {[Regular EXCEPT !.env = {"threads", "set_name", "realloc"}, !.sizes = {1}, !.maxMsg = 4]}
MCEarlyUsage == {[Regular EXCEPT !.env = {"threads", "early_child"}, !.sizes = {1}, !.maxMsg = 6]}
MCReallocRace == {[Regular EXCEPT !.env = {"threads", "realloc", "realloc_overlap"}, !.maxMsg = 4]}
=============================================================================

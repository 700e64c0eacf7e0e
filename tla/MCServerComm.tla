---------------------------- MODULE MCServerComm ----------------------------
(* ServerComm for TLC: two or three threads, three kinds of message of two   *)
(* sizes, a buffer that takes a few of them.                                 *)
EXTENDS ServerComm, TLC

CONSTANTS main, w1, w2, app, memory, backtrace

MCThread == {main, w1, w2}
MCTwoThreads == {main, w1}
MCWorkers == Permutations({w1, w2})
MCCode == {memory, backtrace}
MCSizeOf == (app :> 1) @@ (memory :> 1) @@ (backtrace :> 2)
=============================================================================

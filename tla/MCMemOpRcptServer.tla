------------------------- MODULE MCMemOpRcptServer -------------------------
(* MemOpRcptServer for TLC: a header of two units, so that it can be cut.    *)
EXTENDS MemOpRcptServer, TLC

MCSizeOf == ("app" :> 2) @@ ("memory" :> 3) @@ ("backtrace" :> 5)
=============================================================================

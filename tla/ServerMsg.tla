----------------------------- MODULE ServerMsg -----------------------------
(***************************************************************************)
(* shared/server-msg.h and shared/global-const.h: the messages the library *)
(* sends to the server, one record for all kinds, with the fields the      *)
(* server acts on.                                                         *)
(***************************************************************************)
EXTENDS Integers

CONSTANTS
    AllocCode,      \* malloc, calloc, posix_memalign, ... : one block is allocated
    NULL            \* the null pointer; nothing

ThreadCode == {"pthread_create", "pthread_set_name"}
MemoryCode == AllocCode \cup {"realloc", "free"}
MsgCode == {"init", "backtrace"} \cup ThreadCode \cup MemoryCode

ASSUME CodeAssumption ==
    /\ AllocCode \cap ({"init", "realloc", "free", "backtrace"} \cup ThreadCode) = {}
    /\ NULL \notin Int

\* header and data before the message is stamped.  born is no part of the
\* message: the number reached when the thread that pthread_create reports
\* started, NULL when none did
Msg(t, code, ptr, size, free) ==
    [code |-> code, thread |-> t, num |-> 0, time |-> 0, ptr |-> ptr, size |-> size,
     free |-> free, tid |-> NULL, origin |-> 0, born |-> NULL]

NoMsg == Msg(NULL, "init", NULL, 0, NULL)
=============================================================================

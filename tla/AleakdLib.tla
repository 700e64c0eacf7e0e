----------------------------- MODULE AleakdLib -----------------------------
(***************************************************************************)
(* lib/wrapper.c as the traced process runs it: each thread allocates,     *)
(* frees and starts threads through the wrappers, which call the real      *)
(* function and report the operation.  The heap and the thread library are *)
(* external; the transport is the FIFO stream that Channel promises and    *)
(* ServerComm implements.                                                  *)
(*                                                                         *)
(* A wrapper is cut where other threads can come between: the real call,   *)
(* the stamping of the message (time, number), its sending, the same for   *)
(* the backtrace, and in free the real call at the end.                    *)
(***************************************************************************)
EXTENDS ServerMsg, Sequences, FiniteSets

CONSTANTS
    Thread,         \* thread identifiers; the system reuses them
    Main,           \* the thread the process starts with
    Addr,           \* the addresses the heap gives out
    SendBacktrace,  \* g_bSendBacktrace, from ALEAKD_BACKTRACE
    Scenarios       \* what the program and the scheduler may do, with bounds

\* what the env of a scenario may name
Behaviours == {
    "realloc",          \* blocks are reallocated
    "realloc_overlap",  \* ... while other threads are in a wrapper
    "realloc_zero",     \* realloc(p, 0) frees p and returns NULL
    "calloc_many",      \* calloc is asked for more than one element
    "threads",          \* threads are started and end
    "early_child",      \* ... and run before pthread_create returns
    "create_fails",     \* pthread_create fails and leaves anything in *thread
    "set_name",         \* threads are named
    "restart"}          \* the process dies and another one is traced

\* a scenario is a record of
\*    env          which of these are done,
\*    codes        the functions the program allocates with,
\*    sizes        the sizes it asks for, and the bounds
\*    maxMsg       BOUND: messages of one process
\*    maxTime      BOUND: seconds
\*    maxRestart   BOUND: processes traced after the first
ASSUME EnvAssumption ==
    /\ Main \in Thread
    /\ NULL \notin Thread \cup Addr
    /\ SendBacktrace \in BOOLEAN
    /\ \A s \in Scenarios :
        /\ s.env \subseteq Behaviours /\ s.codes \subseteq AllocCode
        /\ s.sizes \subseteq Nat \ {0}
        /\ {s.maxMsg, s.maxTime, s.maxRestart} \subseteq Nat

VARIABLES
    scenario,   \* one of Scenarios, for good
    heap,       \* the size of the block at each address, NULL where there is none
    held,       \* blocks the program may free or reallocate
    running,    \* threads that exist
    pc,         \* where each thread is in a wrapper
    msg,        \* the message each thread is building
    g_iMsgNum,
    now,        \* gettimeofday, in seconds; starts at 1, 0 stands for "no time"
    stream,     \* messages sent and not yet received
    restarts

Env == scenario.env

libVars == <<heap, held, running, pc, msg, g_iMsgNum, now, stream, restarts>>

\* servercomm_init sends the first message of a process
AppMsg == [NoMsg EXCEPT !.thread = Main, !.num = 1, !.time = now]

LibInit ==
    /\ scenario \in Scenarios
    /\ heap = [a \in Addr |-> NULL]
    /\ held = {}
    /\ running = {Main}
    /\ pc = [t \in Thread |-> "idle"]
    /\ msg = [t \in Thread |-> NoMsg]
    /\ g_iMsgNum = 1
    /\ now = 1
    /\ stream = <<AppMsg>>
    /\ restarts = 0

Live == {a \in Addr : heap[a] # NULL}

\* thread t may enter a wrapper; with maxMsg numbers given none does
Ready(t) == t \in running /\ pc[t] = "idle" /\ g_iMsgNum < scenario.maxMsg

\* unless they may overlap, a realloc has the process for itself
Reallocating == \E t \in Thread : pc[t] # "idle" /\ msg[t].code = "realloc"
Alone(t) == \A u \in Thread \ {t} : pc[u] = "idle"
Allowed(t) == "realloc_overlap" \in Env \/ ~Reallocating

\* t goes on at step with the message m
Goto(t, step, m) ==
    /\ pc' = [pc EXCEPT ![t] = step]
    /\ msg' = [msg EXCEPT ![t] = m]

-----------------------------------------------------------------------------
(* malloc, calloc, posix_memalign, aligned_alloc, memalign, valloc, pvalloc *)

\* the real function returns a block; a NULL result is not reported.  calloc
\* gets num elements of the size it reports
Alloc(t, code, a, size, num) ==
    /\ Ready(t) /\ Allowed(t)
    /\ heap[a] = NULL
    /\ num # 1 => code = "calloc" /\ "calloc_many" \in Env
    /\ heap' = [heap EXCEPT ![a] = num * size]
    /\ Goto(t, "stamp", Msg(t, code, a, size, NULL))
    /\ UNCHANGED <<held, running, g_iMsgNum, now, stream, restarts>>

\* Mutant: the old size is reported.
ReallocOldSize(t, ptr, a, size) ==
    /\ "realloc" \in Env
    /\ Ready(t) /\ ("realloc_overlap" \in Env \/ Alone(t))
    /\ ptr = NULL \/ ptr \in held
    /\ a = ptr \/ heap[a] = NULL
    /\ heap' = [b \in Addr |-> IF b = a THEN size ELSE IF b = ptr THEN NULL ELSE heap[b]]
    /\ held' = held \ {ptr}
    /\ Goto(t, "stamp", Msg(t, "realloc", a, IF ptr = NULL THEN size ELSE heap[ptr], ptr))
    /\ UNCHANGED <<running, g_iMsgNum, now, stream, restarts>>

\* realloc: the block is resized in place, moved, or allocated (ptr NULL), and
\* what was at ptr is free for others before anything is reported
Realloc(t, ptr, a, size) ==
    /\ "realloc" \in Env
    /\ Ready(t) /\ ("realloc_overlap" \in Env \/ Alone(t))
    /\ ptr = NULL \/ ptr \in held
    /\ a = ptr \/ heap[a] = NULL
    /\ heap' = [b \in Addr |-> IF b = a THEN size ELSE IF b = ptr THEN NULL ELSE heap[b]]
    /\ held' = held \ {ptr}
    /\ Goto(t, "stamp", Msg(t, "realloc", a, size, ptr))
    /\ UNCHANGED <<running, g_iMsgNum, now, stream, restarts>>

\* realloc(ptr, 0): the block is freed, the result is NULL, nothing is reported
ReallocZero(t, ptr) ==
    /\ "realloc_zero" \in Env
    /\ Ready(t) /\ Allowed(t)
    /\ ptr \in held
    /\ heap' = [heap EXCEPT ![ptr] = NULL]
    /\ held' = held \ {ptr}
    /\ UNCHANGED <<running, pc, msg, g_iMsgNum, now, stream, restarts>>

\* Mutant: free calls the real function before it reports.
FreeRealFirst(t, ptr) ==
    /\ Ready(t) /\ Allowed(t)
    /\ ptr \in held
    /\ held' = held \ {ptr}
    /\ heap' = [heap EXCEPT ![ptr] = NULL]
    /\ Goto(t, "stamp", Msg(t, "free", NULL, 0, ptr))
    /\ UNCHANGED <<running, g_iMsgNum, now, stream, restarts>>

\* free: the report comes first, the real function last (RealFree)
Free(t, ptr) ==
    /\ Ready(t) /\ Allowed(t)
    /\ ptr \in held
    /\ held' = held \ {ptr}
    /\ Goto(t, "stamp", Msg(t, "free", NULL, 0, ptr))
    /\ UNCHANGED <<heap, running, g_iMsgNum, now, stream, restarts>>

-----------------------------------------------------------------------------
(* pthread_create, pthread_setname_np and prctl, end of a thread *)

\* the identifier is of no thread, not even of one that another is just starting
Unused(tid) ==
    /\ tid \notin running /\ tid # Main
    /\ ~ \E u \in Thread : pc[u] # "idle" /\ msg[u].born # NULL /\ msg[u].tid = tid

\* the real function starts the thread; the creator reports it afterwards
ThreadCreate(t, child) ==
    /\ "threads" \in Env
    /\ Ready(t) /\ Allowed(t)
    /\ Unused(child)
    /\ running' = IF "early_child" \in Env THEN running \cup {child} ELSE running
    /\ Goto(t, "stamp", [Msg(t, "pthread_create", NULL, 0, NULL)
                            EXCEPT !.tid = child, !.born = g_iMsgNum])
    /\ UNCHANGED <<heap, held, g_iMsgNum, now, stream, restarts>>

\* the real function fails: what is in *thread is reported all the same
CreateFails(t, tid) ==
    /\ "create_fails" \in Env
    /\ Ready(t) /\ Allowed(t)
    /\ Goto(t, "stamp", [Msg(t, "pthread_create", NULL, 0, NULL) EXCEPT !.tid = tid])
    /\ UNCHANGED <<heap, held, running, g_iMsgNum, now, stream, restarts>>

\* the thread is named, by itself (prctl) or by another (pthread_setname_np)
SetName(t, tid) ==
    /\ "set_name" \in Env
    /\ Ready(t) /\ Allowed(t)
    /\ tid \in running
    /\ Goto(t, "stamp", [Msg(t, "pthread_set_name", NULL, 0, NULL) EXCEPT !.tid = tid])
    /\ UNCHANGED <<heap, held, running, g_iMsgNum, now, stream, restarts>>

\* a thread ends, unreported; its identifier can be given to another once it is
\* joined, which its creator does after pthread_create returned
ThreadExit(t) ==
    /\ t \in running \ {Main}
    /\ pc[t] = "idle"
    /\ ~ \E u \in Thread : pc[u] # "idle" /\ msg[u].tid = t
    /\ running' = running \ {t}
    /\ UNCHANGED <<heap, held, pc, msg, g_iMsgNum, now, stream, restarts>>

-----------------------------------------------------------------------------
(* Reporting *)

\* servercomm_msg_header_init_v1: the time and the next number
Stamp(t) ==
    /\ pc[t] \in {"stamp", "stamp_bt"}
    /\ g_iMsgNum' = g_iMsgNum + 1
    /\ Goto(t, IF pc[t] = "stamp" THEN "send" ELSE "send_bt",
            [msg[t] EXCEPT !.num = g_iMsgNum + 1, !.time = now])
    /\ UNCHANGED <<heap, held, running, now, stream, restarts>>

\* Mutant: a NULL pointer is taken for a block.
ReturnAnyPointer(t, m) ==
    /\ Goto(t, "idle", NoMsg)
    /\ held' = held \cup {m.ptr}
    /\ running' = IF m.born # NULL THEN running \cup {m.tid} ELSE running

\* the wrapper returns: the block it allocated is the program's, the thread it
\* started runs at the latest now
Return(t, m) ==
    /\ Goto(t, "idle", NoMsg)
    /\ held' = IF m.ptr = NULL THEN held ELSE held \cup {m.ptr}
    /\ running' = IF m.born # NULL THEN running \cup {m.tid} ELSE running

\* what follows the last report: free calls the real function, the others return
Finish(t, m) ==
    IF m.code = "free"
    THEN Goto(t, "real_free", m) /\ UNCHANGED <<held, running>>
    ELSE Return(t, m)

\* the message is sent; the report of a memory operation may have a backtrace
Send(t) ==
    /\ pc[t] = "send"
    /\ stream' = Append(stream, msg[t])
    /\ IF SendBacktrace /\ msg[t].tid = NULL
       THEN /\ Goto(t, "stamp_bt", [msg[t] EXCEPT !.origin = msg[t].num])
            /\ UNCHANGED <<held, running>>
       ELSE Finish(t, msg[t])
    /\ UNCHANGED <<heap, g_iMsgNum, now, restarts>>

\* Mutant: the backtrace names itself as the operation it belongs to.
BacktraceOfItself(t) ==
    /\ pc[t] = "send_bt"
    /\ stream' = Append(stream, [Msg(t, "backtrace", NULL, 0, NULL)
                                   EXCEPT !.num = msg[t].num, !.time = msg[t].time,
                                          !.origin = msg[t].num])
    /\ Finish(t, msg[t])
    /\ UNCHANGED <<heap, g_iMsgNum, now, restarts>>

\* backtrace_send
SendBacktraceMsg(t) ==
    /\ pc[t] = "send_bt"
    /\ stream' = Append(stream, [Msg(t, "backtrace", NULL, 0, NULL)
                                   EXCEPT !.num = msg[t].num, !.time = msg[t].time,
                                          !.origin = msg[t].origin])
    /\ Finish(t, msg[t])
    /\ UNCHANGED <<heap, g_iMsgNum, now, restarts>>

\* the last step of free
RealFree(t) ==
    /\ pc[t] = "real_free"
    /\ heap' = [heap EXCEPT ![msg[t].free] = NULL]
    /\ Goto(t, "idle", NoMsg)
    /\ UNCHANGED <<held, running, g_iMsgNum, now, stream, restarts>>

-----------------------------------------------------------------------------
\* time passes
Tick ==
    /\ now < scenario.maxTime
    /\ now' = now + 1
    /\ UNCHANGED <<heap, held, running, pc, msg, g_iMsgNum, stream, restarts>>

\* the process dies, with what it had not written, and another is traced
Restart ==
    /\ "restart" \in Env /\ restarts < scenario.maxRestart
    /\ restarts' = restarts + 1
    /\ heap' = [a \in Addr |-> NULL]
    /\ held' = {}
    /\ running' = {Main}
    /\ pc' = [t \in Thread |-> "idle"]
    /\ msg' = [t \in Thread |-> NoMsg]
    /\ g_iMsgNum' = 1
    /\ \E n \in 0..Len(stream) : stream' = Append(SubSeq(stream, 1, n), AppMsg)
    /\ UNCHANGED now

\* the allocating wrappers are all written the same way
AllocAny(t) ==
    \E code \in scenario.codes, a \in Addr, size \in scenario.sizes, num \in {1, 2} : Alloc(t, code, a, size, num)

Call(t) ==
    \/ AllocAny(t)
    \/ \E ptr \in held \cup {NULL}, a \in Addr, size \in scenario.sizes : Realloc(t, ptr, a, size)
    \/ \E ptr \in held : ReallocZero(t, ptr) \/ Free(t, ptr)
    \/ \E u \in Thread : ThreadCreate(t, u) \/ CreateFails(t, u) \/ SetName(t, u)

Report(t) == Stamp(t) \/ Send(t) \/ SendBacktraceMsg(t) \/ RealFree(t)

LibNext ==
    \/ \E t \in Thread : Call(t) \/ Report(t) \/ ThreadExit(t)
    \/ Tick
    \/ Restart
=============================================================================

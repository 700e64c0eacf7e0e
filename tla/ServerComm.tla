----------------------------- MODULE ServerComm -----------------------------
(***************************************************************************)
(* lib/server-comm.c, built with TRANSFER_MODE_NAMEDPIPE and               *)
(* BUFFERIZE_TRANSFERT (config.h): numbering the messages under            *)
(* g_lockMsgCount, collecting them in g_pTransferBuffer under g_lockSocket,*)
(* writing a full buffer to the named pipe, the start-up sequence of       *)
(* servercomm_init and the last flush of servercomm_dispose.               *)
(*                                                                         *)
(* A byte is abstracted to a pair (message, position): enough to say       *)
(* whether what is read is whole messages, each of them once and in order. *)
(* The unit of a size is a model unit; SizeOf and BUFFER_SIZE keep the     *)
(* relations of the real ones (every struct is smaller than the buffer).   *)
(***************************************************************************)
EXTENDS Naturals, Sequences

CONSTANTS
    Thread,         \* threads of the traced process
    Main,           \* the one that runs the constructor and the destructor
    Code,           \* kinds of message other than App
    App,            \* the kind of the message servercomm_init sends
    SizeOf,         \* sizeof of the struct of each kind
    BUFFER_SIZE,
    MaxMsgNum,      \* BOUND: messages numbered by g_iMsgNum
    MaxPreInitMsg,  \* BOUND: of them, before servercomm_init opens the pipe
    OpenMayFail,    \* access() or open() of the pipe may fail
    WritesMayFail,  \* write() may return -1
    ConcurrentExit, \* other threads still run when the destructor does
    NONE            \* no owner of a mutex; an unwritten byte

ASSUME ThreadAssumption == Main \in Thread /\ NONE \notin Thread
ASSUME SizeAssumption ==
    /\ BUFFER_SIZE \in Nat \ {0}
    /\ App \notin Code
    /\ SizeOf \in [Code \cup {App} -> 1..BUFFER_SIZE]
ASSUME SwitchAssumption ==
    /\ OpenMayFail \in BOOLEAN
    /\ WritesMayFail \in BOOLEAN
    /\ ConcurrentExit \in BOOLEAN
ASSUME BoundAssumption == MaxMsgNum \in Nat /\ MaxPreInitMsg \in Nat

VARIABLES
    g_iMsgNum,                \* messages numbered so far
    g_socket,                 \* TRUE once the pipe is open (g_socket # -1)
    g_lockSocket,             \* the thread that holds the mutex, or NONE
    g_bTransfertBufferEnabled,
    g_pTransferBuffer,
    g_iTransfertBufferSize,
    g_preInitBuffer,
    g_preInitPos,
    pipe,                     \* the bytes written to the named pipe
    pc,                       \* where each thread is in a send
    out,                      \* the bytes each thread is sending
    initStep,                 \* where Main is in servercomm_init
    exitStep,                 \* where Main is in servercomm_dispose
    lastSize,                 \* the size Main passes to its last write
    sent                      \* history: bytes in the order they were accepted

bufferVars == <<g_bTransfertBufferEnabled, g_pTransferBuffer, g_iTransfertBufferSize>>
preInitVars == <<g_preInitBuffer, g_preInitPos>>
phaseVars == <<initStep, exitStep, lastSize>>
vars == <<g_iMsgNum, g_socket, g_lockSocket, bufferVars, preInitVars, pipe,
          pc, out, phaseVars, sent>>

-----------------------------------------------------------------------------
(* Messages and memory *)

Message == [thread : Thread, num : Nat, code : Code \cup {App}]

Byte == [msg : Message, at : Nat]

\* one place of a buffer, and a buffer
Cell == Byte \cup {NONE}
Memory == [1..BUFFER_SIZE -> Cell]

\* the bytes of a message struct
Bytes(m) == [i \in 1..SizeOf[m.code] |-> [msg |-> m, at |-> i]]

\* memcpy(buf + off, data, Len(data)); what falls outside buf is not modelled
Memcpy(buf, off, data) ==
    [i \in 1..BUFFER_SIZE |->
        IF off < i /\ i <= off + Len(data) THEN data[i - off] ELSE buf[i]]

\* what write(g_socket, buf, n) hands to the kernel
FirstBytes(buf, n) == [i \in 1..n |-> buf[i]]

\* Mutant: a write may be cut short.
PartialWrite(data) == \E n \in 0..Len(data) : pipe' = pipe \o SubSeq(data, 1, n)

\* servercomm_send_physical: the pipe takes a write of at most PIPE_BUF bytes
\* whole, or the write fails; servercomm_send ignores which
servercomm_send_physical(data) ==
    \/ pipe' = pipe \o data
    \/ WritesMayFail /\ UNCHANGED pipe

-----------------------------------------------------------------------------
(* One message *)

Init ==
    /\ g_iMsgNum = 0
    /\ g_socket = FALSE
    /\ g_lockSocket = NONE
    /\ g_bTransfertBufferEnabled = FALSE
    /\ g_pTransferBuffer = [i \in 1..BUFFER_SIZE |-> NONE]
    /\ g_iTransfertBufferSize = 0
    /\ g_preInitBuffer = [i \in 1..BUFFER_SIZE |-> NONE]
    /\ g_preInitPos = 0
    /\ pipe = <<>>
    /\ pc = [t \in Thread |-> "idle"]
    /\ out = [t \in Thread |-> <<>>]
    /\ initStep = "preinit"
    /\ exitStep = "running"
    /\ lastSize = 0
    /\ sent = <<>>

\* Main reports operations before the pipe is open (dlsym allocates) and, once
\* the destructor returned, after; the other threads start after the
\* constructor and, unless ConcurrentExit, are joined before the destructor
MaySend(t) ==
    IF t = Main
    THEN initStep \in {"preinit", "done"} /\ exitStep \in {"running", "done"}
    ELSE initStep = "done" /\ (exitStep = "running" \/ ConcurrentExit)

\* servercomm_msg_header_init_v1: the number is taken under g_lockMsgCount,
\* then the message is on its way to servercomm_send_safe
NumberMsg(t, code) ==
    /\ pc[t] = "idle"
    /\ g_iMsgNum' = g_iMsgNum + 1
    /\ out' = [out EXCEPT ![t] = Bytes([thread |-> t, num |-> g_iMsgNum + 1, code |-> code])]
    /\ pc' = [pc EXCEPT ![t] = "send_safe"]

servercomm_msg_init(t) ==
    /\ MaySend(t)
    /\ g_iMsgNum < (IF initStep = "preinit" THEN MaxPreInitMsg ELSE MaxMsgNum)
    /\ \E code \in Code : NumberMsg(t, code)
    /\ UNCHANGED <<g_socket, g_lockSocket, bufferVars, preInitVars, pipe, phaseVars, sent>>

\* servercomm_send_safe with the pipe open: on to servercomm_send
SendSafe(t) ==
    /\ pc[t] = "send_safe"
    /\ g_socket
    /\ pc' = [pc EXCEPT ![t] = "lock"]
    /\ UNCHANGED <<g_iMsgNum, g_socket, g_lockSocket, bufferVars, preInitVars,
                   pipe, out, phaseVars, sent>>

\* servercomm_send_safe with the pipe not open: the message is kept; the code
\* does not check that it fits, and what it does past the array is not modelled.
\* Before the pipe is open Main is alone here; with no pipe at all the threads
\* race for g_preInitPos, and nothing ever reads what they wrote
SendPreInit(t) ==
    /\ pc[t] = "send_safe"
    /\ ~g_socket
    /\ g_preInitPos + Len(out[t]) <= BUFFER_SIZE
    /\ g_preInitBuffer' = Memcpy(g_preInitBuffer, g_preInitPos, out[t])
    /\ g_preInitPos' = g_preInitPos + Len(out[t])
    /\ pc' = [pc EXCEPT ![t] = "idle"]
    /\ UNCHANGED <<g_iMsgNum, g_socket, g_lockSocket, bufferVars, pipe, out,
                   phaseVars, sent>>

\* Mutant: servercomm_send without the mutex.
LockIgnored(t) ==
    /\ pc[t] = "lock"
    /\ g_lockSocket' = t
    /\ pc' = [pc EXCEPT ![t] =
                IF ~g_bTransfertBufferEnabled THEN "direct"
                ELSE IF g_iTransfertBufferSize + Len(out[t]) >= BUFFER_SIZE
                     THEN "flush" ELSE "copy"]
    /\ UNCHANGED <<g_iMsgNum, g_socket, bufferVars, preInitVars, pipe, out,
                   phaseVars, sent>>

\* Mutant: a message that does not fit is written past the buffer.
LockBypass(t) ==
    /\ pc[t] = "lock"
    /\ g_lockSocket = NONE
    /\ g_lockSocket' = t
    /\ pc' = [pc EXCEPT ![t] =
                IF /\ g_bTransfertBufferEnabled
                   /\ g_iTransfertBufferSize + Len(out[t]) < BUFFER_SIZE
                THEN "copy" ELSE "direct"]
    /\ UNCHANGED <<g_iMsgNum, g_socket, bufferVars, preInitVars, pipe, out,
                   phaseVars, sent>>

\* servercomm_send takes the mutex and decides: write directly, make room, copy
Lock(t) ==
    /\ pc[t] = "lock"
    /\ g_lockSocket = NONE
    /\ g_lockSocket' = t
    /\ pc' = [pc EXCEPT ![t] =
                IF ~g_bTransfertBufferEnabled THEN "direct"
                ELSE IF g_iTransfertBufferSize + Len(out[t]) >= BUFFER_SIZE
                     THEN "flush" ELSE "copy"]
    /\ UNCHANGED <<g_iMsgNum, g_socket, bufferVars, preInitVars, pipe, out,
                   phaseVars, sent>>

\* Mutant: the buffer is written and not emptied.
FlushWithoutReset(t) ==
    /\ pc[t] = "flush"
    /\ servercomm_send_physical(FirstBytes(g_pTransferBuffer, g_iTransfertBufferSize))
    /\ pc' = [pc EXCEPT ![t] = "copy"]
    /\ UNCHANGED <<g_iMsgNum, g_socket, g_lockSocket, bufferVars, preInitVars,
                   out, phaseVars, sent>>

\* the buffer is written and emptied
Flush(t) ==
    /\ pc[t] = "flush"
    /\ servercomm_send_physical(FirstBytes(g_pTransferBuffer, g_iTransfertBufferSize))
    /\ g_iTransfertBufferSize' = 0
    /\ pc' = [pc EXCEPT ![t] = "copy"]
    /\ UNCHANGED <<g_iMsgNum, g_socket, g_lockSocket, g_bTransfertBufferEnabled,
                   g_pTransferBuffer, preInitVars, out, phaseVars, sent>>

\* Mutant: the mutex is not released.
CopyKeepsLock(t) ==
    /\ pc[t] = "copy"
    /\ g_pTransferBuffer' = Memcpy(g_pTransferBuffer, g_iTransfertBufferSize, out[t])
    /\ g_iTransfertBufferSize' = g_iTransfertBufferSize + Len(out[t])
    /\ sent' = sent \o out[t]
    /\ pc' = [pc EXCEPT ![t] = "idle"]
    /\ UNCHANGED <<g_iMsgNum, g_socket, g_lockSocket, g_bTransfertBufferEnabled,
                   preInitVars, pipe, out, phaseVars>>

\* the message joins the buffer and the mutex is released
Copy(t) ==
    /\ pc[t] = "copy"
    /\ g_pTransferBuffer' = Memcpy(g_pTransferBuffer, g_iTransfertBufferSize, out[t])
    /\ g_iTransfertBufferSize' = g_iTransfertBufferSize + Len(out[t])
    /\ sent' = sent \o out[t]
    /\ g_lockSocket' = NONE
    /\ pc' = [pc EXCEPT ![t] = "idle"]
    /\ UNCHANGED <<g_iMsgNum, g_socket, g_bTransfertBufferEnabled, preInitVars,
                   pipe, out, phaseVars>>

\* buffering is off: the message is written and the mutex released
Direct(t) ==
    /\ pc[t] = "direct"
    /\ servercomm_send_physical(out[t])
    /\ sent' = sent \o out[t]
    /\ g_lockSocket' = NONE
    /\ pc' = [pc EXCEPT ![t] = "idle"]
    /\ UNCHANGED <<g_iMsgNum, g_socket, bufferVars, preInitVars, out, phaseVars>>

servercomm_send(t) ==
    SendSafe(t) \/ SendPreInit(t) \/ Lock(t) \/ Flush(t) \/ Copy(t) \/ Direct(t)

-----------------------------------------------------------------------------
(* servercomm_init *)

\* Mutant: the pipe is opened and no App message is sent.
OpenSilently ==
    /\ initStep = "preinit"
    /\ pc[Main] = "idle"
    /\ g_socket' = TRUE
    /\ initStep' = "app"
    /\ UNCHANGED <<g_iMsgNum, g_lockSocket, bufferVars, preInitVars, pipe, pc, out,
                   exitStep, lastSize, sent>>

\* servercomm_name_pipe opens the pipe and the App message is numbered
Open ==
    /\ initStep = "preinit"
    /\ g_socket' = TRUE
    /\ NumberMsg(Main, App)
    /\ initStep' = "app"
    /\ UNCHANGED <<g_lockSocket, bufferVars, preInitVars, pipe, exitStep, lastSize, sent>>

\* there is no pipe: no App message, buffering is enabled all the same
OpenFails ==
    /\ OpenMayFail
    /\ initStep = "preinit"
    /\ pc[Main] = "idle"
    /\ initStep' = "done"
    /\ g_bTransfertBufferEnabled' = TRUE
    /\ UNCHANGED <<g_iMsgNum, g_socket, g_lockSocket, g_pTransferBuffer,
                   g_iTransfertBufferSize, preInitVars, pipe, pc, out, exitStep,
                   lastSize, sent>>

\* the App message is sent: what was kept before is sent in one piece
SendPreInitBuffer ==
    /\ initStep = "app"
    /\ pc[Main] = "idle"
    /\ g_preInitPos > 0
    /\ out' = [out EXCEPT ![Main] = FirstBytes(g_preInitBuffer, g_preInitPos)]
    /\ pc' = [pc EXCEPT ![Main] = "lock"]
    /\ initStep' = "flush"
    /\ UNCHANGED <<g_iMsgNum, g_socket, g_lockSocket, bufferVars, preInitVars,
                   pipe, exitStep, lastSize, sent>>

\* Mutant: what was kept before the pipe was open is not sent.
EnableBufferAtOnce ==
    /\ initStep = "app"
    /\ pc[Main] = "idle"
    /\ g_preInitPos' = 0
    /\ g_bTransfertBufferEnabled' = TRUE
    /\ initStep' = "done"
    /\ UNCHANGED <<g_iMsgNum, g_socket, g_lockSocket, g_pTransferBuffer,
                   g_iTransfertBufferSize, g_preInitBuffer, pipe, pc, out,
                   exitStep, lastSize, sent>>

\* and buffering starts
EnableBuffer ==
    /\ \/ initStep = "app" /\ g_preInitPos = 0
       \/ initStep = "flush"
    /\ pc[Main] = "idle"
    /\ g_preInitPos' = 0
    /\ g_bTransfertBufferEnabled' = TRUE
    /\ initStep' = "done"
    /\ UNCHANGED <<g_iMsgNum, g_socket, g_lockSocket, g_pTransferBuffer,
                   g_iTransfertBufferSize, g_preInitBuffer, pipe, pc, out,
                   exitStep, lastSize, sent>>

servercomm_init == Open \/ OpenFails \/ SendPreInitBuffer \/ EnableBuffer

-----------------------------------------------------------------------------
(* servercomm_dispose, which takes no mutex *)

OthersJoined == \A t \in Thread : pc[t] = "idle"

\* the size of the last write is read
DisposeSize ==
    /\ initStep = "done" /\ exitStep = "running"
    /\ pc[Main] = "idle"
    /\ ConcurrentExit \/ OthersJoined
    /\ g_socket /\ g_bTransfertBufferEnabled
    /\ lastSize' = g_iTransfertBufferSize
    /\ exitStep' = "write"
    /\ UNCHANGED <<g_iMsgNum, g_socket, g_lockSocket, bufferVars, preInitVars,
                   pipe, pc, out, initStep, sent>>

\* the buffer is written; its size stays as it is
DisposeWrite ==
    /\ exitStep = "write"
    /\ servercomm_send_physical(FirstBytes(g_pTransferBuffer, lastSize))
    /\ exitStep' = "disable"
    /\ UNCHANGED <<g_iMsgNum, g_socket, g_lockSocket, bufferVars, preInitVars,
                   pc, out, initStep, lastSize, sent>>

\* Mutant: buffering goes on after the last write.
DisposeKeepsBuffering ==
    /\ exitStep = "disable"
    /\ exitStep' = "done"
    /\ UNCHANGED <<g_iMsgNum, g_socket, g_lockSocket, bufferVars, preInitVars, pipe,
                   pc, out, initStep, lastSize, sent>>

\* buffering ends: later messages are written one by one
DisposeDisable ==
    /\ exitStep = "disable"
    /\ g_bTransfertBufferEnabled' = FALSE
    /\ exitStep' = "done"
    /\ UNCHANGED <<g_iMsgNum, g_socket, g_lockSocket, g_pTransferBuffer,
                   g_iTransfertBufferSize, preInitVars, pipe, pc, out, initStep,
                   lastSize, sent>>

servercomm_dispose == DisposeSize \/ DisposeWrite \/ DisposeDisable

-----------------------------------------------------------------------------
Next ==
    \/ \E t \in Thread : servercomm_msg_init(t) \/ servercomm_send(t)
    \/ servercomm_init
    \/ servercomm_dispose

Spec == Init /\ [][Next]_vars

\* the scheduler runs every thread that can run, and the program ends; a waiting
\* thread gets the mutex in the end, the contention being finite
Fairness ==
    /\ \A t \in Thread : WF_vars(SendSafe(t)) /\ WF_vars(SendPreInit(t)) /\ SF_vars(Lock(t))
                         /\ WF_vars(Flush(t)) /\ WF_vars(Copy(t)) /\ WF_vars(Direct(t))
    /\ WF_vars(servercomm_init)
    /\ WF_vars(servercomm_dispose)

FairSpec == Spec /\ Fairness
-----------------------------------------------------------------------------
(* Properties *)

\* The type of every variable.
TypeOK ==
    /\ g_iMsgNum \in Nat
    /\ g_socket \in BOOLEAN
    /\ g_lockSocket \in Thread \cup {NONE}
    /\ g_bTransfertBufferEnabled \in BOOLEAN
    /\ g_pTransferBuffer \in Memory
    /\ g_iTransfertBufferSize \in 0..BUFFER_SIZE
    /\ g_preInitBuffer \in Memory
    /\ g_preInitPos \in 0..BUFFER_SIZE
    /\ pipe \in Seq(Cell)
    /\ pc \in [Thread -> {"idle", "send_safe", "lock", "flush", "copy", "direct"}]
    /\ out \in [Thread -> Seq(Cell)]
    /\ initStep \in {"preinit", "app", "flush", "done"}
    /\ exitStep \in {"running", "write", "disable", "done"}
    /\ lastSize \in 0..BUFFER_SIZE
    /\ sent \in Seq(Cell)

\* No memcpy of servercomm_send writes past g_pTransferBuffer: when a thread is
\* about to copy, the room the test against BUFFER_SIZE left is still there.
BufferInBounds ==
    \A t \in Thread :
        pc[t] = "copy" => g_iTransfertBufferSize + Len(out[t]) <= BUFFER_SIZE

\* the bytes accepted and not yet written; the last write of servercomm_dispose
\* takes them without resetting their count
Pending ==
    IF exitStep \in {"disable", "done"} THEN <<>>
    ELSE FirstBytes(g_pTransferBuffer, g_iTransfertBufferSize)

\* Every accepted byte is in the pipe or in the buffer, once, in the order of
\* acceptance: no interleaving of senders, flushes, start-up and exit drops,
\* repeats or overtakes a message.
NothingLost == ~WritesMayFail /\ ~ConcurrentExit => pipe \o Pending = sent

\* the first position of every message in a byte sequence
Starts(s) == {i \in 1..Len(s) : s[i].at = 1}

\* whole messages, each from its first byte to its last
Whole(s) ==
    /\ \A i \in 1..Len(s) : s[i] \in Byte
    /\ s # <<>> => s[1].at = 1 /\ s[Len(s)].at = SizeOf[s[Len(s)].msg.code]
    /\ \A i \in 1..(Len(s) - 1) :
        IF s[i].at = SizeOf[s[i].msg.code]
        THEN s[i + 1].at = 1
        ELSE s[i + 1] = [s[i] EXCEPT !.at = @ + 1]

\* What reaches the reader is whole messages and what waits is too, also when
\* writes fail: a failed write costs the batch and never the framing.
WholeMessages == ~ConcurrentExit => Whole(pipe) /\ Whole(Pending)

Quiet == \A t \in Thread : pc[t] = "idle"

\* Once start-up is over and no send is under way, every number given by
\* servercomm_msg_header_init_v1 belongs to exactly one accepted message,
\* those given before the pipe was open included.
EveryNumberOnce ==
    Quiet /\ g_socket /\ initStep = "done" =>
        \A n \in 1..g_iMsgNum :
            \E i \in Starts(sent) :
                /\ sent[i].msg.num = n
                /\ \A j \in Starts(sent) \ {i} : sent[j].msg.num # n

\* The App message opens the stream, and behind it the messages of one thread
\* keep the order of their numbers (those of different threads need not).
ThreadOrder ==
    /\ sent # <<>> => sent[1].msg.code = App
    /\ \A i, j \in Starts(sent) :
        1 < i /\ i < j /\ sent[i].msg.thread = sent[j].msg.thread
            => sent[i].msg.num < sent[j].msg.num

\* Once the destructor ran and no send is under way, nothing is left behind:
\* "some message can be sent after this point" (server-comm.c:156) and they
\* arrive.
NothingStranded ==
    exitStep = "done" /\ Quiet /\ ~WritesMayFail => pipe = sent

\* When the program ends, every message of it is in the pipe, for good.
AllDelivered == <>[](g_socket /\ exitStep = "done" /\ Quiet /\ pipe = sent)

\* Seen from outside the library is a channel that batches (Channel.tla).
Chan == INSTANCE Channel WITH Lossy <- WritesMayFail, delivered <- pipe, pending <- Pending
ChannelSpec == Chan!Spec
=============================================================================

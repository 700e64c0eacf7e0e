-------------------------- MODULE ServerCommProofs --------------------------
(***************************************************************************)
(* What ServerComm guarantees for every number of threads, every mix of    *)
(* message sizes and every size of buffer.                                 *)
(***************************************************************************)
EXTENDS ServerComm, SequenceTheorems, TLAPS

-----------------------------------------------------------------------------
(* Byte sequences *)

\* The empty sequence is one of them.
LEMMA NoBytes == <<>> \in Seq(Cell)
OBVIOUS

\* The bytes of a message are a sequence as long as its struct.
LEMMA BytesLemma ==
    ASSUME NEW m \in Message
    PROVE  Bytes(m) \in Seq(Cell) /\ Len(Bytes(m)) = SizeOf[m.code]
                                  /\ SizeOf[m.code] \in 1..BUFFER_SIZE
<1>1. SizeOf[m.code] \in 1..BUFFER_SIZE
  BY SizeAssumption DEF Message
<1>2. Bytes(m) \in [1..SizeOf[m.code] -> Cell]
  BY <1>1 DEF Bytes, Byte, Cell
<1>3. QED
  BY <1>1, <1>2, SizeAssumption

\* A prefix of a buffer is a sequence of the length asked for.
LEMMA FirstBytesLemma ==
    ASSUME NEW buf \in Memory, NEW n \in 0..BUFFER_SIZE
    PROVE  FirstBytes(buf, n) \in Seq(Cell) /\ Len(FirstBytes(buf, n)) = n
<1>1. FirstBytes(buf, n) \in [1..n -> Cell]
  BY SizeAssumption DEF FirstBytes, Memory
<1>2. QED
  BY <1>1, SizeAssumption

\* memcpy keeps the shape of the buffer.
LEMMA MemcpyType ==
    ASSUME NEW buf \in Memory, NEW off \in 0..BUFFER_SIZE, NEW data \in Seq(Cell)
    PROVE  Memcpy(buf, off, data) \in Memory
<1>1. SUFFICES ASSUME NEW i \in 1..BUFFER_SIZE, off < i, i <= off + Len(data)
               PROVE  data[i - off] \in Cell
  BY DEF Memcpy, Memory
<1>2. i - off \in 1..Len(data)
  BY <1>1, SizeAssumption
<1>3. QED
  BY <1>2

\* Copying behind the first off bytes appends to them.
LEMMA MemcpyAppends ==
    ASSUME NEW buf \in Memory, NEW off \in 0..BUFFER_SIZE, NEW data \in Seq(Cell),
           off + Len(data) <= BUFFER_SIZE
    PROVE  FirstBytes(Memcpy(buf, off, data), off + Len(data))
             = FirstBytes(buf, off) \o data
<1> DEFINE new == FirstBytes(Memcpy(buf, off, data), off + Len(data))
           old == FirstBytes(buf, off)
<1>1. old \in Seq(Cell) /\ Len(old) = off
  BY FirstBytesLemma
<1>2. new \in Seq(Cell) /\ Len(new) = off + Len(data)
  <2>1. off + Len(data) \in 0..BUFFER_SIZE
    BY SizeAssumption
  <2>2. Memcpy(buf, off, data) \in Memory
    BY MemcpyType
  <2>3. QED
    BY <2>1, <2>2, FirstBytesLemma
<1>3. old \o data \in Seq(Cell) /\ Len(old \o data) = off + Len(data)
  BY <1>1, ConcatProperties
<1>4. ASSUME NEW i \in 1..(off + Len(data))
      PROVE  new[i] = (old \o data)[i]
  <2>1. i \in 1..BUFFER_SIZE
    BY SizeAssumption
  <2>2. new[i] = IF off < i THEN data[i - off] ELSE buf[i]
    BY <2>1 DEF FirstBytes, Memcpy
  <2>3. (old \o data)[i] = IF i <= off THEN old[i] ELSE data[i - off]
    BY <1>1, ConcatProperties
  <2>4. i <= off => old[i] = buf[i]
    BY DEF FirstBytes
  <2>5. QED
    BY <2>2, <2>3, <2>4
<1>5. QED
  BY <1>2, <1>3, <1>4, SeqEqual
-----------------------------------------------------------------------------
(* The buffer is never overrun *)

\* what a thread is sending fits in the buffer
OutFits == \A t \in Thread : Len(out[t]) <= BUFFER_SIZE

\* the mutex belongs to the thread that is between lock and unlock
LockOwner ==
    \A t \in Thread : pc[t] \in {"flush", "copy", "direct"} <=> g_lockSocket = t

BufferInv == TypeOK /\ OutFits /\ LockOwner /\ BufferInBounds

\* The buffer is in bounds at the start,
LEMMA BufferInvInit == Init => BufferInv
<1> SUFFICES ASSUME Init PROVE BufferInv
  OBVIOUS
<1> USE SizeAssumption, ThreadAssumption DEF Init
<1>1. TypeOK
  <2>1. NONE \in Cell
    BY DEF Cell
  <2>2. [i \in 1..BUFFER_SIZE |-> NONE] \in Memory
    BY <2>1 DEF Memory
  <2>3. out \in [Thread -> Seq(Cell)] /\ pipe \in Seq(Cell) /\ sent \in Seq(Cell)
    BY NoBytes
  <2>4. g_socket \in BOOLEAN /\ g_bTransfertBufferEnabled \in BOOLEAN
    OBVIOUS
  <2>5. QED
    BY <2>2, <2>3, <2>4 DEF TypeOK
<1>2. OutFits /\ LockOwner /\ BufferInBounds
  BY DEF OutFits, LockOwner, BufferInBounds
<1>3. QED
  BY <1>1, <1>2 DEF BufferInv

\* and every step keeps it so.
LEMMA BufferInvStep == BufferInv /\ [Next]_vars => BufferInv'
<1> SUFFICES ASSUME BufferInv, [Next]_vars PROVE BufferInv'
  OBVIOUS
<1> USE SizeAssumption, ThreadAssumption
<1>a. TypeOK /\ OutFits /\ LockOwner /\ BufferInBounds
  BY DEF BufferInv
<1>m. ASSUME NEW t \in Thread, NEW code \in Code \cup {App}, NumberMsg(t, code)
      PROVE  /\ g_iMsgNum' \in Nat
             /\ out' \in [Thread -> Seq(Cell)]
             /\ pc' \in [Thread -> {"idle", "send_safe", "lock", "flush", "copy", "direct"}]
             /\ OutFits'
             /\ g_lockSocket' = g_lockSocket => LockOwner'
             /\ g_iTransfertBufferSize' = g_iTransfertBufferSize => BufferInBounds'
  <2> DEFINE m == [thread |-> t, num |-> g_iMsgNum + 1, code |-> code]
  <2>1. g_iMsgNum' \in Nat /\ m \in Message
    BY <1>a, <1>m DEF NumberMsg, TypeOK, Message
  <2>2. Bytes(m) \in Seq(Cell) /\ Len(Bytes(m)) <= BUFFER_SIZE
    BY <2>1, BytesLemma
  <2>3. out' = [out EXCEPT ![t] = Bytes(m)] /\ pc' = [pc EXCEPT ![t] = "send_safe"]
        /\ pc[t] = "idle"
    BY <1>m DEF NumberMsg
  <2> HIDE DEF m
  <2>4. out' \in [Thread -> Seq(Cell)] /\ OutFits'
    BY <1>a, <2>2, <2>3 DEF TypeOK, OutFits
  <2>5. QED
    BY <1>a, <2>1, <2>3, <2>4 DEF TypeOK, LockOwner, BufferInBounds
<1>w. ASSUME NEW data \in Seq(Cell), servercomm_send_physical(data)
      PROVE  pipe' \in Seq(Cell)
  <2>1. pipe \in Seq(Cell)
    BY <1>a DEF TypeOK
  <2>2. pipe \o data \in Seq(Cell)
    BY <2>1, ConcatProperties
  <2>3. QED
    BY <1>w, <2>1, <2>2, SwitchAssumption DEF servercomm_send_physical
<1>1. ASSUME NEW t \in Thread, servercomm_msg_init(t) PROVE BufferInv'
  <2>1. PICK code \in Code : NumberMsg(t, code)
    BY <1>1 DEF servercomm_msg_init
  <2>2. QED
    BY <1>a, <1>1, <1>m, <2>1 DEF servercomm_msg_init, BufferInv, TypeOK,
       bufferVars, preInitVars, phaseVars
<1>2. ASSUME NEW t \in Thread, SendSafe(t) PROVE BufferInv'
  BY <1>a, <1>2 DEF SendSafe, BufferInv, TypeOK, OutFits, LockOwner, BufferInBounds,
     bufferVars, preInitVars, phaseVars
<1>3. ASSUME NEW t \in Thread, SendPreInit(t) PROVE BufferInv'
  <2>1. g_preInitBuffer' \in Memory /\ g_preInitPos' \in 0..BUFFER_SIZE
    BY <1>a, <1>3, MemcpyType DEF SendPreInit, TypeOK
  <2>2. QED
    BY <1>a, <1>3, <2>1 DEF SendPreInit, BufferInv, TypeOK, OutFits, LockOwner,
       BufferInBounds, bufferVars, phaseVars
<1>4. ASSUME NEW t \in Thread, Lock(t) PROVE BufferInv'
  BY <1>a, <1>4 DEF Lock, BufferInv, TypeOK, OutFits, LockOwner, BufferInBounds,
     bufferVars, preInitVars, phaseVars
<1>5. ASSUME NEW t \in Thread, Flush(t) PROVE BufferInv'
  <2>1. pipe' \in Seq(Cell)
    BY <1>a, <1>5, <1>w, FirstBytesLemma DEF Flush, TypeOK
  <2>2. QED
    BY <1>a, <1>5, <2>1 DEF Flush, BufferInv, TypeOK, OutFits, LockOwner,
       BufferInBounds, preInitVars, phaseVars
<1>6. ASSUME NEW t \in Thread, Copy(t) PROVE BufferInv'
  <2>1. g_pTransferBuffer' \in Memory
    BY <1>a, <1>6, MemcpyType DEF Copy, TypeOK
  <2>2. g_iTransfertBufferSize' \in 0..BUFFER_SIZE /\ sent' \in Seq(Cell)
    BY <1>a, <1>6, ConcatProperties DEF Copy, TypeOK, BufferInBounds
  <2>3. LockOwner' /\ BufferInBounds' /\ OutFits'
    BY <1>a, <1>6 DEF Copy, TypeOK, OutFits, LockOwner, BufferInBounds
  <2>4. QED
    BY <1>a, <1>6, <2>1, <2>2, <2>3 DEF Copy, BufferInv, TypeOK, preInitVars,
       phaseVars
<1>7. ASSUME NEW t \in Thread, Direct(t) PROVE BufferInv'
  <2>1. pipe' \in Seq(Cell) /\ sent' \in Seq(Cell)
    BY <1>a, <1>7, <1>w, ConcatProperties DEF Direct, TypeOK
  <2>2. QED
    BY <1>a, <1>7, <2>1 DEF Direct, BufferInv, TypeOK, OutFits, LockOwner,
       BufferInBounds, bufferVars, preInitVars, phaseVars
<1>8. ASSUME Open PROVE BufferInv'
  BY <1>a, <1>8, <1>m DEF Open, BufferInv, TypeOK, bufferVars, preInitVars
<1>9. ASSUME OpenFails PROVE BufferInv'
  BY <1>a, <1>9 DEF OpenFails, BufferInv, TypeOK, OutFits, LockOwner, BufferInBounds,
     preInitVars
<1>10. ASSUME SendPreInitBuffer PROVE BufferInv'
  <2> DEFINE data == FirstBytes(g_preInitBuffer, g_preInitPos)
  <2>1. data \in Seq(Cell) /\ Len(data) <= BUFFER_SIZE
    BY <1>a, FirstBytesLemma DEF TypeOK
  <2>2. out' = [out EXCEPT ![Main] = data] /\ pc' = [pc EXCEPT ![Main] = "lock"]
        /\ pc[Main] = "idle"
    BY <1>10 DEF SendPreInitBuffer
  <2> HIDE DEF data
  <2>3. out' \in [Thread -> Seq(Cell)] /\ OutFits'
    BY <1>a, <2>1, <2>2 DEF TypeOK, OutFits
  <2>4. LockOwner' /\ BufferInBounds'
    BY <1>a, <1>10, <2>2 DEF SendPreInitBuffer, TypeOK, LockOwner, BufferInBounds, bufferVars
  <2>5. QED
    BY <1>a, <1>10, <2>2, <2>3, <2>4 DEF SendPreInitBuffer, BufferInv, TypeOK,
       bufferVars, preInitVars
<1>11. ASSUME EnableBuffer PROVE BufferInv'
  BY <1>a, <1>11 DEF EnableBuffer, BufferInv, TypeOK, OutFits, LockOwner, BufferInBounds
<1>12. ASSUME DisposeSize PROVE BufferInv'
  BY <1>a, <1>12 DEF DisposeSize, BufferInv, TypeOK, OutFits, LockOwner, BufferInBounds,
     bufferVars, preInitVars
<1>13. ASSUME DisposeWrite PROVE BufferInv'
  <2>1. pipe' \in Seq(Cell)
    BY <1>a, <1>13, <1>w, FirstBytesLemma DEF DisposeWrite, TypeOK
  <2>2. QED
    BY <1>a, <1>13, <2>1 DEF DisposeWrite, BufferInv, TypeOK, OutFits, LockOwner,
       BufferInBounds, bufferVars, preInitVars
<1>14. ASSUME DisposeDisable PROVE BufferInv'
  BY <1>a, <1>14 DEF DisposeDisable, BufferInv, TypeOK, OutFits, LockOwner, BufferInBounds,
     preInitVars
<1>15. CASE UNCHANGED vars
  BY <1>a, <1>15 DEF vars, BufferInv, TypeOK, OutFits, LockOwner, BufferInBounds,
     bufferVars, preInitVars, phaseVars
<1>16. QED
  BY <1>1, <1>2, <1>3, <1>4, <1>5, <1>6, <1>7, <1>8, <1>9, <1>10, <1>11, <1>12,
     <1>13, <1>14, <1>15
     DEF Next, servercomm_send, servercomm_init, servercomm_dispose

\* The variables have their types and no memcpy overruns g_pTransferBuffer,
\* whatever the threads, the messages, the failures and the moment of exit.
THEOREM BufferSafe == Spec => [](TypeOK /\ BufferInBounds)
<1>1. Init => BufferInv
  BY BufferInvInit
<1>2. BufferInv /\ [Next]_vars => BufferInv'
  BY BufferInvStep
<1>3. BufferInv => TypeOK /\ BufferInBounds
  BY DEF BufferInv
<1>4. QED
  BY <1>1, <1>2, <1>3, PTL DEF Spec

\* Every variable keeps its type, the sizes and positions their bounds.
THEOREM TypeCorrect == Spec => []TypeOK
BY BufferSafe, PTL
-----------------------------------------------------------------------------
(* What a step does to the stream *)

\* start-up is over before another thread sends and before the exit begins,
\* and until then nothing is buffered
StartFirst ==
    initStep # "done" =>
        /\ exitStep = "running"
        /\ ~g_bTransfertBufferEnabled
        /\ g_iTransfertBufferSize = 0
        /\ \A t \in Thread \ {Main} : pc[t] = "idle"

\* when the other threads are joined first, nobody sends during the last flush,
\* which writes the whole buffer
ExitLast ==
    /\ exitStep \in {"write", "disable"} =>
        g_bTransfertBufferEnabled /\ lastSize = g_iTransfertBufferSize
            /\ \A t \in Thread : pc[t] = "idle"
    /\ exitStep = "done" => ~g_bTransfertBufferEnabled
    /\ exitStep = "running" /\ initStep = "done" => g_bTransfertBufferEnabled

\* the decision taken with the mutex still holds when it is carried out
DecisionHolds ==
    \A t \in Thread :
        /\ pc[t] = "direct" => ~g_bTransfertBufferEnabled
        /\ pc[t] \in {"flush", "copy"} => g_bTransfertBufferEnabled

PhaseInv == StartFirst /\ ExitLast /\ DecisionHolds

\* Start-up and exit frame the rest at the start,
LEMMA PhaseInvInit == Init => PhaseInv
BY ThreadAssumption DEF Init, PhaseInv, StartFirst, ExitLast, DecisionHolds

\* and in every step, when the threads are joined before the exit.
LEMMA PhaseInvStep ==
    ASSUME ~ConcurrentExit
    PROVE  BufferInv /\ PhaseInv /\ [Next]_vars => PhaseInv'
<1> SUFFICES ASSUME BufferInv, PhaseInv, [Next]_vars PROVE PhaseInv'
  OBVIOUS
<1> USE ThreadAssumption DEF PhaseInv, StartFirst, ExitLast, DecisionHolds
<1>a. TypeOK /\ LockOwner
  BY DEF BufferInv
<1>1. ASSUME NEW t \in Thread, servercomm_msg_init(t) PROVE PhaseInv'
  BY <1>a, <1>1 DEF servercomm_msg_init, NumberMsg, MaySend, TypeOK, bufferVars, phaseVars
<1>2. ASSUME NEW t \in Thread, SendSafe(t) PROVE PhaseInv'
  BY <1>a, <1>2 DEF SendSafe, TypeOK, bufferVars, phaseVars
<1>3. ASSUME NEW t \in Thread, SendPreInit(t) PROVE PhaseInv'
  BY <1>a, <1>3 DEF SendPreInit, TypeOK, bufferVars, phaseVars
<1>4. ASSUME NEW t \in Thread, Lock(t) PROVE PhaseInv'
  BY <1>a, <1>4 DEF Lock, TypeOK, bufferVars, phaseVars
<1>5. ASSUME NEW t \in Thread, Flush(t) PROVE PhaseInv'
  BY <1>a, <1>5 DEF Flush, TypeOK, phaseVars
<1>6. ASSUME NEW t \in Thread, Copy(t) PROVE PhaseInv'
  BY <1>a, <1>6 DEF Copy, TypeOK, phaseVars
<1>7. ASSUME NEW t \in Thread, Direct(t) PROVE PhaseInv'
  BY <1>a, <1>7 DEF Direct, TypeOK, bufferVars, phaseVars
<1>8. ASSUME Open PROVE PhaseInv'
  BY <1>a, <1>8 DEF Open, NumberMsg, TypeOK, bufferVars
<1>9. ASSUME OpenFails PROVE PhaseInv'
  BY <1>a, <1>9 DEF OpenFails, TypeOK
<1>10. ASSUME SendPreInitBuffer PROVE PhaseInv'
  BY <1>a, <1>10 DEF SendPreInitBuffer, TypeOK, bufferVars
<1>11. ASSUME EnableBuffer PROVE PhaseInv'
  BY <1>a, <1>11 DEF EnableBuffer, TypeOK
<1>12. ASSUME DisposeSize PROVE PhaseInv'
  BY <1>a, <1>12 DEF DisposeSize, OthersJoined, TypeOK, bufferVars
<1>13. ASSUME DisposeWrite PROVE PhaseInv'
  BY <1>a, <1>13 DEF DisposeWrite, TypeOK, bufferVars
<1>14. ASSUME DisposeDisable PROVE PhaseInv'
  BY <1>a, <1>14 DEF DisposeDisable, TypeOK
<1>15. CASE UNCHANGED vars
  BY <1>15 DEF vars, bufferVars, phaseVars
<1>16. QED
  BY <1>1, <1>2, <1>3, <1>4, <1>5, <1>6, <1>7, <1>8, <1>9, <1>10, <1>11, <1>12,
     <1>13, <1>14, <1>15
     DEF Next, servercomm_send, servercomm_init, servercomm_dispose

\* the four things a step can do: nothing to the stream, add to the batch,
\* write the batch, or write around an empty batch
Silent == UNCHANGED <<pipe, Pending, sent>>
Batched(data) == /\ sent' = sent \o data
                 /\ Pending' = Pending \o data
                 /\ UNCHANGED pipe
Written == /\ servercomm_send_physical(Pending)
           /\ Pending' = <<>>
           /\ UNCHANGED sent
Through(data) == /\ Pending = <<>> /\ Pending' = <<>>
                 /\ sent' = sent \o data
                 /\ servercomm_send_physical(data)

\* What waits is a byte sequence.
LEMMA PendingType == TypeOK => Pending \in Seq(Cell)
BY FirstBytesLemma, NoBytes DEF TypeOK, Pending

\* A prefix of no bytes is the empty sequence.
LEMMA FirstBytesOfNone == \A buf : FirstBytes(buf, 0) = <<>>
BY DEF FirstBytes

\* Every step does one of the four.
LEMMA StreamStep ==
    ASSUME ~ConcurrentExit, BufferInv, PhaseInv, [Next]_vars
    PROVE  \/ Silent
           \/ \E t \in Thread : Batched(out[t])
           \/ Written
           \/ \E t \in Thread : Through(out[t])
<1>a. TypeOK /\ BufferInBounds /\ StartFirst /\ ExitLast /\ DecisionHolds
  BY DEF BufferInv, PhaseInv
<1>1. ASSUME NEW t \in Thread, servercomm_msg_init(t) PROVE Silent
  BY <1>1 DEF servercomm_msg_init, Silent, Pending, bufferVars, phaseVars
<1>2. ASSUME NEW t \in Thread, SendSafe(t) \/ SendPreInit(t) \/ Lock(t) PROVE Silent
  BY <1>2 DEF SendSafe, SendPreInit, Lock, Silent, Pending, bufferVars, phaseVars
<1>5. ASSUME NEW t \in Thread, Flush(t) PROVE Written
  <2>1. exitStep = "running"
    BY <1>a, <1>5 DEF Flush, ExitLast, DecisionHolds, TypeOK
  <2>2. Pending = FirstBytes(g_pTransferBuffer, g_iTransfertBufferSize)
    BY <2>1 DEF Pending
  <2>3. Pending' = <<>>
    BY <1>5, <2>1, FirstBytesOfNone DEF Pending, Flush, phaseVars
  <2>4. QED
    BY <1>5, <2>2, <2>3 DEF Flush, Written, phaseVars
<1>6. ASSUME NEW t \in Thread, Copy(t) PROVE Batched(out[t])
  <2>1. exitStep = "running" /\ exitStep' = "running"
    BY <1>a, <1>6 DEF Copy, ExitLast, DecisionHolds, TypeOK, phaseVars
  <2>2. Pending = FirstBytes(g_pTransferBuffer, g_iTransfertBufferSize)
    BY <2>1 DEF Pending
  <2>3. Pending' = FirstBytes(Memcpy(g_pTransferBuffer, g_iTransfertBufferSize, out[t]),
                              g_iTransfertBufferSize + Len(out[t]))
    BY <1>6, <2>1 DEF Pending, Copy
  <2>4. Pending' = Pending \o out[t]
    BY <1>a, <1>6, <2>2, <2>3, MemcpyAppends DEF Copy, BufferInBounds, TypeOK
  <2>5. QED
    BY <1>6, <2>4 DEF Copy, Batched
<1>7. ASSUME NEW t \in Thread, Direct(t) PROVE Through(out[t])
  <2>1. exitStep = "done" \/ (exitStep = "running" /\ g_iTransfertBufferSize = 0)
    <3>1. pc[t] = "direct" /\ ~g_bTransfertBufferEnabled
      BY <1>a, <1>7 DEF Direct, DecisionHolds
    <3>2. exitStep \notin {"write", "disable"}
      BY <1>a, <3>1 DEF ExitLast
    <3>3. exitStep = "running" => g_iTransfertBufferSize = 0
      BY <1>a, <3>1 DEF ExitLast, StartFirst
    <3>4. QED
      BY <1>a, <3>2, <3>3 DEF TypeOK
  <2>2. Pending = <<>> /\ Pending' = <<>>
    BY <1>7, <2>1, FirstBytesOfNone DEF Direct, Pending, bufferVars, phaseVars
  <2>3. QED
    BY <1>7, <2>2 DEF Direct, Through
<1>8. ASSUME Open \/ OpenFails \/ SendPreInitBuffer \/ EnableBuffer PROVE Silent
  BY <1>8 DEF Open, OpenFails, SendPreInitBuffer, EnableBuffer, Silent, Pending, bufferVars
<1>12. ASSUME DisposeSize \/ DisposeDisable PROVE Silent
  BY <1>12 DEF DisposeSize, DisposeDisable, Silent, Pending, bufferVars
<1>13. ASSUME DisposeWrite PROVE Written
  <2>1. Pending = FirstBytes(g_pTransferBuffer, lastSize)
    BY <1>a, <1>13 DEF DisposeWrite, ExitLast, Pending
  <2>2. QED
    BY <1>13, <2>1 DEF DisposeWrite, Written, Pending
<1>15. ASSUME UNCHANGED vars PROVE Silent
  BY <1>15 DEF vars, Silent, Pending, bufferVars, phaseVars
<1>16. QED
  BY <1>1, <1>2, <1>5, <1>6, <1>7, <1>8, <1>12, <1>13, <1>15
     DEF Next, servercomm_send, servercomm_init, servercomm_dispose
-----------------------------------------------------------------------------
(* Nothing is lost, and the channel is implemented *)

\* the inductive invariant of NothingLost
StreamInv == BufferInv /\ (~ConcurrentExit => PhaseInv /\ NothingLost)

\* Every step keeps the pipe followed by the buffer equal to what was accepted;
LEMMA StreamInvStep == StreamInv /\ [Next]_vars => StreamInv'
<1> SUFFICES ASSUME StreamInv, [Next]_vars PROVE StreamInv'
  OBVIOUS
<1>1. BufferInv /\ BufferInv'
  BY BufferInvStep DEF StreamInv
<1>2. SUFFICES ASSUME ~ConcurrentExit, ~WritesMayFail
               PROVE  pipe' \o Pending' = sent'
  BY <1>1, PhaseInvStep DEF StreamInv, NothingLost
<1>3. PhaseInv /\ pipe \o Pending = sent
  BY <1>2 DEF StreamInv, NothingLost
<1>4. pipe \in Seq(Cell) /\ Pending \in Seq(Cell) /\ sent \in Seq(Cell)
  BY <1>1, PendingType DEF BufferInv, TypeOK
<1>5. CASE Silent
  BY <1>3, <1>5 DEF Silent
<1>6. ASSUME NEW data \in Seq(Cell), Batched(data) PROVE pipe' \o Pending' = sent'
  <2>1. (pipe \o Pending) \o data = pipe \o (Pending \o data)
    BY <1>4, ConcatAssociative
  <2>2. QED
    BY <1>3, <1>6, <2>1 DEF Batched
<1>7. ASSUME Written PROVE pipe' \o Pending' = sent'
  <2>1. pipe' = pipe \o Pending /\ Pending' = <<>> /\ sent' = sent
    BY <1>2, <1>7 DEF Written, servercomm_send_physical
  <2>2. sent \o <<>> = sent
    BY <1>4, ConcatEmptySeq
  <2>3. QED
    BY <1>3, <2>1, <2>2
<1>8. ASSUME NEW data \in Seq(Cell), Through(data) PROVE pipe' \o Pending' = sent'
  <2>1. pipe' = pipe \o data /\ Pending = <<>> /\ Pending' = <<>> /\ sent' = sent \o data
    BY <1>2, <1>8 DEF Through, servercomm_send_physical
  <2>2. pipe \o <<>> = pipe /\ pipe \o data \in Seq(Cell)
    BY <1>4, ConcatEmptySeq, ConcatProperties
  <2>3. (pipe \o data) \o <<>> = pipe \o data
    BY <2>2, ConcatEmptySeq
  <2>4. QED
    BY <1>3, <2>1, <2>2, <2>3
<1>9. \A t \in Thread : out[t] \in Seq(Cell)
  BY <1>1 DEF BufferInv, TypeOK
<1>10. QED
  BY <1>1, <1>2, <1>3, <1>5, <1>6, <1>7, <1>8, <1>9, StreamStep

\* at the start all three are empty.
LEMMA StreamInvInit == Init => StreamInv
<1> SUFFICES ASSUME Init PROVE StreamInv
  OBVIOUS
<1>1. Pending = <<>>
  BY FirstBytesOfNone DEF Init, Pending
<1>2. pipe \o Pending = sent
  BY <1>1 DEF Init
<1>3. QED
  BY <1>2, BufferInvInit, PhaseInvInit DEF StreamInv, NothingLost

\* When no write fails and the other threads are joined before the destructor
\* runs, the pipe followed by the buffer is at every moment exactly what was
\* accepted, in that order.
THEOREM StreamComplete == Spec => []NothingLost
<1>1. StreamInv => NothingLost
  BY DEF StreamInv, NothingLost
<1>2. QED
  BY <1>1, StreamInvInit, StreamInvStep, PTL DEF Spec

\* What is appended is what the longer sequence has beyond the shorter one.
LEMMA AppendedPart ==
    ASSUME NEW s \in Seq(Cell), NEW data \in Seq(Cell)
    PROVE  SubSeq(s \o data, Len(s) + 1, Len(s \o data)) = data
<1> DEFINE new == SubSeq(s \o data, Len(s) + 1, Len(s \o data))
<1>1. /\ s \o data \in Seq(Cell)
      /\ Len(s \o data) = Len(s) + Len(data)
      /\ \A i \in 1..Len(data) : (s \o data)[Len(s) + i] = data[i]
  BY ConcatProperties
<1>2. /\ new \in Seq(Cell) /\ Len(new) = Len(data)
      /\ \A i \in 1..Len(data) : new[i] = (s \o data)[Len(s) + i]
  BY <1>1
<1>3. QED
  BY <1>1, <1>2, SeqEqual

\* Every step of the library is a step of the channel or changes nothing of it:
\* batching, mutex, start-up and exit are invisible to the reader, except that
\* a failing write costs a whole batch.
THEOREM ImplementsChannel ==
    ASSUME ~ConcurrentExit
    PROVE  Spec => ChannelSpec
<1>1. Init => Chan!Init
  BY FirstBytesOfNone DEF Init, Chan!Init, Pending
<1>2. StreamInv /\ [Next]_vars => [Chan!Next]_(Chan!cvars)
  <2> SUFFICES ASSUME StreamInv, [Next]_vars PROVE [Chan!Next]_(Chan!cvars)
    OBVIOUS
  <2>1. BufferInv /\ PhaseInv
    BY DEF StreamInv
  <2>2. sent \in Seq(Cell)
    BY <2>1 DEF BufferInv, TypeOK
  <2>3. CASE Silent
    BY <2>3 DEF Silent, Chan!cvars
  <2>4. ASSUME NEW data \in Seq(Cell), Batched(data) PROVE Chan!Put
    BY <2>2, <2>4, AppendedPart DEF Batched, Chan!Put, Chan!Accept, Chan!NewBytes
  <2>5. CASE Written
    BY <2>5 DEF Written, servercomm_send_physical, Chan!Next, Chan!Push
  <2>6. ASSUME NEW data \in Seq(Cell), Through(data) PROVE Chan!PutThrough
    BY <2>2, <2>6, AppendedPart DEF Through, servercomm_send_physical,
       Chan!PutThrough, Chan!Accept, Chan!NewBytes
  <2>7. \A t \in Thread : out[t] \in Seq(Cell)
    BY <2>1 DEF BufferInv, TypeOK
  <2>8. QED
    BY <2>1, <2>3, <2>4, <2>5, <2>6, <2>7, StreamStep DEF Chan!Next
<1>3. QED
  BY <1>1, <1>2, StreamInvInit, StreamInvStep, PTL DEF Spec, ChannelSpec, Chan!Spec
-----------------------------------------------------------------------------
(* The framing survives, also when writes fail *)

\* No byte is no part of a message.
LEMMA WholeEmpty == Whole(<<>>)
BY DEF Whole

\* The bytes of a message are one whole message.
LEMMA WholeBytes ==
    ASSUME NEW m \in Message
    PROVE  Whole(Bytes(m))
<1> DEFINE s == Bytes(m)  n == SizeOf[m.code]
<1>1. n \in 1..BUFFER_SIZE /\ Len(s) = n
  BY BytesLemma
<1>2. n \in Nat /\ n >= 1
  BY <1>1, SizeAssumption
<1>3. \A i \in 1..n : s[i] = [msg |-> m, at |-> i]
  BY DEF Bytes
<1>n. n = SizeOf[m.code]
  OBVIOUS
<1> HIDE DEF s, n
<1>4. \A i \in 1..Len(s) : s[i] \in Byte
  BY <1>1, <1>2, <1>3 DEF Byte
<1>5. s[1].at = 1 /\ s[Len(s)].at = SizeOf[s[Len(s)].msg.code]
  <2>1. s[1] = [msg |-> m, at |-> 1] /\ s[n] = [msg |-> m, at |-> n]
    BY <1>2, <1>3
  <2>2. QED
    BY <1>1, <1>n, <2>1
<1>6. ASSUME NEW i \in 1..(Len(s) - 1)
      PROVE  IF s[i].at = SizeOf[s[i].msg.code]
             THEN s[i + 1].at = 1
             ELSE s[i + 1] = [s[i] EXCEPT !.at = @ + 1]
  <2>1. i \in 1..n /\ i + 1 \in 1..n /\ i # n
    BY <1>1, <1>2
  <2>2. s[i] = [msg |-> m, at |-> i] /\ s[i + 1] = [msg |-> m, at |-> i + 1]
    BY <1>3, <2>1
  <2>3. s[i].at # SizeOf[s[i].msg.code] /\ [s[i] EXCEPT !.at = @ + 1] = s[i + 1]
    BY <1>n, <2>1, <2>2
  <2>4. QED
    BY <2>3
<1>7. QED
  BY <1>4, <1>5, <1>6 DEF Whole, s

\* Whole messages behind whole messages are whole messages.
LEMMA WholeConcat ==
    ASSUME NEW a \in Seq(Cell), NEW b \in Seq(Cell), Whole(a), Whole(b)
    PROVE  Whole(a \o b)
<1> DEFINE s == a \o b
<1>1. /\ s \in Seq(Cell) /\ Len(s) = Len(a) + Len(b)
      /\ \A i \in 1..Len(a) : s[i] = a[i]
      /\ \A i \in 1..Len(b) : s[Len(a) + i] = b[i]
  BY ConcatProperties
<1>2. Len(a) \in Nat /\ Len(b) \in Nat
  BY LenProperties
<1>3. (a = <<>> <=> Len(a) = 0) /\ (b = <<>> <=> Len(b) = 0) /\ (s = <<>> <=> Len(s) = 0)
  BY <1>1
<1> HIDE DEF s
<1>4. ASSUME NEW i \in 1..Len(s) PROVE s[i] \in Byte
  <2>1. CASE i <= Len(a)
    BY <1>1, <1>2, <2>1 DEF Whole
  <2>2. CASE i > Len(a)
    <3>1. i - Len(a) \in 1..Len(b) /\ i = Len(a) + (i - Len(a))
      BY <1>1, <1>2, <2>2
    <3>2. s[i] = b[i - Len(a)]
      BY <1>1, <3>1
    <3>3. QED
      BY <3>1, <3>2 DEF Whole
  <2>3. QED
    BY <1>2, <2>1, <2>2
<1>5. ASSUME s # <<>> PROVE s[1].at = 1
  <2>1. CASE Len(a) = 0
    <3>1. s[1] = b[1] /\ b # <<>>
      BY <1>1, <1>2, <1>3, <1>5, <2>1
    <3>2. QED
      BY <3>1 DEF Whole
  <2>2. CASE Len(a) > 0
    <3>1. s[1] = a[1] /\ a # <<>>
      BY <1>1, <1>2, <1>3, <2>2
    <3>2. QED
      BY <3>1 DEF Whole
  <2>3. QED
    BY <1>2, <2>1, <2>2
<1>6. ASSUME s # <<>> PROVE s[Len(s)].at = SizeOf[s[Len(s)].msg.code]
  <2>1. CASE Len(b) = 0
    <3>1. s[Len(s)] = a[Len(a)] /\ a # <<>>
      BY <1>1, <1>2, <1>3, <1>6, <2>1
    <3>2. QED
      BY <3>1 DEF Whole
  <2>2. CASE Len(b) > 0
    <3>1. s[Len(s)] = b[Len(b)] /\ b # <<>>
      BY <1>1, <1>2, <1>3, <2>2
    <3>2. QED
      BY <3>1 DEF Whole
  <2>3. QED
    BY <1>2, <2>1, <2>2
<1>7. ASSUME NEW i \in 1..(Len(s) - 1)
      PROVE  IF s[i].at = SizeOf[s[i].msg.code]
             THEN s[i + 1].at = 1
             ELSE s[i + 1] = [s[i] EXCEPT !.at = @ + 1]
  <2>1. CASE i < Len(a)
    <3>1. i \in 1..(Len(a) - 1) /\ s[i] = a[i] /\ s[i + 1] = a[i + 1]
      BY <1>1, <1>2, <2>1
    <3>2. QED
      BY <3>1 DEF Whole
  <2>2. CASE i = Len(a)
    <3>1. s[i] = a[Len(a)] /\ a # <<>> /\ s[i + 1] = b[1] /\ b # <<>>
      BY <1>1, <1>2, <1>3, <2>2
    <3>2. s[i].at = SizeOf[s[i].msg.code] /\ s[i + 1].at = 1
      BY <3>1 DEF Whole
    <3>3. QED
      BY <3>2
  <2>3. CASE i > Len(a)
    <3> DEFINE j == i - Len(a)
    <3>1. /\ j \in 1..(Len(b) - 1) /\ j \in 1..Len(b) /\ j + 1 \in 1..Len(b)
          /\ i = Len(a) + j /\ i + 1 = Len(a) + (j + 1)
      BY <1>1, <1>2, <2>3
    <3> HIDE DEF j
    <3>2. s[i] = b[j]
      BY <1>1, <3>1
    <3>3. s[i + 1] = b[j + 1]
      BY <1>1, <3>1
    <3>4. QED
      BY <3>1, <3>2, <3>3 DEF Whole
  <2>4. QED
    BY <1>2, <2>1, <2>2, <2>3
<1>8. QED
  BY <1>4, <1>5, <1>6, <1>7 DEF Whole, s

\* every thread sends whole messages, and whole messages were kept for the
\* moment the pipe is open
KeptBytes == FirstBytes(g_preInitBuffer, g_preInitPos)
FramedOut == /\ \A t \in Thread : Whole(out[t])
             /\ Whole(KeptBytes)

\* Keeping a message appends it to those kept before.
LEMMA KeptStep ==
    ASSUME TypeOK, NEW t \in Thread, SendPreInit(t)
    PROVE  KeptBytes' = KeptBytes \o out[t]
<1>1. /\ g_preInitBuffer \in Memory /\ g_preInitPos \in 0..BUFFER_SIZE
      /\ out[t] \in Seq(Cell) /\ g_preInitPos + Len(out[t]) <= BUFFER_SIZE
  BY DEF TypeOK, SendPreInit
<1>2. FirstBytes(Memcpy(g_preInitBuffer, g_preInitPos, out[t]), g_preInitPos + Len(out[t]))
        = FirstBytes(g_preInitBuffer, g_preInitPos) \o out[t]
  BY <1>1, MemcpyAppends
<1>3. /\ g_preInitBuffer' = Memcpy(g_preInitBuffer, g_preInitPos, out[t])
      /\ g_preInitPos' = g_preInitPos + Len(out[t])
  BY DEF SendPreInit
<1>4. QED
  BY <1>2, <1>3 DEF KeptBytes

\* What is kept is a byte sequence.
LEMMA KeptType == TypeOK => KeptBytes \in Seq(Cell) /\ Len(KeptBytes) = g_preInitPos
BY FirstBytesLemma DEF TypeOK, KeptBytes

\* Every step leaves whole messages with the threads and in the pre-init buffer.
LEMMA FramedOutStep ==
    ASSUME TypeOK, FramedOut, [Next]_vars
    PROVE  FramedOut'
<1>n. ASSUME NEW t \in Thread, NEW code \in Code \cup {App}, NumberMsg(t, code)
      PROVE  \A u \in Thread : Whole(out'[u])
  <2> DEFINE m == [thread |-> t, num |-> g_iMsgNum + 1, code |-> code]
  <2>1. m \in Message
    BY DEF TypeOK, Message
  <2>2. out' = [out EXCEPT ![t] = Bytes(m)] /\ out \in [Thread -> Seq(Cell)]
    BY <1>n DEF NumberMsg, TypeOK
  <2>3. Whole(Bytes(m))
    BY <2>1, WholeBytes
  <2> HIDE DEF m
  <2>4. \A u \in Thread : out'[u] = IF u = t THEN Bytes(m) ELSE out[u]
    BY <2>2
  <2>5. QED
    BY <2>3, <2>4 DEF FramedOut
<1>1. ASSUME NEW t \in Thread, servercomm_msg_init(t) PROVE FramedOut'
  <2>1. PICK code \in Code : NumberMsg(t, code)
    BY <1>1 DEF servercomm_msg_init
  <2>2. UNCHANGED preInitVars
    BY <1>1 DEF servercomm_msg_init
  <2>3. QED
    BY <1>n, <2>1, <2>2 DEF FramedOut, preInitVars, KeptBytes
<1>2. ASSUME NEW t \in Thread, SendSafe(t) \/ Lock(t) \/ Flush(t) \/ Copy(t) \/ Direct(t)
      PROVE  FramedOut'
  BY <1>2 DEF SendSafe, Lock, Flush, Copy, Direct, FramedOut, preInitVars, KeptBytes
<1>3. ASSUME NEW t \in Thread, SendPreInit(t) PROVE FramedOut'
  <2>1. KeptBytes' = KeptBytes \o out[t] /\ UNCHANGED out
    BY <1>3, KeptStep DEF SendPreInit
  <2>2. Whole(KeptBytes \o out[t])
    BY KeptType, WholeConcat DEF TypeOK, FramedOut
  <2>3. QED
    BY <2>1, <2>2 DEF FramedOut
<1>4. ASSUME Open PROVE FramedOut'
  BY <1>n, <1>4, ThreadAssumption DEF Open, FramedOut, preInitVars, KeptBytes
<1>5. ASSUME OpenFails \/ servercomm_dispose PROVE FramedOut'
  BY <1>5 DEF OpenFails, servercomm_dispose, DisposeSize, DisposeWrite, DisposeDisable,
     FramedOut, preInitVars, KeptBytes
<1>6. ASSUME SendPreInitBuffer PROVE FramedOut'
  <2>1. /\ out' = [out EXCEPT ![Main] = KeptBytes] /\ UNCHANGED preInitVars
        /\ out \in [Thread -> Seq(Cell)]
    BY <1>6 DEF SendPreInitBuffer, KeptBytes, TypeOK
  <2>2. \A u \in Thread : out'[u] = IF u = Main THEN KeptBytes ELSE out[u]
    BY <2>1
  <2>3. QED
    BY <2>1, <2>2 DEF FramedOut, preInitVars, KeptBytes
<1>7. ASSUME EnableBuffer PROVE FramedOut'
  <2>1. KeptBytes' = <<>> /\ UNCHANGED out
    BY <1>7, FirstBytesOfNone DEF EnableBuffer, KeptBytes
  <2>2. QED
    BY <2>1, WholeEmpty DEF FramedOut
<1>8. CASE UNCHANGED vars
  BY <1>8 DEF vars, FramedOut, preInitVars, KeptBytes
<1>9. QED
  BY <1>1, <1>2, <1>3, <1>4, <1>5, <1>6, <1>7, <1>8
     DEF Next, servercomm_send, servercomm_init

\* the inductive invariant of WholeMessages
FrameInv == /\ BufferInv
            /\ FramedOut
            /\ ~ConcurrentExit => PhaseInv /\ Whole(pipe) /\ Whole(Pending)

\* Every step leaves whole messages in the pipe and in the buffer.
LEMMA FrameInvStep == FrameInv /\ [Next]_vars => FrameInv'
<1> SUFFICES ASSUME FrameInv, [Next]_vars PROVE FrameInv'
  OBVIOUS
<1>1. BufferInv /\ BufferInv' /\ TypeOK /\ FramedOut /\ FramedOut'
  BY BufferInvStep, FramedOutStep DEF FrameInv, BufferInv
<1>2. SUFFICES ASSUME ~ConcurrentExit
               PROVE  Whole(pipe)' /\ Whole(Pending)'
  BY <1>1, PhaseInvStep DEF FrameInv
<1>3. PhaseInv /\ Whole(pipe) /\ Whole(Pending)
  BY <1>2 DEF FrameInv
<1>4. /\ pipe \in Seq(Cell) /\ Pending \in Seq(Cell)
      /\ \A t \in Thread : out[t] \in Seq(Cell) /\ Whole(out[t])
  BY <1>1, PendingType DEF TypeOK, FramedOut
<1>w. ASSUME NEW data \in Seq(Cell), Whole(data), servercomm_send_physical(data)
      PROVE  Whole(pipe')
  <2>1. Whole(pipe \o data)
    BY <1>3, <1>4, <1>w, WholeConcat
  <2>2. QED
    BY <1>3, <1>w, <2>1 DEF servercomm_send_physical
<1>5. CASE Silent
  BY <1>3, <1>5 DEF Silent
<1>6. ASSUME NEW t \in Thread, Batched(out[t]) PROVE Whole(pipe)' /\ Whole(Pending)'
  <2>1. Whole(Pending \o out[t])
    BY <1>3, <1>4, WholeConcat
  <2>2. QED
    BY <1>3, <1>6, <2>1 DEF Batched
<1>7. ASSUME Written PROVE Whole(pipe)' /\ Whole(Pending)'
  BY <1>3, <1>4, <1>7, <1>w, WholeEmpty DEF Written
<1>8. ASSUME NEW t \in Thread, Through(out[t]) PROVE Whole(pipe)' /\ Whole(Pending)'
  BY <1>4, <1>8, <1>w, WholeEmpty DEF Through
<1>9. QED
  BY <1>1, <1>2, <1>3, <1>5, <1>6, <1>7, <1>8, StreamStep

\* At the start there are no bytes anywhere.
LEMMA FrameInvInit == Init => FrameInv
<1> SUFFICES ASSUME Init PROVE FrameInv
  OBVIOUS
<1>1. Pending = <<>> /\ KeptBytes = <<>>
  BY FirstBytesOfNone DEF Init, Pending, KeptBytes
<1>2. pipe = <<>> /\ \A t \in Thread : out[t] = <<>>
  BY DEF Init
<1>3. QED
  BY <1>1, <1>2, WholeEmpty, BufferInvInit, PhaseInvInit DEF FrameInv, FramedOut

\* When the threads are joined before the destructor runs, what the reader gets
\* is whole messages at every moment, whichever writes fail: a failed write
\* costs the batch and never the framing of what follows.
THEOREM FramingKept == Spec => []WholeMessages
<1>1. FrameInv => WholeMessages
  BY DEF FrameInv, WholeMessages
<1>2. QED
  BY <1>1, FrameInvInit, FrameInvStep, PTL DEF Spec

\* When the threads are joined before the destructor runs and no write fails,
\* the destructor leaves nothing behind, and what is sent after it arrives.
THEOREM NothingLeftBehind ==
    ASSUME ~ConcurrentExit
    PROVE  Spec => []NothingStranded
<1>1. StreamInv => NothingStranded
  <2> SUFFICES ASSUME StreamInv, exitStep = "done", ~WritesMayFail PROVE pipe = sent
    BY DEF NothingStranded
  <2>1. Pending = <<>> /\ pipe \o Pending = sent
    BY DEF Pending, StreamInv, NothingLost
  <2>2. pipe \in Seq(Cell)
    BY DEF StreamInv, BufferInv, TypeOK
  <2>3. QED
    BY <2>1, <2>2, ConcatEmptySeq
<1>2. QED
  BY <1>1, StreamInvInit, StreamInvStep, PTL DEF Spec
-----------------------------------------------------------------------------
(* Numbers and order *)

\* the numbers of the messages that begin in s, and no number begins two
Numbers(s) == {s[i].msg.num : i \in Starts(s)}
Once(s) == \A i, j \in Starts(s) : s[i].msg.num = s[j].msg.num => i = j

\* behind position first, the messages of a thread are in the order of their numbers
Ordered(s, first) ==
    \A i, j \in Starts(s) :
        first < i /\ i < j /\ s[i].msg.thread = s[j].msg.thread
            => s[i].msg.num < s[j].msg.num

\* Where messages begin in a concatenation.
LEMMA StartsConcat ==
    ASSUME NEW a \in Seq(Cell), NEW b \in Seq(Cell)
    PROVE  /\ a \o b \in Seq(Cell)
           /\ \A i \in Starts(a) : i \in Starts(a \o b) /\ (a \o b)[i] = a[i]
           /\ \A i \in Starts(b) : /\ Len(a) + i \in Starts(a \o b)
                                   /\ (a \o b)[Len(a) + i] = b[i]
           /\ \A k \in Starts(a \o b) :
                \/ k \in Starts(a) /\ (a \o b)[k] = a[k]
                \/ \E i \in Starts(b) : k = Len(a) + i /\ (a \o b)[k] = b[i]
<1> DEFINE s == a \o b
<1>1. /\ s \in Seq(Cell) /\ Len(s) = Len(a) + Len(b)
      /\ \A i \in 1..Len(a) : s[i] = a[i]
      /\ \A i \in 1..Len(b) : s[Len(a) + i] = b[i]
  BY ConcatProperties
<1>2. Len(a) \in Nat /\ Len(b) \in Nat
  BY LenProperties
<1> HIDE DEF s
<1>3. \A i \in Starts(a) : i \in Starts(s) /\ s[i] = a[i]
  BY <1>1, <1>2 DEF Starts
<1>4. \A i \in Starts(b) : Len(a) + i \in Starts(s) /\ s[Len(a) + i] = b[i]
  BY <1>1, <1>2 DEF Starts
<1>5. ASSUME NEW k \in Starts(s)
      PROVE  \/ k \in Starts(a) /\ s[k] = a[k]
             \/ \E i \in Starts(b) : k = Len(a) + i /\ s[k] = b[i]
  <2>1. k \in 1..Len(s) /\ s[k].at = 1
    BY DEF Starts
  <2>2. CASE k <= Len(a)
    BY <1>1, <1>2, <2>1, <2>2 DEF Starts
  <2>3. CASE k > Len(a)
    <3>1. k - Len(a) \in 1..Len(b) /\ k = Len(a) + (k - Len(a))
      BY <1>1, <1>2, <2>1, <2>3
    <3>2. s[k] = b[k - Len(a)]
      BY <1>1, <3>1
    <3>3. k - Len(a) \in Starts(b)
      BY <2>1, <3>1, <3>2 DEF Starts
    <3>4. QED
      BY <3>1, <3>2, <3>3
  <2>4. k \in Nat
    BY <1>1, <1>2, <2>1
  <2>5. QED
    BY <1>2, <2>2, <2>3, <2>4
<1>6. QED
  BY <1>1, <1>3, <1>4, <1>5 DEF s

\* Its numbers are those of its parts,
LEMMA NumbersConcat ==
    ASSUME NEW a \in Seq(Cell), NEW b \in Seq(Cell)
    PROVE  Numbers(a \o b) = Numbers(a) \cup Numbers(b)
<1>1. ASSUME NEW n \in Numbers(a \o b) PROVE n \in Numbers(a) \cup Numbers(b)
  <2>1. PICK k \in Starts(a \o b) : n = (a \o b)[k].msg.num
    BY <1>1 DEF Numbers
  <2>2. \/ k \in Starts(a) /\ (a \o b)[k] = a[k]
        \/ \E i \in Starts(b) : (a \o b)[k] = b[i]
    BY ZenonT(30), StartsConcat
  <2>3. QED
    BY <2>1, <2>2 DEF Numbers
<1>2. ASSUME NEW n \in Numbers(a) PROVE n \in Numbers(a \o b)
  <2>1. PICK i \in Starts(a) : n = a[i].msg.num
    BY <1>2 DEF Numbers
  <2>2. i \in Starts(a \o b) /\ (a \o b)[i] = a[i]
    BY StartsConcat
  <2>3. QED
    BY <2>1, <2>2 DEF Numbers
<1>3. ASSUME NEW n \in Numbers(b) PROVE n \in Numbers(a \o b)
  <2>1. PICK i \in Starts(b) : n = b[i].msg.num
    BY <1>3 DEF Numbers
  <2>2. Len(a) + i \in Starts(a \o b) /\ (a \o b)[Len(a) + i] = b[i]
    BY StartsConcat
  <2>3. QED
    BY <2>1, <2>2 DEF Numbers
<1>4. QED
  BY <1>1, <1>2, <1>3

\* each of them once when the parts have none in common,
LEMMA OnceConcat ==
    ASSUME NEW a \in Seq(Cell), NEW b \in Seq(Cell), Once(a), Once(b),
           Numbers(a) \cap Numbers(b) = {}
    PROVE  Once(a \o b)
<1> DEFINE s == a \o b
<1>1. /\ \A k \in Starts(s) : \/ k \in Starts(a) /\ s[k] = a[k]
                              \/ \E i \in Starts(b) : k = Len(a) + i /\ s[k] = b[i]
  BY StartsConcat
<1>2. \A i \in Starts(a), j \in Starts(b) : a[i].msg.num # b[j].msg.num
  BY DEF Numbers
<1> HIDE DEF s
<1>3. SUFFICES ASSUME NEW k \in Starts(s), NEW l \in Starts(s),
                      s[k].msg.num = s[l].msg.num
               PROVE  k = l
  BY DEF Once, s
<1>4. CASE k \in Starts(a) /\ s[k] = a[k]
  BY <1>1, <1>2, <1>3, <1>4 DEF Once
<1>5. ASSUME NEW i \in Starts(b), k = Len(a) + i, s[k] = b[i] PROVE k = l
  <2>1. ~(l \in Starts(a) /\ s[l] = a[l])
    BY <1>2, <1>3, <1>5
  <2>2. PICK j \in Starts(b) : l = Len(a) + j /\ s[l] = b[j]
    BY <1>1, <2>1
  <2>3. i = j
    BY <1>3, <1>5, <2>2 DEF Once
  <2>4. QED
    BY <1>5, <2>2, <2>3
<1>6. QED
  BY <1>1, <1>4, <1>5

\* and in order when they are in each part and across the parts.
LEMMA OrderedConcat ==
    ASSUME NEW a \in Seq(Cell), NEW b \in Seq(Cell), NEW first \in Nat,
           Ordered(a, first), Ordered(b, 0),
           \A i \in Starts(a), j \in Starts(b) :
                first < i /\ a[i].msg.thread = b[j].msg.thread => a[i].msg.num < b[j].msg.num
    PROVE  Ordered(a \o b, first)
<1> DEFINE s == a \o b
<1>1. /\ \A k \in Starts(s) : \/ k \in Starts(a) /\ s[k] = a[k]
                              \/ \E i \in Starts(b) : k = Len(a) + i /\ s[k] = b[i]
  BY StartsConcat
<1>2. Starts(a) \subseteq 1..Len(a) /\ Starts(b) \subseteq 1..Len(b)
  BY DEF Starts
<1>3. Len(a) \in Nat /\ Len(b) \in Nat
  BY LenProperties
<1> HIDE DEF s
<1>4. SUFFICES ASSUME NEW k \in Starts(s), NEW l \in Starts(s), first < k, k < l,
                      s[k].msg.thread = s[l].msg.thread
               PROVE  s[k].msg.num < s[l].msg.num
  BY DEF Ordered, s
<1>5. CASE k \in Starts(a) /\ s[k] = a[k]
  BY <1>1, <1>4, <1>5 DEF Ordered
<1>6. ASSUME NEW i \in Starts(b), k = Len(a) + i, s[k] = b[i]
      PROVE  s[k].msg.num < s[l].msg.num
  <2>1. l \notin Starts(a)
    BY <1>2, <1>3, <1>4, <1>6
  <2>2. PICK j \in Starts(b) : l = Len(a) + j /\ s[l] = b[j]
    BY <1>1, <2>1
  <2>3. i \in Nat /\ j \in Nat /\ 0 < i
    BY <1>2, <1>3
  <2>4. i < j
    BY <1>3, <1>4, <1>6, <2>2, <2>3
  <2>5. QED
    BY <1>4, <1>6, <2>2, <2>3, <2>4 DEF Ordered
<1>7. QED
  BY <1>1, <1>5, <1>6

\* Without bytes there is no message and no number,
LEMMA NoStarts == Starts(<<>>) = {} /\ Numbers(<<>>) = {} /\ Once(<<>>)
                  /\ \A first : Ordered(<<>>, first)
BY DEF Starts, Numbers, Once, Ordered

\* and in the bytes of one message it is the only one.
LEMMA StartsBytes ==
    ASSUME NEW m \in Message
    PROVE  /\ Starts(Bytes(m)) = {1} /\ Bytes(m)[1] = [msg |-> m, at |-> 1]
           /\ Numbers(Bytes(m)) = {m.num} /\ Once(Bytes(m)) /\ Ordered(Bytes(m), 0)
           /\ Bytes(m) # <<>>
<1> DEFINE s == Bytes(m)  n == SizeOf[m.code]
<1>1. n \in 1..BUFFER_SIZE /\ Len(s) = n /\ s \in Seq(Cell)
  BY BytesLemma
<1>2. n \in Nat /\ n >= 1
  BY <1>1, SizeAssumption
<1>3. \A i \in 1..n : s[i] = [msg |-> m, at |-> i]
  BY DEF Bytes
<1> HIDE DEF s, n
<1>4. Starts(s) = {1} /\ s[1] = [msg |-> m, at |-> 1]
  BY <1>1, <1>2, <1>3 DEF Starts
<1>5. Numbers(s) = {m.num}
  BY <1>4 DEF Numbers
<1>6. Once(s) /\ Ordered(s, 0)
  BY <1>4 DEF Once, Ordered
<1>7. s # <<>>
  BY <1>1, <1>2
<1>8. QED
  BY <1>4, <1>5, <1>6, <1>7 DEF s

\* Every one of the numbers 1..g is in one place, once: among the bytes accepted,
\* the bytes kept, or the bytes some thread is sending.
NumberFacts(accepted, kept, sending, g) ==
    /\ Once(accepted) /\ Once(kept) /\ Numbers(accepted) \cap Numbers(kept) = {}
    /\ \A t \in Thread :
        /\ Once(sending[t])
        /\ Numbers(sending[t]) \cap Numbers(accepted) = {}
        /\ Numbers(sending[t]) \cap Numbers(kept) = {}
        /\ \A u \in Thread \ {t} : Numbers(sending[t]) \cap Numbers(sending[u]) = {}
    /\ Numbers(accepted) \cup Numbers(kept) \cup UNION {Numbers(sending[t]) : t \in Thread} = 1..g

\* Each thread sends its own messages, in order, behind those it sent before;
\* preinit says that the kept ones are still to come before those of Main.
OrderFacts(accepted, kept, sending, preinit) ==
    /\ Ordered(accepted, 1) /\ Ordered(kept, 0)
    /\ \A i \in Starts(kept) : kept[i].msg.thread = Main
    /\ \A t \in Thread :
        /\ Ordered(sending[t], 0)
        /\ \A j \in Starts(sending[t]) :
            /\ sending[t][j].msg.thread = t
            /\ \A i \in Starts(accepted) :
                1 < i /\ accepted[i].msg.thread = t
                    => accepted[i].msg.num < sending[t][j].msg.num
    /\ preinit => \A i \in Starts(kept), j \in Starts(sending[Main]) :
                    kept[i].msg.num < sending[Main][j].msg.num

\* A number that is given joins those in place,
LEMMA NewNumber ==
    ASSUME NEW sn \in Seq(Cell), NEW kp \in Seq(Cell), NEW sd \in [Thread -> Seq(Cell)],
           NEW g \in Nat, NumberFacts(sn, kp, sd, g),
           NEW t \in Thread, sd[t] = <<>>, NEW m \in Message, m.num = g + 1
    PROVE  NumberFacts(sn, kp, [sd EXCEPT ![t] = Bytes(m)], g + 1)
<1> DEFINE new == [sd EXCEPT ![t] = Bytes(m)]
<1>1. Numbers(Bytes(m)) = {g + 1} /\ Once(Bytes(m))
  BY StartsBytes
<1>2. \A u \in Thread : new[u] = IF u = t THEN Bytes(m) ELSE sd[u]
  OBVIOUS
<1>3. Numbers(sd[t]) = {}
  BY NoStarts
<1>4. g + 1 \notin 1..g /\ 1..(g + 1) = 1..g \cup {g + 1}
  OBVIOUS
<1> HIDE DEF new
<1>5. \A u \in Thread : Numbers(new[u]) = IF u = t THEN {g + 1} ELSE Numbers(sd[u])
  BY <1>1, <1>2
<1>6. /\ g + 1 \notin Numbers(sn) /\ g + 1 \notin Numbers(kp)
      /\ \A u \in Thread : g + 1 \notin Numbers(sd[u])
  BY <1>4 DEF NumberFacts
<1>7. \A u \in Thread : Once(new[u])
  BY <1>1, <1>2 DEF NumberFacts
<1>8. UNION {Numbers(new[u]) : u \in Thread} = {g + 1} \cup UNION {Numbers(sd[u]) : u \in Thread}
  BY <1>3, <1>5
<1>9. Numbers(sn) \cup Numbers(kp) \cup UNION {Numbers(new[u]) : u \in Thread} = 1..(g + 1)
  BY <1>4, <1>8 DEF NumberFacts
<1>10. \A u \in Thread : /\ Numbers(new[u]) \cap Numbers(sn) = {}
                         /\ Numbers(new[u]) \cap Numbers(kp) = {}
  BY <1>5, <1>6 DEF NumberFacts
<1>11. ASSUME NEW u \in Thread, NEW v \in Thread \ {u}
       PROVE  Numbers(new[u]) \cap Numbers(new[v]) = {}
  <2>1. Numbers(sd[u]) \cap Numbers(sd[v]) = {}
    BY DEF NumberFacts
  <2>2. CASE u = t
    BY <1>5, <1>6, <2>2
  <2>3. CASE v = t
    BY <1>5, <1>6, <2>3
  <2>4. CASE u # t /\ v # t
    BY <1>5, <2>1, <2>4
  <2>5. QED
    BY <2>2, <2>3, <2>4
<1>12. QED
  BY <1>7, <1>9, <1>10, <1>11 DEF NumberFacts, new

\* what a thread was sending joins what is accepted,
LEMMA AcceptNumbers ==
    ASSUME NEW sn \in Seq(Cell), NEW kp \in Seq(Cell), NEW sd \in [Thread -> Seq(Cell)],
           NEW g \in Nat, NumberFacts(sn, kp, sd, g), NEW t \in Thread
    PROVE  NumberFacts(sn \o sd[t], kp, [sd EXCEPT ![t] = <<>>], g)
<1> DEFINE new == [sd EXCEPT ![t] = <<>>]  s == sn \o sd[t]
<1>1. Numbers(s) = Numbers(sn) \cup Numbers(sd[t]) /\ Once(s)
  BY NumbersConcat, OnceConcat DEF NumberFacts
<1>2. \A u \in Thread : new[u] = IF u = t THEN <<>> ELSE sd[u]
  OBVIOUS
<1> HIDE DEF new, s
<1>3. \A u \in Thread : Numbers(new[u]) = IF u = t THEN {} ELSE Numbers(sd[u])
  BY <1>2, NoStarts
<1>4. \A u \in Thread : Once(new[u])
  BY <1>2, NoStarts DEF NumberFacts
<1>5. Numbers(sd[t]) \cup UNION {Numbers(new[u]) : u \in Thread} = UNION {Numbers(sd[u]) : u \in Thread}
  BY <1>3
<1>6. Numbers(s) \cup Numbers(kp) \cup UNION {Numbers(new[u]) : u \in Thread} = 1..g
  BY <1>1, <1>5 DEF NumberFacts
<1>7. Numbers(s) \cap Numbers(kp) = {}
  BY <1>1 DEF NumberFacts
<1>8. \A u \in Thread : /\ Numbers(new[u]) \cap Numbers(s) = {}
                        /\ Numbers(new[u]) \cap Numbers(kp) = {}
  BY <1>1, <1>3 DEF NumberFacts
<1>9. \A u \in Thread : \A v \in Thread \ {u} : Numbers(new[u]) \cap Numbers(new[v]) = {}
  BY <1>3 DEF NumberFacts
<1>10. Once(kp)
  BY DEF NumberFacts
<1>11. QED
  BY <1>1, <1>4, <1>6, <1>7, <1>8, <1>9, <1>10 DEF NumberFacts, new, s

\* or what is kept,
LEMMA KeepNumbers ==
    ASSUME NEW sn \in Seq(Cell), NEW kp \in Seq(Cell), NEW sd \in [Thread -> Seq(Cell)],
           NEW g \in Nat, NumberFacts(sn, kp, sd, g), NEW t \in Thread
    PROVE  NumberFacts(sn, kp \o sd[t], [sd EXCEPT ![t] = <<>>], g)
<1> DEFINE new == [sd EXCEPT ![t] = <<>>]
<1>1. NumberFacts(kp, sn, sd, g)
  BY DEF NumberFacts
<1>2. NumberFacts(kp \o sd[t], sn, new, g)
  BY <1>1, AcceptNumbers
<1> HIDE DEF new
<1>3. NumberFacts(sn, kp \o sd[t], new, g)
  BY <1>2 DEF NumberFacts
<1>4. QED
  BY <1>3 DEF new

\* and what is kept is given to a thread that sends nothing else.
LEMMA ReleaseNumbers ==
    ASSUME NEW sn \in Seq(Cell), NEW kp \in Seq(Cell), NEW sd \in [Thread -> Seq(Cell)],
           NEW g \in Nat, NumberFacts(sn, kp, sd, g), NEW t \in Thread, sd[t] = <<>>
    PROVE  NumberFacts(sn, <<>>, [sd EXCEPT ![t] = kp], g)
<1> DEFINE new == [sd EXCEPT ![t] = kp]
<1>1. \A u \in Thread : new[u] = IF u = t THEN kp ELSE sd[u]
  OBVIOUS
<1> HIDE DEF new
<1>2. \A u \in Thread : Numbers(new[u]) = IF u = t THEN Numbers(kp) ELSE Numbers(sd[u])
  BY <1>1
<1>3. \A u \in Thread : Once(new[u])
  BY <1>1 DEF NumberFacts
<1>4. Numbers(<<>>) = {} /\ Once(<<>>) /\ Numbers(sd[t]) = {}
  BY NoStarts
<1>5. UNION {Numbers(new[u]) : u \in Thread} = Numbers(kp) \cup UNION {Numbers(sd[u]) : u \in Thread}
  BY <1>2, <1>4
<1>6. Numbers(sn) \cup Numbers(<<>>) \cup UNION {Numbers(new[u]) : u \in Thread} = 1..g
  BY <1>4, <1>5 DEF NumberFacts
<1>7. \A u \in Thread : /\ Numbers(new[u]) \cap Numbers(sn) = {}
                        /\ Numbers(new[u]) \cap Numbers(<<>>) = {}
  BY <1>2, <1>4 DEF NumberFacts
<1>8. \A u \in Thread : \A v \in Thread \ {u} : Numbers(new[u]) \cap Numbers(new[v]) = {}
  BY <1>2 DEF NumberFacts
<1>9. Once(sn) /\ Numbers(sn) \cap Numbers(<<>>) = {}
  BY <1>4 DEF NumberFacts
<1>10. QED
  BY <1>3, <1>4, <1>6, <1>7, <1>8, <1>9 DEF NumberFacts, new

\* A new message has the greatest number, so it is in order,
LEMMA NewOrder ==
    ASSUME NEW sn \in Seq(Cell), NEW kp \in Seq(Cell), NEW sd \in [Thread -> Seq(Cell)],
           NEW g \in Nat, NEW pre \in BOOLEAN, NumberFacts(sn, kp, sd, g), OrderFacts(sn, kp, sd, pre),
           NEW t \in Thread, sd[t] = <<>>, NEW m \in Message, m.num = g + 1, m.thread = t
    PROVE  OrderFacts(sn, kp, [sd EXCEPT ![t] = Bytes(m)], pre)
<1> DEFINE new == [sd EXCEPT ![t] = Bytes(m)]
<1>1. /\ Starts(Bytes(m)) = {1} /\ Bytes(m)[1] = [msg |-> m, at |-> 1]
      /\ Ordered(Bytes(m), 0)
  BY StartsBytes
<1>2. \A u \in Thread : new[u] = IF u = t THEN Bytes(m) ELSE sd[u]
  OBVIOUS
<1>3. /\ \A i \in Starts(sn) : sn[i].msg.num \in 1..g
      /\ \A i \in Starts(kp) : kp[i].msg.num \in 1..g
  BY DEF NumberFacts, Numbers
<1> HIDE DEF new
<1>4. ASSUME NEW u \in Thread
      PROVE  /\ Ordered(new[u], 0)
             /\ \A j \in Starts(new[u]) :
                  /\ new[u][j].msg.thread = u
                  /\ \A i \in Starts(sn) : 1 < i /\ sn[i].msg.thread = u
                                            => sn[i].msg.num < new[u][j].msg.num
  <2>1. CASE u = t
    BY <1>1, <1>2, <1>3, <2>1
  <2>2. CASE u # t
    BY <1>2, <2>2 DEF OrderFacts
  <2>3. QED
    BY <2>1, <2>2
<1>5. ASSUME pre, NEW i \in Starts(kp), NEW j \in Starts(new[Main])
      PROVE  kp[i].msg.num < new[Main][j].msg.num
  <2>1. CASE Main = t
    BY <1>1, <1>2, <1>3, <2>1
  <2>2. CASE Main # t
    BY <1>2, <1>5, <2>2, ThreadAssumption DEF OrderFacts
  <2>3. QED
    BY <2>1, <2>2
<1>6. Ordered(sn, 1) /\ Ordered(kp, 0) /\ \A i \in Starts(kp) : kp[i].msg.thread = Main
  BY DEF OrderFacts
<1>7. QED
  BY <1>4, <1>5, <1>6 DEF OrderFacts, new

\* what a thread was sending comes behind its earlier messages,
LEMMA AcceptOrder ==
    ASSUME NEW sn \in Seq(Cell), NEW kp \in Seq(Cell), NEW sd \in [Thread -> Seq(Cell)],
           NEW pre \in BOOLEAN, OrderFacts(sn, kp, sd, pre), NEW t \in Thread
    PROVE  OrderFacts(sn \o sd[t], kp, [sd EXCEPT ![t] = <<>>], pre)
<1> DEFINE new == [sd EXCEPT ![t] = <<>>]  s == sn \o sd[t]
<1>1. Ordered(s, 1)
  <2>1. Ordered(sn, 1) /\ Ordered(sd[t], 0)
    BY DEF OrderFacts
  <2>2. \A i \in Starts(sn), j \in Starts(sd[t]) :
           1 < i /\ sn[i].msg.thread = sd[t][j].msg.thread => sn[i].msg.num < sd[t][j].msg.num
    BY DEF OrderFacts
  <2>3. QED
    BY <2>1, <2>2, OrderedConcat
<1>2. \A k \in Starts(s) : \/ k \in Starts(sn) /\ s[k] = sn[k]
                           \/ \E i \in Starts(sd[t]) : k = Len(sn) + i /\ s[k] = sd[t][i]
  <2>1. \A a, b \in Seq(Cell) : \A k \in Starts(a \o b) :
          \/ k \in Starts(a) /\ (a \o b)[k] = a[k]
          \/ \E i \in Starts(b) : k = Len(a) + i /\ (a \o b)[k] = b[i]
    BY StartsConcat
  <2>2. sd[t] \in Seq(Cell)
    OBVIOUS
  <2>3. QED
    BY <2>1, <2>2
<1>3. \A u \in Thread : new[u] = IF u = t THEN <<>> ELSE sd[u]
  OBVIOUS
<1> HIDE DEF new, s
<1>4. \A j : j \notin Starts(new[t])
  BY <1>3, NoStarts
<1>5. ASSUME NEW u \in Thread
      PROVE  /\ Ordered(new[u], 0)
             /\ \A j \in Starts(new[u]) :
                  /\ new[u][j].msg.thread = u
                  /\ \A i \in Starts(s) : 1 < i /\ s[i].msg.thread = u
                                            => s[i].msg.num < new[u][j].msg.num
  <2>1. CASE u = t
    BY <1>3, <1>4, <2>1, NoStarts
  <2>2. CASE u # t
    <3>1. new[u] = sd[u] /\ \A i \in Starts(sd[t]) : sd[t][i].msg.thread # u
      BY <1>3, <2>2 DEF OrderFacts
    <3>2. QED
      BY <1>2, <3>1 DEF OrderFacts
  <2>3. QED
    BY <2>1, <2>2
<1>6. pre => \A i \in Starts(kp), j \in Starts(new[Main]) : kp[i].msg.num < new[Main][j].msg.num
  BY <1>3, <1>4, ThreadAssumption DEF OrderFacts
<1>7. Ordered(kp, 0) /\ \A i \in Starts(kp) : kp[i].msg.thread = Main
  BY DEF OrderFacts
<1>8. QED
  BY <1>1, <1>5, <1>6, <1>7 DEF OrderFacts, new, s

\* what Main keeps comes behind what it kept before,
LEMMA KeepOrder ==
    ASSUME NEW sn \in Seq(Cell), NEW kp \in Seq(Cell), NEW sd \in [Thread -> Seq(Cell)],
           OrderFacts(sn, kp, sd, TRUE)
    PROVE  OrderFacts(sn, kp \o sd[Main], [sd EXCEPT ![Main] = <<>>], TRUE)
<1> USE ThreadAssumption
<1> DEFINE new == [sd EXCEPT ![Main] = <<>>]  s == kp \o sd[Main]
<1>1. Ordered(s, 0)
  <2>1. Ordered(kp, 0) /\ Ordered(sd[Main], 0)
    BY DEF OrderFacts
  <2>2. \A i \in Starts(kp), j \in Starts(sd[Main]) : kp[i].msg.num < sd[Main][j].msg.num
    BY DEF OrderFacts
  <2>3. QED
    BY <2>1, <2>2, OrderedConcat
<1>2. \A k \in Starts(s) : \/ k \in Starts(kp) /\ s[k] = kp[k]
                           \/ \E i \in Starts(sd[Main]) : k = Len(kp) + i /\ s[k] = sd[Main][i]
  <2>1. \A a, b \in Seq(Cell) : \A k \in Starts(a \o b) :
          \/ k \in Starts(a) /\ (a \o b)[k] = a[k]
          \/ \E i \in Starts(b) : k = Len(a) + i /\ (a \o b)[k] = b[i]
    BY StartsConcat
  <2>2. sd[Main] \in Seq(Cell)
    OBVIOUS
  <2>3. QED
    BY <2>1, <2>2
<1>3. \A u \in Thread : new[u] = IF u = Main THEN <<>> ELSE sd[u]
  OBVIOUS
<1> HIDE DEF new, s
<1>4. Starts(new[Main]) = {} /\ Ordered(new[Main], 0)
  BY <1>3, NoStarts
<1>5. \A i \in Starts(s) : s[i].msg.thread = Main
  BY <1>2 DEF OrderFacts
<1>6. \A u \in Thread :
          /\ Ordered(new[u], 0)
          /\ \A j \in Starts(new[u]) :
               /\ new[u][j].msg.thread = u
               /\ \A i \in Starts(sn) : 1 < i /\ sn[i].msg.thread = u
                                         => sn[i].msg.num < new[u][j].msg.num
  BY <1>3, <1>4 DEF OrderFacts
<1>7. Ordered(sn, 1)
  BY DEF OrderFacts
<1>8. QED
  BY <1>1, <1>4, <1>5, <1>6, <1>7 DEF OrderFacts, new, s

\* and what was kept is sent by Main behind the App message.
LEMMA ReleaseOrder ==
    ASSUME NEW sn \in Seq(Cell), NEW kp \in Seq(Cell), NEW sd \in [Thread -> Seq(Cell)],
           NEW pre \in BOOLEAN, OrderFacts(sn, kp, sd, pre), Starts(sn) = {1}
    PROVE  OrderFacts(sn, <<>>, [sd EXCEPT ![Main] = kp], FALSE)
<1> USE ThreadAssumption
<1> DEFINE new == [sd EXCEPT ![Main] = kp]
<1>1. \A u \in Thread : new[u] = IF u = Main THEN kp ELSE sd[u]
  OBVIOUS
<1> HIDE DEF new
<1>2. \A u \in Thread :
          /\ Ordered(new[u], 0)
          /\ \A j \in Starts(new[u]) :
               /\ new[u][j].msg.thread = u
               /\ \A i \in Starts(sn) : 1 < i /\ sn[i].msg.thread = u
                                         => sn[i].msg.num < new[u][j].msg.num
  <2>1. \A i \in Starts(sn) : ~(1 < i)
    OBVIOUS
  <2>2. Ordered(new[Main], 0) /\ \A j \in Starts(new[Main]) : new[Main][j].msg.thread = Main
    BY <1>1 DEF OrderFacts
  <2>3. \A u \in Thread \ {Main} : /\ Ordered(new[u], 0)
                                    /\ \A j \in Starts(new[u]) : new[u][j].msg.thread = u
    BY <1>1 DEF OrderFacts
  <2>4. QED
    BY <2>1, <2>2, <2>3
<1>3. Ordered(sn, 1)
  BY DEF OrderFacts
<1>4. Ordered(<<>>, 0) /\ Starts(<<>>) = {}
  BY NoStarts
<1>5. QED
  BY <1>2, <1>3, <1>4 DEF OrderFacts, new

\* the bytes kept for the moment the pipe is open, until they are sent
Kept == IF initStep \in {"preinit", "app"} THEN KeptBytes ELSE <<>>

\* the bytes each thread is sending
Sending == [t \in Thread |-> IF pc[t] = "idle" THEN <<>> ELSE out[t]]

\* start-up is Main's alone, the pipe is open from "app" on, and only with an
\* open pipe does anybody get past servercomm_send_safe
StartUp ==
    /\ initStep = "preinit" => ~g_socket
    /\ initStep \in {"app", "flush"} => g_socket
    /\ initStep # "done" => \A t \in Thread \ {Main} : pc[t] = "idle"
    /\ ~g_socket => \A t \in Thread : pc[t] \in {"idle", "send_safe"}

\* with no pipe at all nothing is accepted, and the numbers are not followed
Tracked ==
    g_socket \/ initStep = "preinit" =>
        /\ NumberFacts(sent, Kept, Sending, g_iMsgNum)
        /\ OrderFacts(sent, Kept, Sending, initStep = "preinit")

\* the App message comes first, and alone
AppFirst ==
    /\ ~g_socket => sent = <<>>
    /\ sent # <<>> => sent[1].msg.code = App
    /\ initStep = "app" /\ pc[Main] # "idle" =>
        /\ sent = <<>> /\ out[Main] # <<>> /\ out[Main][1].msg.code = App
        /\ Starts(out[Main]) = {1}
    /\ initStep = "app" /\ pc[Main] = "idle" => sent # <<>> /\ Starts(sent) = {1}
    /\ initStep = "flush" /\ pc[Main] # "idle" => sent # <<>> /\ Starts(sent) = {1}
    /\ initStep \in {"flush", "done"} /\ g_socket => sent # <<>>

\* the inductive invariant of EveryNumberOnce and ThreadOrder
SequenceInv == BufferInv /\ StartUp /\ Tracked /\ AppFirst

\* Start-up comes first in every step.
LEMMA StartUpStep ==
    ASSUME TypeOK, StartUp, [Next]_vars
    PROVE  StartUp'
<1> USE ThreadAssumption DEF StartUp
<1>1. ASSUME NEW t \in Thread, servercomm_msg_init(t) PROVE StartUp'
  BY <1>1 DEF servercomm_msg_init, NumberMsg, MaySend, TypeOK, phaseVars
<1>2. ASSUME NEW t \in Thread, servercomm_send(t) PROVE StartUp'
  BY SMTT(30), <1>2 DEF servercomm_send, SendSafe, SendPreInit, Lock, Flush, Copy, Direct, TypeOK, phaseVars
<1>3. ASSUME servercomm_init PROVE StartUp'
  BY <1>3 DEF servercomm_init, Open, OpenFails, SendPreInitBuffer, EnableBuffer, NumberMsg, TypeOK
<1>4. ASSUME servercomm_dispose PROVE StartUp'
  BY <1>4 DEF servercomm_dispose, DisposeSize, DisposeWrite, DisposeDisable
<1>5. CASE UNCHANGED vars
  BY <1>5 DEF vars, phaseVars
<1>6. QED
  BY <1>1, <1>2, <1>3, <1>4, <1>5 DEF Next

\* What is kept and what is sent are byte sequences.
LEMMA TrackedType ==
    ASSUME TypeOK
    PROVE  /\ sent \in Seq(Cell) /\ Kept \in Seq(Cell) /\ Sending \in [Thread -> Seq(Cell)]
           /\ g_iMsgNum \in Nat /\ (initStep = "preinit") \in BOOLEAN
<1>1. sent \in Seq(Cell) /\ g_iMsgNum \in Nat /\ out \in [Thread -> Seq(Cell)]
  BY DEF TypeOK
<1>2. Kept \in Seq(Cell)
  BY KeptType, NoBytes DEF Kept
<1>3. Sending \in [Thread -> Seq(Cell)]
  BY <1>1, NoBytes DEF Sending
<1>4. QED
  BY <1>1, <1>2, <1>3

\* A number is given by Main before the pipe is open, or with an open pipe.
LEMMA NumberMsgTracked ==
    ASSUME TypeOK, Tracked, NEW t \in Thread, NEW code \in Code \cup {App}, NumberMsg(t, code),
           UNCHANGED <<sent, Kept>>, g_socket' => g_socket \/ initStep = "preinit",
           initStep' = "preinit" => initStep = "preinit"
    PROVE  Tracked'
<1> DEFINE m == [thread |-> t, num |-> g_iMsgNum + 1, code |-> code]
           pre == initStep = "preinit"
           prf == initStep' = "preinit"
<1>1. /\ sent \in Seq(Cell) /\ Kept \in Seq(Cell) /\ Sending \in [Thread -> Seq(Cell)]
      /\ g_iMsgNum \in Nat /\ pre \in BOOLEAN
  BY TrackedType
<1>2. m \in Message /\ m.num = g_iMsgNum + 1 /\ m.thread = t
  BY <1>1 DEF Message
<1>3. /\ pc[t] = "idle" /\ pc' = [pc EXCEPT ![t] = "send_safe"]
      /\ out' = [out EXCEPT ![t] = Bytes(m)] /\ g_iMsgNum' = g_iMsgNum + 1
      /\ pc \in [Thread -> {"idle", "send_safe", "lock", "flush", "copy", "direct"}]
      /\ out \in [Thread -> Seq(Cell)]
  BY DEF NumberMsg, TypeOK
<1> HIDE DEF m
<1>4. Sending[t] = <<>>
  BY <1>3 DEF Sending
<1>5. Sending' = [Sending EXCEPT ![t] = Bytes(m)]
  BY <1>3 DEF Sending
<1>6. SUFFICES ASSUME g_socket' \/ prf
               PROVE  /\ NumberFacts(sent', Kept', Sending', g_iMsgNum')
                      /\ OrderFacts(sent', Kept', Sending', prf)
  BY DEF Tracked
<1>7. NumberFacts(sent, Kept, Sending, g_iMsgNum) /\ OrderFacts(sent, Kept, Sending, pre)
  BY <1>6 DEF Tracked
<1>8. NumberFacts(sent', Kept', Sending', g_iMsgNum')
  <2>1. NumberFacts(sent, Kept, [Sending EXCEPT ![t] = Bytes(m)], g_iMsgNum + 1)
    BY <1>1, <1>2, <1>4, <1>7, NewNumber
  <2>2. QED
    BY <1>3, <1>5, <2>1
<1>9. OrderFacts(sent', Kept', Sending', prf)
  <2>1. OrderFacts(sent, Kept, [Sending EXCEPT ![t] = Bytes(m)], pre)
    BY <1>1, <1>2, <1>4, <1>7, NewOrder
  <2>2. OrderFacts(sent', Kept', Sending', pre)
    BY <1>5, <2>1
  <2>3. prf => pre
    OBVIOUS
  <2> HIDE DEF pre, prf
  <2>4. QED
    BY <2>2, <2>3 DEF OrderFacts
<1>10. QED
  BY <1>8, <1>9

\* A thread that is done with what it sends leaves the others as they are.
LEMMA SendingDone ==
    ASSUME TypeOK, NEW t \in Thread, pc[t] # "idle", pc' = [pc EXCEPT ![t] = "idle"], UNCHANGED out
    PROVE  Sending[t] = out[t] /\ Sending' = [Sending EXCEPT ![t] = <<>>]
BY DEF Sending, TypeOK

\* A step that moves no message keeps the numbers in place.
LEMMA SilentTracked ==
    ASSUME Tracked, UNCHANGED <<sent, Kept, Sending, g_iMsgNum>>, g_socket' = g_socket,
           initStep' = "preinit" <=> initStep = "preinit"
    PROVE  Tracked'
<1> DEFINE pre == initStep = "preinit"  prf == initStep' = "preinit"
<1>1. SUFFICES ASSUME g_socket' \/ prf
               PROVE  /\ NumberFacts(sent', Kept', Sending', g_iMsgNum')
                      /\ OrderFacts(sent', Kept', Sending', prf)
  BY DEF Tracked
<1>2. NumberFacts(sent, Kept, Sending, g_iMsgNum) /\ OrderFacts(sent, Kept, Sending, pre)
  BY <1>1 DEF Tracked
<1>3. prf = pre
  OBVIOUS
<1> HIDE DEF pre, prf
<1>4. QED
  BY <1>2, <1>3

\* A message that is accepted moves from its thread to the end of the stream.
LEMMA AcceptTracked ==
    ASSUME TypeOK, Tracked, NEW t \in Thread, pc[t] # "idle", pc' = [pc EXCEPT ![t] = "idle"],
           sent' = sent \o out[t], UNCHANGED <<out, Kept, g_iMsgNum, g_socket, initStep>>
    PROVE  Tracked'
<1> DEFINE pre == initStep = "preinit"  prf == initStep' = "preinit"
<1>1. SUFFICES ASSUME g_socket' \/ prf
               PROVE  /\ NumberFacts(sent', Kept', Sending', g_iMsgNum')
                      /\ OrderFacts(sent', Kept', Sending', prf)
  BY DEF Tracked
<1>2. NumberFacts(sent, Kept, Sending, g_iMsgNum) /\ OrderFacts(sent, Kept, Sending, pre)
  BY <1>1 DEF Tracked
<1>3. prf = pre
  OBVIOUS
<1>4. Sending[t] = out[t] /\ Sending' = [Sending EXCEPT ![t] = <<>>]
  BY SendingDone
<1>5. /\ sent \in Seq(Cell) /\ Kept \in Seq(Cell) /\ Sending \in [Thread -> Seq(Cell)]
      /\ g_iMsgNum \in Nat /\ pre \in BOOLEAN
  BY TrackedType
<1> HIDE DEF pre, prf
<1>6. /\ NumberFacts(sent \o Sending[t], Kept, [Sending EXCEPT ![t] = <<>>], g_iMsgNum)
      /\ OrderFacts(sent \o Sending[t], Kept, [Sending EXCEPT ![t] = <<>>], pre)
  BY <1>2, <1>5, AcceptNumbers, AcceptOrder
<1>7. sent' = sent \o Sending[t] /\ Kept' = Kept /\ g_iMsgNum' = g_iMsgNum
  BY <1>4
<1>8. QED
  BY <1>3, <1>4, <1>6, <1>7

\* A message that is kept moves to the end of the bytes kept.
LEMMA SendPreInitTracked ==
    ASSUME TypeOK, StartUp, Tracked, NEW t \in Thread, SendPreInit(t)
    PROVE  Tracked'
<1>1. /\ ~g_socket' /\ initStep' = initStep /\ sent' = sent /\ g_iMsgNum' = g_iMsgNum
      /\ pc[t] # "idle" /\ pc' = [pc EXCEPT ![t] = "idle"] /\ UNCHANGED out
  BY DEF SendPreInit, phaseVars
<1>2. SUFFICES ASSUME initStep = "preinit"
               PROVE  /\ NumberFacts(sent', Kept', Sending', g_iMsgNum')
                      /\ OrderFacts(sent', Kept', Sending', TRUE)
  BY <1>1 DEF Tracked
<1>3. t = Main
  BY <1>1, <1>2 DEF StartUp
<1>4. NumberFacts(sent, Kept, Sending, g_iMsgNum) /\ OrderFacts(sent, Kept, Sending, TRUE)
  BY <1>2 DEF Tracked
<1>5. Sending[t] = out[t] /\ Sending' = [Sending EXCEPT ![t] = <<>>]
  BY <1>1, SendingDone
<1>6. Kept' = Kept \o Sending[t]
  BY <1>1, <1>2, <1>5, KeptStep DEF Kept
<1>7. /\ sent \in Seq(Cell) /\ Kept \in Seq(Cell) /\ Sending \in [Thread -> Seq(Cell)]
      /\ g_iMsgNum \in Nat
  BY TrackedType
<1>8. /\ NumberFacts(sent, Kept \o Sending[t], [Sending EXCEPT ![t] = <<>>], g_iMsgNum)
      /\ OrderFacts(sent, Kept \o Sending[t], [Sending EXCEPT ![t] = <<>>], TRUE)
  BY <1>3, <1>4, <1>7, KeepNumbers, KeepOrder
<1>9. QED
  BY <1>1, <1>5, <1>6, <1>8

\* What was kept is sent behind the App message.
LEMMA SendPreInitBufferTracked ==
    ASSUME TypeOK, StartUp, Tracked, AppFirst, SendPreInitBuffer
    PROVE  Tracked'
<1>1. /\ initStep = "app" /\ initStep' = "flush" /\ pc[Main] = "idle" /\ g_socket
      /\ out' = [out EXCEPT ![Main] = KeptBytes] /\ pc' = [pc EXCEPT ![Main] = "lock"]
      /\ UNCHANGED <<sent, g_iMsgNum>>
  BY DEF SendPreInitBuffer, KeptBytes, StartUp
<1>2. NumberFacts(sent, Kept, Sending, g_iMsgNum) /\ OrderFacts(sent, Kept, Sending, FALSE)
  BY <1>1 DEF Tracked
<1>3. Starts(sent) = {1}
  BY <1>1 DEF AppFirst
<1>4. Kept = KeptBytes /\ Kept' = <<>> /\ Sending[Main] = <<>>
  BY <1>1, ThreadAssumption DEF Kept, Sending
<1>5. Sending' = [Sending EXCEPT ![Main] = Kept]
  BY <1>1, <1>4, ThreadAssumption DEF Sending, TypeOK
<1>6. /\ sent \in Seq(Cell) /\ Kept \in Seq(Cell) /\ Sending \in [Thread -> Seq(Cell)]
      /\ g_iMsgNum \in Nat
  BY TrackedType
<1>7. /\ NumberFacts(sent, <<>>, [Sending EXCEPT ![Main] = Kept], g_iMsgNum)
      /\ OrderFacts(sent, <<>>, [Sending EXCEPT ![Main] = Kept], FALSE)
  BY <1>2, <1>3, <1>4, <1>6, ReleaseNumbers, ReleaseOrder, ThreadAssumption
<1>8. /\ NumberFacts(sent', Kept', Sending', g_iMsgNum')
      /\ OrderFacts(sent', Kept', Sending', FALSE)
  BY <1>1, <1>4, <1>5, <1>7
<1>9. initStep' # "preinit"
  BY <1>1
<1>10. QED
  BY <1>8, <1>9 DEF Tracked

\* Every step keeps every number in one place and the threads in order.
LEMMA TrackedStep ==
    ASSUME TypeOK, StartUp, Tracked, AppFirst, [Next]_vars
    PROVE  Tracked'
<1>1. ASSUME NEW t \in Thread, servercomm_msg_init(t) PROVE Tracked'
  <2>1. PICK code \in Code : NumberMsg(t, code)
    BY <1>1 DEF servercomm_msg_init
  <2>2. UNCHANGED <<sent, Kept, g_socket, initStep>>
    BY <1>1 DEF servercomm_msg_init, Kept, KeptBytes, preInitVars, phaseVars
  <2>3. QED
    BY <2>1, <2>2, NumberMsgTracked
<1>2. ASSUME NEW t \in Thread, SendSafe(t) \/ Lock(t) \/ Flush(t) PROVE Tracked'
  <2>1. UNCHANGED <<sent, Kept, g_iMsgNum, g_socket, initStep, out>>
    BY <1>2 DEF SendSafe, Lock, Flush, Kept, KeptBytes, preInitVars, phaseVars
  <2>2. \A u \in Thread : pc'[u] = "idle" <=> pc[u] = "idle"
    BY <1>2 DEF SendSafe, Lock, Flush, TypeOK
  <2>3. Sending' = Sending
    BY <2>1, <2>2 DEF Sending
  <2>4. QED
    BY <2>1, <2>3, SilentTracked
<1>3. ASSUME NEW t \in Thread, SendPreInit(t) PROVE Tracked'
  BY <1>3, SendPreInitTracked
<1>4. ASSUME NEW t \in Thread, Copy(t) \/ Direct(t) PROVE Tracked'
  <2>1. /\ UNCHANGED <<out, Kept, g_iMsgNum, g_socket, initStep>> /\ sent' = sent \o out[t]
        /\ pc[t] # "idle" /\ pc' = [pc EXCEPT ![t] = "idle"]
    BY <1>4 DEF Copy, Direct, Kept, KeptBytes, preInitVars, phaseVars
  <2>2. QED
    BY <2>1, AcceptTracked
<1>5. ASSUME Open PROVE Tracked'
  <2>1. NumberMsg(Main, App) /\ initStep = "preinit" /\ initStep' = "app" /\ UNCHANGED <<sent, Kept>>
    BY <1>5 DEF Open, Kept, KeptBytes, preInitVars
  <2>2. QED
    BY <2>1, NumberMsgTracked, ThreadAssumption
<1>6. ASSUME OpenFails PROVE Tracked'
  BY <1>6 DEF OpenFails, StartUp, Tracked
<1>7. ASSUME SendPreInitBuffer PROVE Tracked'
  BY <1>7, SendPreInitBufferTracked
<1>8. ASSUME EnableBuffer PROVE Tracked'
  <2>1. UNCHANGED <<sent, g_iMsgNum, g_socket, pc, out>> /\ initStep # "preinit" /\ initStep' = "done"
    BY <1>8 DEF EnableBuffer
  <2>2. Kept = <<>>
    BY <1>8, FirstBytesOfNone DEF EnableBuffer, Kept, KeptBytes
  <2>3. Kept' = <<>> /\ Sending' = Sending
    BY <2>1 DEF Kept, Sending
  <2>4. QED
    BY <2>1, <2>2, <2>3, SilentTracked
<1>9. ASSUME servercomm_dispose \/ UNCHANGED vars PROVE Tracked'
  <2>1. UNCHANGED <<sent, Kept, Sending, g_iMsgNum, g_socket, initStep>>
    BY <1>9 DEF servercomm_dispose, DisposeSize, DisposeWrite, DisposeDisable, vars, Kept,
       KeptBytes, Sending, preInitVars, phaseVars
  <2>2. QED
    BY <2>1, SilentTracked
<1>10. QED
  BY <1>1, <1>2, <1>3, <1>4, <1>5, <1>6, <1>7, <1>8, <1>9
     DEF Next, servercomm_send, servercomm_init

\* Every step keeps the App message first, and alone until what was kept follows.
LEMMA AppFirstStep ==
    ASSUME TypeOK, StartUp, AppFirst, [Next]_vars
    PROVE  AppFirst'
<1> USE ThreadAssumption
<1>s. ASSUME UNCHANGED <<sent, g_socket, initStep, out>>, pc'[Main] = "idle" <=> pc[Main] = "idle"
      PROVE  AppFirst'
  BY <1>s DEF AppFirst, Starts
<1>a. /\ sent \in Seq(Cell) /\ out \in [Thread -> Seq(Cell)]
      /\ pc \in [Thread -> {"idle", "send_safe", "lock", "flush", "copy", "direct"}]
      /\ initStep \in {"preinit", "app", "flush", "done"}
  BY DEF TypeOK
<1>1. ASSUME NEW t \in Thread, servercomm_msg_init(t) PROVE AppFirst'
  <2>1. PICK code \in Code : NumberMsg(t, code)
    BY <1>1 DEF servercomm_msg_init
  <2>2. UNCHANGED <<sent, g_socket, initStep>> /\ initStep \in {"preinit", "done"}
    BY <1>a, <1>1 DEF servercomm_msg_init, MaySend, phaseVars
  <2>3. initStep = "preinit" => ~g_socket
    BY DEF StartUp
  <2>4. QED
    BY <2>2, <2>3 DEF AppFirst, Starts
<1>2. ASSUME NEW t \in Thread, SendSafe(t) \/ Lock(t) \/ Flush(t) PROVE AppFirst'
  <2>1. UNCHANGED <<sent, g_socket, initStep, out>>
    BY <1>2 DEF SendSafe, Lock, Flush, phaseVars
  <2>2. pc'[Main] = "idle" <=> pc[Main] = "idle"
    BY <1>a, <1>2 DEF SendSafe, Lock, Flush
  <2>3. QED
    BY <1>s, <2>1, <2>2
<1>3. ASSUME NEW t \in Thread, SendPreInit(t) PROVE AppFirst'
  <2>1. UNCHANGED <<sent, g_socket, initStep, out>> /\ ~g_socket
    BY <1>3 DEF SendPreInit, phaseVars
  <2>2. initStep \notin {"app", "flush"}
    BY <2>1 DEF StartUp
  <2>3. QED
    BY <2>1, <2>2 DEF AppFirst
<1>4. ASSUME NEW t \in Thread, Copy(t) \/ Direct(t) PROVE AppFirst'
  <2>1. /\ UNCHANGED <<out, g_socket, initStep>> /\ sent' = sent \o out[t]
        /\ pc[t] \in {"copy", "direct"} /\ pc' = [pc EXCEPT ![t] = "idle"]
    BY <1>4 DEF Copy, Direct, phaseVars
  <2>2. g_socket
    BY <2>1 DEF StartUp
  <2>3. out[t] \in Seq(Cell) /\ pc'[t] = "idle"
    BY <1>a, <2>1
  <2>4. CASE initStep = "app"
    <3>1. t = Main /\ pc[Main] # "idle"
      BY <2>1, <2>4 DEF StartUp
    <3>2. /\ sent = <<>> /\ out[Main] # <<>> /\ out[Main][1].msg.code = App
          /\ Starts(out[Main]) = {1}
      BY <2>4, <3>1 DEF AppFirst
    <3>3. sent' = out[Main]
      BY <2>1, <2>3, <3>1, <3>2, ConcatEmptySeq
    <3>4. sent' # <<>> /\ Starts(sent') = {1} /\ sent'[1].msg.code = App
      BY <3>2, <3>3
    <3>5. QED
      BY <2>1, <2>2, <2>3, <2>4, <3>1, <3>4 DEF AppFirst, Starts
  <2>5. CASE initStep \in {"flush", "done"}
    <3>1. sent # <<>> /\ sent[1].msg.code = App
      BY <2>2, <2>5 DEF AppFirst
    <3>2. sent' # <<>> /\ sent'[1] = sent[1]
      <4>1. 1 \in 1..Len(sent)
        BY <1>a, <3>1
      <4>2. Len(sent') = Len(sent) + Len(out[t]) /\ sent'[1] = sent[1]
        BY <1>a, <2>1, <2>3, <4>1, ConcatProperties
      <4>3. Len(out[t]) \in Nat /\ Len(sent) \in Nat /\ Len(sent') # 0
        BY <1>a, <2>3, <4>1, <4>2, LenProperties
      <4>4. QED
        BY <4>2, <4>3
    <3>3. initStep = "flush" => t = Main
      BY <2>1 DEF StartUp
    <3>4. initStep' = "flush" => pc'[Main] = "idle"
      BY <2>1, <2>3, <3>3
    <3>5. QED
      BY <2>1, <2>2, <2>5, <3>1, <3>2, <3>4 DEF AppFirst, Starts
  <2>6. initStep # "preinit"
    BY <2>2 DEF StartUp
  <2>7. QED
    BY <1>a, <2>4, <2>5, <2>6
<1>5. ASSUME Open PROVE AppFirst'
  <2> DEFINE m == [thread |-> Main, num |-> g_iMsgNum + 1, code |-> App]
  <2>1. m \in Message /\ m.code = App
    BY DEF TypeOK, Message
  <2>2. /\ out' = [out EXCEPT ![Main] = Bytes(m)] /\ pc' = [pc EXCEPT ![Main] = "send_safe"]
        /\ initStep' = "app" /\ sent' = sent /\ initStep = "preinit"
    BY <1>5 DEF Open, NumberMsg
  <2> HIDE DEF m
  <2>3. sent = <<>> /\ out'[Main] = Bytes(m) /\ pc'[Main] = "send_safe"
    BY <1>a, <2>2 DEF StartUp, AppFirst
  <2>4. Starts(Bytes(m)) = {1} /\ Bytes(m)[1].msg = m /\ Bytes(m) # <<>>
    <3>1. /\ Starts(Bytes(m)) = {1} /\ Bytes(m)[1] = [msg |-> m, at |-> 1]
          /\ Bytes(m) # <<>>
      BY <2>1, StartsBytes
    <3>2. QED
      BY <3>1
  <2>5. Starts(out'[Main]) = {1} /\ out'[Main] # <<>> /\ out'[Main][1].msg.code = App
    BY <2>1, <2>3, <2>4
  <2>6. g_socket'
    BY <1>5 DEF Open
  <2>7. QED
    BY <2>2, <2>3, <2>5, <2>6 DEF AppFirst, Starts
<1>6. ASSUME OpenFails PROVE AppFirst'
  BY <1>6 DEF OpenFails, StartUp, AppFirst
<1>7. ASSUME SendPreInitBuffer PROVE AppFirst'
  BY <1>7 DEF SendPreInitBuffer, StartUp, AppFirst, Starts
<1>8. ASSUME EnableBuffer PROVE AppFirst'
  BY <1>8 DEF EnableBuffer, StartUp, AppFirst
<1>9. ASSUME servercomm_dispose \/ UNCHANGED vars PROVE AppFirst'
  <2>1. UNCHANGED <<sent, g_socket, initStep, out, pc>>
    BY <1>9 DEF servercomm_dispose, DisposeSize, DisposeWrite, DisposeDisable, vars, phaseVars
  <2>2. QED
    BY <1>s, <2>1
<1>10. QED
  BY <1>1, <1>2, <1>3, <1>4, <1>5, <1>6, <1>7, <1>8, <1>9
     DEF Next, servercomm_send, servercomm_init

\* At the start there is no message,
LEMMA SequenceInvInit == Init => SequenceInv
<1> SUFFICES ASSUME Init PROVE SequenceInv
  OBVIOUS
<1>1. sent = <<>> /\ Kept = <<>> /\ g_iMsgNum = 0 /\ initStep = "preinit" /\ ~g_socket
  BY FirstBytesOfNone DEF Init, Kept, KeptBytes
<1>2. \A t \in Thread : Sending[t] = <<>>
  BY DEF Init, Sending
<1>3. NumberFacts(<<>>, <<>>, Sending, 0)
  <2>1. \A t \in Thread : Numbers(Sending[t]) = {} /\ Once(Sending[t])
    BY <1>2, NoStarts
  <2>2. UNION {Numbers(Sending[t]) : t \in Thread} = {}
    BY <2>1
  <2>3. 1..0 = {}
    OBVIOUS
  <2>4. QED
    BY <2>1, <2>2, <2>3, NoStarts DEF NumberFacts
<1>4. OrderFacts(<<>>, <<>>, Sending, TRUE)
  BY <1>2, NoStarts DEF OrderFacts
<1>5. Tracked
  BY <1>1, <1>3, <1>4 DEF Tracked
<1>6. StartUp
  BY <1>1 DEF Init, StartUp
<1>7. AppFirst
  BY <1>1 DEF AppFirst
<1>8. QED
  BY <1>5, <1>6, <1>7, BufferInvInit DEF SequenceInv

\* and every step keeps the whole.
LEMMA SequenceInvStep == SequenceInv /\ [Next]_vars => SequenceInv'
BY BufferInvStep, StartUpStep, TrackedStep, AppFirstStep DEF SequenceInv, BufferInv

\* Whatever fails and whenever the program ends: once start-up is over and no
\* send is under way, every number servercomm_msg_header_init_v1 gave belongs to
\* exactly one accepted message, those given before the pipe was open included.
THEOREM NumbersOnce == Spec => []EveryNumberOnce
<1>1. SequenceInv => EveryNumberOnce
  <2> SUFFICES ASSUME SequenceInv, Quiet, g_socket, initStep = "done", NEW n \in 1..g_iMsgNum
               PROVE  \E i \in Starts(sent) :
                        /\ sent[i].msg.num = n
                        /\ \A j \in Starts(sent) \ {i} : sent[j].msg.num # n
    BY DEF EveryNumberOnce
  <2>1. NumberFacts(sent, Kept, Sending, g_iMsgNum)
    BY DEF SequenceInv, Tracked
  <2>2. Kept = <<>> /\ \A t \in Thread : Sending[t] = <<>>
    BY DEF Quiet, Kept, Sending
  <2>3. Numbers(Kept) = {} /\ \A t \in Thread : Numbers(Sending[t]) = {}
    BY <2>2, NoStarts
  <2>4. UNION {Numbers(Sending[t]) : t \in Thread} = {}
    BY <2>3
  <2>5. n \in Numbers(sent) /\ Once(sent)
    BY <2>1, <2>3, <2>4 DEF NumberFacts
  <2>6. QED
    BY <2>5 DEF Numbers, Once
<1>2. QED
  BY <1>1, SequenceInvInit, SequenceInvStep, PTL DEF Spec

\* Whatever fails and whenever the program ends: the App message opens the
\* stream, and behind it the messages of each thread keep the order of their
\* numbers.
THEOREM ThreadsInOrder == Spec => []ThreadOrder
<1>1. SequenceInv => ThreadOrder
  <2> SUFFICES ASSUME SequenceInv PROVE ThreadOrder
    OBVIOUS
  <2>1. sent # <<>> => sent[1].msg.code = App
    BY DEF SequenceInv, AppFirst
  <2>2. Ordered(sent, 1)
    <3>1. CASE g_socket
      BY <3>1 DEF SequenceInv, Tracked, OrderFacts
    <3>2. CASE ~g_socket
      BY <3>2, NoStarts DEF SequenceInv, AppFirst
    <3>3. QED
      BY <3>1, <3>2
  <2>3. QED
    BY <2>1, <2>2 DEF ThreadOrder, Ordered
<1>2. QED
  BY <1>1, SequenceInvInit, SequenceInvStep, PTL DEF Spec
=============================================================================

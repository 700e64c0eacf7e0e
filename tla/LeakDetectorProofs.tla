------------------------- MODULE LeakDetectorProofs -------------------------
(***************************************************************************)
(* What the window shows of the heap, for every number of threads,         *)
(* addresses and messages: the type of the model, the operations shown as  *)
(* not free, and the statistics.                                           *)
(***************************************************************************)
EXTENDS LeakDetector, FiniteSums, SequenceTheorems, TLAPS

-----------------------------------------------------------------------------
(* Types *)

\* a thread that was started is named
MsgRecord == [code : MsgCode, thread : Thread \cup {NULL}, num : Nat, time : Nat,
            ptr : Addr \cup {NULL}, size : Nat, free : Addr \cup {NULL},
            tid : Thread \cup {NULL}, origin : Nat, born : Nat \cup {NULL}]

MsgType == {m \in MsgRecord : m.born # NULL => m.tid # NULL}

OpType == [num : Nat, code : MemoryCode, thread : Thread \cup {NULL},
           ptr : Addr \cup {NULL}, size : Nat, free : Addr \cup {NULL},
           freed : BOOLEAN, bt : Nat \cup {NULL}]

ThreadName == {"main", "set", ""}

InfoType == [tid : Thread \cup {NULL}, name : ThreadName, creation : Nat, last : Nat,
             terminated : BOOLEAN, count : Nat, size : Nat, total : Nat, peak : Nat]

LibType ==
    /\ scenario \in Scenarios
    /\ heap \in [Addr -> Nat \cup {NULL}]
    /\ held \in SUBSET Addr
    /\ running \in SUBSET Thread
    /\ pc \in [Thread -> {"idle", "stamp", "send", "stamp_bt", "send_bt", "real_free"}]
    /\ msg \in [Thread -> MsgType]
    /\ g_iMsgNum \in Nat /\ now \in Nat /\ restarts \in Nat
    /\ stream \in Seq(MsgType)

ListType ==
    /\ m_listMemoryOperation \in Seq(OpType)
    /\ m_listMemoryOperationNonFreed \in SUBSET (1..Len(m_listMemoryOperation))
    /\ m_listMemoryOperationWithoutBacktrace \in SUBSET (1..Len(m_listMemoryOperation))

TableType == {T \in [infos : Seq(InfoType), listed : SUBSET Nat, alive : SUBSET Nat] :
                T.listed \subseteq 1..Len(T.infos) /\ T.alive \subseteq 1..Len(T.infos)}

UsageType == [first : Nat, last : Nat, sizes : UNION {[S -> Nat] : S \in SUBSET Nat}]

StatsType == [messages : Nat, start : Nat, last : Nat, ops : Nat,
              allocCount : Nat, allocSize : Nat, freeCount : Nat, freeSize : Nat,
              remainingCount : Int, remainingSize : Nat, peak : Nat,
              byCode : [MemoryCode -> Nat], usage : UsageType]

TypeInv == LibType /\ ListType /\ Table \in TableType /\ m_globalStats \in StatsType

-----------------------------------------------------------------------------
(* Messages *)

\* what a message allocates and frees goes with its code
Formed(m) ==
    /\ m.code \in AllocCode => m.ptr # NULL /\ m.free = NULL
    /\ m.code = "realloc" => m.ptr # NULL
    /\ m.code = "free" => m.ptr = NULL /\ m.free # NULL /\ m.size = 0
    /\ m.code \notin MemoryCode => m.ptr = NULL /\ m.free = NULL

BuiltFormed == \A t \in Thread : Formed(msg[t])
SentFormed == \A i \in 1..Len(stream) : Formed(stream[i])
ListFormed == \A i \in 1..Len(m_listMemoryOperation) : op(i).ptr = NULL <=> op(i).code = "free"

FormedInv == BuiltFormed /\ SentFormed /\ ListFormed

-----------------------------------------------------------------------------
(* Who may do what with a block *)

Claims(t) == {msg[t].ptr, msg[t].free} \ {NULL}

\* a thread that is in no wrapper builds no message; the last step is that of free
InWrapper ==
    \A t \in Thread : /\ pc[t] = "idle" => msg[t] = NoMsg
                      /\ pc[t] # "idle" => msg[t].code # "init"
                      /\ pc[t] = "real_free" => msg[t].code = "free"

\* a realloc is alone, and what it gave up is free or its own again
ReallocIsAlone ==
    \A t \in Thread : msg[t].code = "realloc" =>
        Alone(t) /\ (msg[t].free = NULL \/ msg[t].free = msg[t].ptr \/ heap[msg[t].free] = NULL)

\* a block is the program's, or in the hands of one wrapper
OneOwner ==
    /\ \A t \in Thread : Claims(t) \cap held = {}
    /\ \A t, u \in Thread : t # u => Claims(t) \cap Claims(u) = {}

\* blocks that are held, allocated or to be freed exist, with the size given
OwnedIsLive ==
    /\ held \subseteq Live
    /\ \A t \in Thread : msg[t].ptr # NULL => heap[msg[t].ptr] # NULL
    /\ \A t \in Thread : msg[t].code = "free" => heap[msg[t].free] # NULL
    /\ \A t \in Thread : "calloc_many" \notin Env /\ msg[t].ptr # NULL => heap[msg[t].ptr] = msg[t].size

Owned == InWrapper /\ ReallocIsAlone /\ OneOwner /\ OwnedIsLive

-----------------------------------------------------------------------------
(* What the server will know *)

\* an operation of the list ops is shown as not free, with the address a and size s
ShownIn(ops, a, s) ==
    \E i \in 1..Len(ops) : Colour(ops[i]) = "red" /\ ops[i].ptr = a /\ ops[i].size = s

\* no message from i to n makes the server give up the block at a
Untouched(str, a, i, n) == \A j \in i..n : str[j].code # "init" /\ str[j].free # a

\* with n messages of the stream str taken in, the server that shows the list ops
\* will show a block of the size s at a
Known(ops, str, n, a, s) ==
    \/ ShownIn(ops, a, s) /\ Untouched(str, a, 1, n)
    \/ \E i \in 1..n : str[i].ptr = a /\ str[i].size = s /\ Untouched(str, a, i + 1, n)

WillKnow(n, a, s) == Known(m_listMemoryOperation, stream, n, a, s)

\* the block at a is allocated and not yet reported; its free is reported and not yet
\* done; realloc gave it up and has not reported it
Unsent(a) == \E t \in Thread : pc[t] \in {"stamp", "send"} /\ msg[t].ptr = a
FreeSent(a) == \E t \in Thread : pc[t] \in {"stamp_bt", "send_bt", "real_free"}
                                 /\ msg[t].code = "free" /\ msg[t].free = a
GivenUp(a) == \E t \in Thread : pc[t] \in {"stamp", "send"}
                                /\ msg[t].code = "realloc" /\ msg[t].free = a

\* The n+1st message m of the stream frees a block the server knows by then, and
\* allocates one it does not know, or that m frees.
InOrder(m, n) ==
    m.code # "init" =>
        /\ m.free # NULL => \E s \in Nat : WillKnow(n, m.free, s)
        /\ m.ptr # NULL => \A s \in Nat : WillKnow(n, m.ptr, s) => m.ptr = m.free

ReportedInOrder == \A n \in 0..(Len(stream) - 1) : InOrder(stream[n + 1], n)

\* what the server knows when all that is sent is taken in
Expected(a) == (heap[a] # NULL /\ ~Unsent(a) /\ ~FreeSent(a)) \/ GivenUp(a)

EndIsHeap == \A a \in Addr : (\E s \in Nat : WillKnow(Len(stream), a, s)) <=> Expected(a)

EndSizes ==
    "calloc_many" \notin Env =>
        \A a \in Addr, s \in Nat : WillKnow(Len(stream), a, s) /\ ~GivenUp(a) => heap[a] = s

\* No address is shown twice, and what is shown can be freed.
ShownOnce ==
    /\ \A i, j \in Shown : op(i).ptr = op(j).ptr => i = j
    /\ Shown \subseteq m_listMemoryOperationNonFreed

ServerKnows == ReportedInOrder /\ EndIsHeap /\ EndSizes /\ ShownOnce

ReportInv == Misreported = {} => Owned /\ ServerKnows

-----------------------------------------------------------------------------
(* Types are kept *)

\* A set of places in a list is a finite set of integers.
LEMMA FiniteIds ==
    ASSUME NEW n \in Nat, NEW ids, ids \subseteq 1..n
    PROVE  IsFiniteSet(ids) /\ ids \subseteq Int
<1>1. IsFiniteSet(1..n)
  BY FS_Interval
<1>2. IsFiniteSet(ids)
  BY <1>1, FS_Subset
<1>3. QED
  BY <1>2

\* FirstOf finds an element when there is one.
LEMMA FirstOfIsIn ==
    ASSUME NEW n \in Nat, NEW ids, ids \subseteq 1..n
    PROVE  /\ FirstOf(ids) = NULL <=> ids = {}
           /\ ids # {} => FirstOf(ids) \in ids
<1>1. IsFiniteSet(ids) /\ ids \subseteq Int
  BY FiniteIds
<1>2. ids # {} => Min(ids) \in ids
  BY ONLY <1>1, MinOfFinite
<1>3. NULL \notin ids
  BY <1>1, CodeAssumption
<1>4. QED
  BY <1>2, <1>3 DEF FirstOf

\* ThreadInfosList::getById answers an entry of that thread, or there is
\* none.
LEMMA GetByIdIsIn ==
    ASSUME NEW n \in Nat, NEW T, NEW ids, ids \subseteq 1..n, NEW tid
    PROVE  LET e == getById(T, ids, tid) IN
           /\ e # NULL => e \in ids /\ e \in 1..n /\ T.infos[e].tid = tid
           /\ e = NULL => \A f \in ids : T.infos[f].tid # tid
<1> DEFINE S == {e \in ids : T.infos[e].tid = tid}
<1>1. S \subseteq 1..n
  OBVIOUS
<1>2. getById(T, ids, tid) = FirstOf(S)
  BY DEF getById
<1>3. /\ FirstOf(S) = NULL <=> S = {}
      /\ S # {} => FirstOf(S) \in S
  <2> HIDE DEF S
  <2> QED
    BY <1>1, FirstOfIsIn
<1>4. QED
  BY <1>2, <1>3

\* ThreadInfosList::getByIdAndMsgNum answers an entry of that thread.
LEMMA GetByIdAndMsgNumIsIn ==
    ASSUME NEW n \in Nat, NEW T, NEW ids, ids \subseteq 1..n, NEW tid, NEW num
    PROVE  LET e == getByIdAndMsgNum(T, ids, tid, num) IN
           e # NULL => e \in ids /\ e \in 1..n /\ T.infos[e].tid = tid
<1> DEFINE S == {e \in ids : /\ T.infos[e].tid = tid
                             /\ T.infos[e].creation <= num
                             /\ num <= T.infos[e].last}
<1>1. S \subseteq 1..n
  OBVIOUS
<1>2. getByIdAndMsgNum(T, ids, tid, num) = FirstOf(S)
  BY DEF getByIdAndMsgNum
<1>3. /\ FirstOf(S) = NULL <=> S = {}
      /\ S # {} => FirstOf(S) \in S
  <2> HIDE DEF S
  <2> QED
    BY <1>1, FirstOfIsIn
<1>4. QED
  BY <1>2, <1>3

\* An entry of a table may be changed.
LEMMA PutEntry ==
    ASSUME NEW T \in TableType, NEW e \in 1..Len(T.infos), NEW info \in InfoType
    PROVE  /\ [T EXCEPT !.infos[e] = info] \in TableType
           /\ Len([T EXCEPT !.infos[e] = info].infos) = Len(T.infos)
<1> DEFINE U == [T EXCEPT !.infos[e] = info]
<1>1. T.infos \in Seq(InfoType) /\ T.listed \in SUBSET Nat /\ T.alive \in SUBSET Nat
  BY DEF TableType
<1>2. U.infos = [T.infos EXCEPT ![e] = info] /\ U.listed = T.listed /\ U.alive = T.alive
  BY DEF TableType
<1>3. [T.infos EXCEPT ![e] = info] \in Seq(InfoType) /\ Len([T.infos EXCEPT ![e] = info]) = Len(T.infos)
  BY <1>1, ExceptSeq
<1>4. U \in [infos : Seq(InfoType), listed : SUBSET Nat, alive : SUBSET Nat]
  BY <1>3 DEF TableType
<1>5. QED
  BY <1>2, <1>3, <1>4 DEF TableType

TidType == Thread \cup {NULL}

\* Each operation on the table keeps its type.
LEMMA AddEntryType ==
    ASSUME NEW T \in TableType, NEW tid \in TidType
    PROVE  /\ AddEntry(T, tid) \in TableType
           /\ getById(AddEntry(T, tid), AddEntry(T, tid).alive, tid) # NULL
<1> DEFINE e == Len(T.infos) + 1
           info == NewThreadInfos(tid, IF T.listed = {} THEN "main" ELSE "")
           U == AddEntry(T, tid)
<1>1. T.infos \in Seq(InfoType) /\ T.listed \subseteq 1..Len(T.infos) /\ T.alive \subseteq 1..Len(T.infos)
  BY DEF TableType
<1>2. info \in InfoType /\ info.tid = tid
  BY DEF NewThreadInfos, InfoType, TidType, ThreadName
<1>3. U.infos = Append(T.infos, info) /\ U.listed = T.listed \cup {e} /\ U.alive = T.alive \cup {e}
  BY DEF AddEntry
<1> HIDE DEF info
<1>4. /\ U.infos \in Seq(InfoType) /\ Len(U.infos) = e /\ U.infos[e] = info
  BY <1>1, <1>2, <1>3, AppendProperties
<1>5. Len(T.infos) \in Nat
  BY <1>1, LenProperties
<1>6. U.listed \subseteq 1..e /\ U.alive \subseteq 1..e
  BY <1>1, <1>3, <1>5
<1>7. U \in TableType
  <2>1. U = [infos |-> U.infos, listed |-> U.listed, alive |-> U.alive]
    BY DEF AddEntry
  <2>2. U.listed \in SUBSET Nat /\ U.alive \in SUBSET Nat
    BY <1>5, <1>6
  <2> HIDE DEF U
  <2>3. QED
    BY <1>4, <1>6, <2>1, <2>2 DEF TableType
<1>8. getById(U, U.alive, tid) # NULL
  <2>1. e \in U.alive /\ U.infos[e].tid = tid /\ e \in Nat
    BY <1>2, <1>3, <1>4, <1>5
  <2> HIDE DEF U, e
  <2>2. QED
    BY <1>6, <2>1, GetByIdIsIn
<1>9. QED
  BY <1>7, <1>8

\* Moving an entry to the recycled ones keeps a thread table.
LEMMA RetireType ==
    ASSUME NEW T \in TableType, NEW tid \in TidType, getById(T, T.alive, tid) # NULL
    PROVE  Retire(T, tid) \in TableType
<1> DEFINE e == getById(T, T.alive, tid)
           info == [T.infos[e] EXCEPT !.terminated = TRUE]
           U == [T EXCEPT !.infos[e] = info]
<1>1. T.infos \in Seq(InfoType) /\ T.alive \subseteq 1..Len(T.infos) /\ Len(T.infos) \in Nat
  BY LenProperties DEF TableType
<1>2. e \in 1..Len(T.infos)
  BY <1>1, GetByIdIsIn
<1>3. info \in InfoType
  <2>1. T.infos[e] \in InfoType
    BY <1>1, <1>2, ElementOfSeq
  <2>2. QED
    BY <2>1 DEF InfoType
<1>4. U \in TableType
  BY <1>2, <1>3, PutEntry
<1>5. removeById(T, T.alive, tid) \subseteq T.alive
  BY DEF removeById
<1>6. Retire(T, tid) = [U EXCEPT !.alive = removeById(T, T.alive, tid)]
  BY DEF Retire
<1> HIDE DEF U
<1>7. U.alive = T.alive
  BY DEF U, TableType
<1>8. QED
  BY <1>4, <1>5, <1>6, <1>7 DEF TableType

\* Looking up or creating the entry of a thread keeps a thread table and
\* leaves an entry.
LEMMA WithThreadInfosType ==
    ASSUME NEW T \in TableType, NEW tid \in TidType, NEW new \in BOOLEAN
    PROVE  LET U == withThreadInfos(T, tid, new)
               e == getById(U, U.alive, tid)
           IN  U \in TableType /\ e \in 1..Len(U.infos) /\ U.infos[e] \in InfoType
<1> DEFINE U == withThreadInfos(T, tid, new)
           e == getById(U, U.alive, tid)
<1>1. U \in TableType /\ e # NULL
  BY AddEntryType, RetireType DEF withThreadInfos
<1>2. U.infos \in Seq(InfoType) /\ U.alive \subseteq 1..Len(U.infos) /\ Len(U.infos) \in Nat
  BY <1>1, LenProperties DEF TableType
<1> HIDE DEF U
<1>3. e \in 1..Len(U.infos)
  BY <1>1, <1>2, GetByIdIsIn
<1>4. U.infos[e] \in InfoType
  BY <1>2, <1>3, ElementOfSeq
<1>5. QED
  BY <1>1, <1>3, <1>4 DEF U

\* the fields AddAlloc and AddFree compute are in their types
LEMMA WordIsNat ==
    /\ \A x \in Int : ToWord(x) \in Nat
    /\ \A x \in Int : (x % CountRange) \in Nat
BY RangeAssumption, CountAssumption DEF ToWord

\* Counting an allocation keeps a thread table.
LEMMA AddAllocType ==
    ASSUME NEW T \in TableType, NEW m \in MsgType
    PROVE  AddAlloc(T, m) \in TableType
<1> DEFINE U == withThreadInfos(T, m.thread, FALSE)
           e == getById(U, U.alive, m.thread)
           info == Allocated(U.infos[e], m)
<1>1. m.thread \in TidType /\ m.num \in Nat /\ m.size \in Nat
  BY DEF MsgType, MsgRecord, TidType
<1>2. U \in TableType /\ e \in 1..Len(U.infos) /\ U.infos[e] \in InfoType
  BY <1>1, WithThreadInfosType
<1>3. AddAlloc(T, m) = [U EXCEPT !.infos[e] = info]
  BY DEF AddAlloc
<1> HIDE DEF U, e
<1>4. info \in InfoType
  <2> DEFINE old == U.infos[e]
             size == ToWord(old.size + m.size)
  <2>1. old \in InfoType
    BY <1>2
  <2> HIDE DEF old
  <2>2. size \in Nat
    BY <1>1, <2>1, WordIsNat DEF InfoType
  <2> HIDE DEF size
  <2>3. /\ (old.count + 1) % CountRange \in Nat /\ (old.total + 1) % CountRange \in Nat
        /\ (IF size > old.peak THEN size ELSE old.peak) \in Nat
        /\ (IF old.creation = 0 THEN m.num ELSE old.creation) \in Nat
    BY <1>1, <2>1, <2>2, WordIsNat DEF InfoType
  <2>4. QED
    BY <1>1, <2>1, <2>2, <2>3 DEF InfoType, old, size, Allocated
<1> HIDE DEF info
<1>5. QED
  BY <1>2, <1>3, <1>4, PutEntry

\* Counting a release keeps a thread table.
LEMMA AddFreeType ==
    ASSUME NEW T \in TableType, NEW o \in OpType
    PROVE  AddFree(T, o) \in TableType
<1> DEFINE known == getThreadInfosForMsgNum(T, o.thread, o.num)
           W == withThreadInfos(T, o.thread, FALSE)
           U == IF known = NULL THEN W ELSE T
           e == IF known = NULL THEN getById(W, W.alive, o.thread) ELSE known
           info == Released(U.infos[e], o)
<1>1. o.thread \in TidType /\ o.size \in Nat
  BY DEF OpType, TidType
<1>2. U \in TableType /\ e \in 1..Len(U.infos)
  <2>1. CASE known = NULL
    BY <2>1, <1>1, WithThreadInfosType
  <2>2. CASE known # NULL
    <3>1. T.listed \subseteq 1..Len(T.infos) /\ T.alive \subseteq 1..Len(T.infos) /\ Len(T.infos) \in Nat
      BY LenProperties DEF TableType
    <3>2. known \in 1..Len(T.infos)
      BY <2>2, <3>1, GetByIdAndMsgNumIsIn DEF getThreadInfosForMsgNum
    <3>3. QED
      BY <2>2, <3>2
  <2>3. QED
    BY <2>1, <2>2
<1>3. AddFree(T, o) = [U EXCEPT !.infos[e] = info]
  BY DEF AddFree
<1> HIDE DEF U, e
<1>4. U.infos[e] \in InfoType
  BY <1>2, ElementOfSeq DEF TableType
<1>5. info \in InfoType
  <2> DEFINE old == U.infos[e]
  <2>1. old \in InfoType
    BY <1>4
  <2> HIDE DEF old
  <2>2. ToWord(old.size - o.size) \in Nat /\ (old.count - 1) % CountRange \in Nat
    BY <1>1, <2>1, WordIsNat DEF InfoType
  <2>3. QED
    BY <2>1, <2>2 DEF InfoType, old, Released
<1> HIDE DEF info
<1>6. QED
  BY <1>2, <1>3, <1>5, PutEntry

-----------------------------------------------------------------------------
(* The library keeps its types *)

\* What the wrappers, a thread without a message and a restart build are
\* messages.
LEMMA MsgIsMsg ==
    /\ \A t \in Thread, code \in MsgCode, ptr \in Addr \cup {NULL}, size \in Nat, free \in Addr \cup {NULL} :
            Msg(t, code, ptr, size, free) \in MsgType
    /\ NoMsg \in MsgType
    /\ now \in Nat => AppMsg \in MsgType
<1>1. "init" \in MsgCode
  BY DEF MsgCode
<1>2. QED
  BY <1>1, EnvAssumption DEF Msg, NoMsg, AppMsg, MsgType, MsgRecord

\* A thread that moves to its next step keeps its type.
LEMMA GotoType ==
    ASSUME LibType, NEW t \in Thread, NEW m \in MsgType,
           NEW step \in {"idle", "stamp", "send", "stamp_bt", "send_bt", "real_free"},
           Goto(t, step, m)
    PROVE  /\ pc' \in [Thread -> {"idle", "stamp", "send", "stamp_bt", "send_bt", "real_free"}]
           /\ msg' \in [Thread -> MsgType]
BY DEF LibType, Goto

\* A call of a wrapper keeps the types of the traced process.
LEMMA CallType ==
    ASSUME LibType, NEW t \in Thread, Call(t), UNCHANGED scenario
    PROVE  LibType'
<1> USE DEF LibType
<1>1. ASSUME NEW code \in scenario.codes, NEW a \in Addr, NEW size \in scenario.sizes, NEW num \in {1, 2},
             Alloc(t, code, a, size, num)
      PROVE  LibType'
  <2>1. code \in MsgCode /\ size \in Nat
    BY EnvAssumption DEF MsgCode, MemoryCode
  <2>2. Msg(t, code, a, size, NULL) \in MsgType
    BY <2>1, MsgIsMsg
  <2>3. heap' \in [Addr -> Nat \cup {NULL}]
    <3>1. num * size \in Nat
      BY <2>1
    <3>2. QED
      BY <1>1, <3>1 DEF Alloc
  <2>4. QED
    BY <1>1, <2>2, <2>3, GotoType DEF Alloc
<1>2. ASSUME NEW ptr \in held \cup {NULL}, NEW a \in Addr, NEW size \in scenario.sizes,
             Realloc(t, ptr, a, size)
      PROVE  LibType'
  <2>1. "realloc" \in MsgCode /\ size \in Nat
    BY EnvAssumption DEF MsgCode, MemoryCode
  <2>2. Msg(t, "realloc", a, size, ptr) \in MsgType
    BY <2>1, MsgIsMsg
  <2>3. heap' \in [Addr -> Nat \cup {NULL}]
    BY <1>2, <2>1 DEF Realloc
  <2>4. QED
    BY <1>2, <2>2, <2>3, GotoType DEF Realloc
<1>3. ASSUME NEW ptr \in held, ReallocZero(t, ptr)
      PROVE  LibType'
  BY <1>3 DEF ReallocZero
<1>4. ASSUME NEW ptr \in held, Free(t, ptr)
      PROVE  LibType'
  <2>1. "free" \in MsgCode
    BY DEF MsgCode, MemoryCode
  <2>2. Msg(t, "free", NULL, 0, ptr) \in MsgType
    BY <2>1, MsgIsMsg
  <2>3. QED
    BY <1>4, <2>2, GotoType DEF Free
<1>5. \A code \in ThreadCode : code \in MsgCode
  BY DEF MsgCode
<1>6. \A code \in ThreadCode, u \in Thread :
            /\ [Msg(t, code, NULL, 0, NULL) EXCEPT !.tid = u] \in MsgType
            /\ [Msg(t, code, NULL, 0, NULL) EXCEPT !.tid = u, !.born = g_iMsgNum] \in MsgType
  BY <1>5, EnvAssumption DEF Msg, MsgType, MsgRecord
<1>7. "pthread_create" \in ThreadCode /\ "pthread_set_name" \in ThreadCode
  BY DEF ThreadCode
<1>8. ASSUME NEW u \in Thread, ThreadCreate(t, u)
      PROVE  LibType'
  BY <1>6, <1>7, <1>8, GotoType DEF ThreadCreate
<1>9. ASSUME NEW u \in Thread, CreateFails(t, u)
      PROVE  LibType'
  BY <1>6, <1>7, <1>9, GotoType DEF CreateFails
<1>10. ASSUME NEW u \in Thread, SetName(t, u)
       PROVE  LibType'
  BY <1>6, <1>7, <1>10, GotoType DEF SetName
<1>11. QED
  BY <1>1, <1>2, <1>3, <1>4, <1>8, <1>9, <1>10 DEF Call, AllocAny

\* So does the end of a wrapper,
LEMMA FinishType ==
    ASSUME LibType, NEW t \in Thread, NEW m \in MsgType, Finish(t, m)
    PROVE  /\ pc' \in [Thread -> {"idle", "stamp", "send", "stamp_bt", "send_bt", "real_free"}]
           /\ msg' \in [Thread -> MsgType]
           /\ held' \in SUBSET Addr /\ running' \in SUBSET Thread
<1>1. CASE m.code = "free"
  BY <1>1, GotoType DEF Finish, LibType
<1>2. CASE m.code # "free"
  <2>1. Goto(t, "idle", NoMsg) /\ held' \in SUBSET Addr /\ running' \in SUBSET Thread
    BY <1>2 DEF Finish, Return, LibType, MsgType, MsgRecord
  <2>2. QED
    BY <2>1, GotoType, MsgIsMsg
<1>3. QED
  BY <1>1, <1>2

\* a message is appended to the stream
LEMMA SentType ==
    ASSUME LibType, NEW m \in MsgType, stream' = Append(stream, m)
    PROVE  stream' \in Seq(MsgType)
BY AppendProperties DEF LibType

\* the message of a thread, and its backtrace
LEMMA ThreadMsgType ==
    ASSUME LibType, NEW t \in Thread
    PROVE  /\ msg[t] \in MsgType
           /\ [msg[t] EXCEPT !.num = g_iMsgNum + 1, !.time = now] \in MsgType
           /\ [msg[t] EXCEPT !.origin = msg[t].num] \in MsgType
           /\ [Msg(t, "backtrace", NULL, 0, NULL)
                    EXCEPT !.num = msg[t].num, !.time = msg[t].time, !.origin = msg[t].origin] \in MsgType
<1>1. msg[t] \in MsgType /\ g_iMsgNum + 1 \in Nat /\ now \in Nat
  BY DEF LibType
<1>2. "backtrace" \in MsgCode
  BY DEF MsgCode
<1>3. QED
  BY <1>1, <1>2 DEF MsgType, MsgRecord, Msg

\* the report of a wrapper,
LEMMA ReportType ==
    ASSUME LibType, NEW t \in Thread, Report(t), UNCHANGED scenario
    PROVE  LibType'
<1>1. CASE Stamp(t)
  <2> DEFINE m == [msg[t] EXCEPT !.num = g_iMsgNum + 1, !.time = now]
  <2>1. Goto(t, "send", m) \/ Goto(t, "send_bt", m)
    BY <1>1 DEF Stamp
  <2>2. m \in MsgType
    BY ThreadMsgType
  <2> HIDE DEF m
  <2>3. /\ pc' \in [Thread -> {"idle", "stamp", "send", "stamp_bt", "send_bt", "real_free"}]
        /\ msg' \in [Thread -> MsgType]
    BY <2>1, <2>2, GotoType
  <2>4. QED
    BY <1>1, <2>3 DEF Stamp, LibType
<1>2. CASE Send(t)
  <2>1. stream' \in Seq(MsgType)
    BY <1>2, ThreadMsgType, SentType DEF Send
  <2>2. CASE SendBacktrace /\ msg[t].tid = NULL
    BY <1>2, <2>1, <2>2, ThreadMsgType, GotoType DEF Send, LibType
  <2>3. CASE ~(SendBacktrace /\ msg[t].tid = NULL)
    <3>1. Finish(t, msg[t])
      BY <1>2, <2>3 DEF Send
    <3>2. QED
      BY <1>2, <2>1, <3>1, ThreadMsgType, FinishType DEF Send, LibType
  <2>4. QED
    BY <2>2, <2>3
<1>3. CASE SendBacktraceMsg(t)
  <2>1. stream' \in Seq(MsgType)
    BY <1>3, ThreadMsgType, SentType DEF SendBacktraceMsg
  <2>2. Finish(t, msg[t])
    BY <1>3 DEF SendBacktraceMsg
  <2>3. QED
    BY <1>3, <2>1, <2>2, ThreadMsgType, FinishType DEF SendBacktraceMsg, LibType
<1>4. CASE RealFree(t)
  BY <1>4, MsgIsMsg, GotoType DEF RealFree, LibType
<1>5. QED
  BY <1>1, <1>2, <1>3, <1>4 DEF Report

\* a new run of the program,
LEMMA RestartType ==
    ASSUME LibType, Restart, UNCHANGED scenario
    PROVE  LibType'
<1>1. PICK n \in 0..Len(stream) : stream' = Append(SubSeq(stream, 1, n), AppMsg)
  BY DEF Restart
<1>2. SubSeq(stream, 1, n) \in Seq(MsgType)
  <2>1. \A i \in 1..n : stream[i] \in MsgType
    BY LenProperties, ElementOfSeq DEF LibType
  <2>2. n \in Int
    BY LenProperties DEF LibType
  <2>3. QED
    BY <2>1, <2>2, SubSeqProperties
<1>3. AppMsg \in MsgType
  BY MsgIsMsg DEF LibType
<1>4. stream' \in Seq(MsgType)
  BY <1>1, <1>2, <1>3, AppendProperties
<1>5. pc' \in [Thread -> {"idle", "stamp", "send", "stamp_bt", "send_bt", "real_free"}]
  BY DEF Restart
<1>6. msg' \in [Thread -> MsgType]
  BY MsgIsMsg DEF Restart
<1>7. heap' \in [Addr -> Nat \cup {NULL}] /\ held' \in SUBSET Addr /\ running' \in SUBSET Thread
  BY EnvAssumption DEF Restart
<1>8. QED
  BY <1>4, <1>5, <1>6, <1>7 DEF Restart, LibType

\* and with them every step of the traced process.
LEMMA LibNextType ==
    ASSUME LibType, LibNext, UNCHANGED scenario
    PROVE  LibType'
<1>1. ASSUME NEW t \in Thread, ThreadExit(t) PROVE LibType'
  BY <1>1 DEF ThreadExit, LibType
<1>2. CASE Tick
  BY <1>2 DEF Tick, LibType
<1>3. QED
  BY <1>1, <1>2, CallType, ReportType, RestartType DEF LibNext

-----------------------------------------------------------------------------
(* So do the handlers *)

\* takeByPtrNotFreed answers an operation that is listed, not freed and at
\* that address, or there is none.
LEMMA TakeByPtrIsIn ==
    ASSUME ListType, NEW ptr
    PROVE  LET freed == takeByPtrNotFreed(ptr) IN
           /\ freed # NULL =>
                /\ freed \in m_listMemoryOperationNonFreed
                /\ freed \in 1..Len(m_listMemoryOperation)
                /\ op(freed).ptr = ptr /\ ~op(freed).freed
                /\ ptr # NULL
           /\ freed = NULL =>
                \/ ptr = NULL
                \/ ~ \E i \in m_listMemoryOperationNonFreed : op(i).ptr = ptr /\ ~op(i).freed
<1> DEFINE found == {i \in m_listMemoryOperationNonFreed :
                        m_listMemoryOperation[i].ptr = ptr /\ ~m_listMemoryOperation[i].freed}
           n == Len(m_listMemoryOperation)
<1>1. n \in Nat
  BY LenProperties DEF ListType
<1>2. found \subseteq 1..n
  BY DEF ListType
<1>3. takeByPtrNotFreed(ptr) = IF ptr = NULL \/ found = {} THEN NULL ELSE Max(found)
  BY DEF takeByPtrNotFreed
<1>4. found # {} => Max(found) \in found
  <2> HIDE DEF found, n
  <2>1. IsFiniteSet(found) /\ found \subseteq Int
    BY <1>1, <1>2, FiniteIds
  <2>2. QED
    BY ONLY <2>1, MaxOfFinite
<1>5. NULL \notin found
  <2>1. found \subseteq Int
    BY <1>1, <1>2
  <2>2. QED
    BY <2>1, CodeAssumption
<1>6. QED
  BY <1>2, <1>3, <1>4, <1>5 DEF op

\* takeByMsgNum answers a listed operation of that number.
LEMMA TakeByMsgNumIsIn ==
    ASSUME ListType, NEW num
    PROVE  LET i == takeByMsgNum(num) IN
           i # NULL => /\ i \in m_listMemoryOperationWithoutBacktrace
                       /\ i \in 1..Len(m_listMemoryOperation)
                       /\ op(i).num = num
<1> DEFINE found == {i \in m_listMemoryOperationWithoutBacktrace : m_listMemoryOperation[i].num = num}
           n == Len(m_listMemoryOperation)
<1>1. n \in Nat
  BY LenProperties DEF ListType
<1>2. found \subseteq 1..n
  BY DEF ListType
<1>3. takeByMsgNum(num) = IF found = {} THEN NULL ELSE Max(found)
  BY DEF takeByMsgNum
<1>4. found # {} => Max(found) \in found
  <2> HIDE DEF found, n
  <2>1. IsFiniteSet(found) /\ found \subseteq Int
    BY <1>1, <1>2, FiniteIds
  <2>2. QED
    BY ONLY <2>1, MaxOfFinite
<1>5. QED
  BY <1>2, <1>3, <1>4 DEF op

\* the statistics of a message, and of an operation
LEMMA UpdateType ==
    ASSUME NEW u \in UsageType, NEW t \in Nat, NEW size \in Nat
    PROVE  update(u, t, size) \in UsageType
<1>1. Insert(u, t, size) \in UsageType
  <2> DEFINE D == DOMAIN u.sizes \cup {t}
             f == [s \in D |-> IF s = t THEN size ELSE u.sizes[s]]
  <2>1. PICK S \in SUBSET Nat : u.sizes \in [S -> Nat]
    BY DEF UsageType
  <2>2. f \in [D -> Nat] /\ D \in SUBSET Nat
    BY <2>1
  <2>3. f \in UNION {[S0 -> Nat] : S0 \in SUBSET Nat}
    BY <2>2
  <2>4. (IF ToInt(value(u, t)) = 0 /\ u.first = 0 THEN t ELSE u.first) \in Nat
    BY DEF UsageType
  <2>5. QED
    BY <2>3, <2>4 DEF Insert, UsageType
<1>2. QED
  BY <1>1 DEF update

\* Counting a message keeps the statistics.
LEMMA CountMessageType ==
    ASSUME NEW s \in StatsType
    PROVE  CountMessage(s) \in StatsType
BY DEF CountMessage, StatsType

\* So does resetting them,
LEMMA ResetStatsType ==
    /\ NewStats \in StatsType
    /\ \A s \in StatsType : ResetStats(s) \in StatsType
<1>1. EmptyUsage \in UsageType
  <2>1. [t \in {} |-> 0] \in [{} -> Nat]
    OBVIOUS
  <2>2. QED
    BY <2>1 DEF EmptyUsage, UsageType
<1>2. NewStats \in StatsType
  BY <1>1 DEF NewStats, StatsType
<1>3. QED
  BY <1>2 DEF ResetStats, StatsType

\* and counting an operation.
LEMMA CountOperationType ==
    ASSUME NEW s \in StatsType, NEW m \in MsgType, m.code \in MemoryCode,
           NEW freedSize \in Nat \cup {NULL}
    PROVE  CountOperation(s, m, freedSize) \in StatsType
<1>1. m.size \in Nat /\ m.time \in Nat
  BY DEF MsgType, MsgRecord
<1>2. /\ s.messages \in Nat /\ s.start \in Nat /\ s.ops \in Nat /\ s.allocCount \in Nat
      /\ s.allocSize \in Nat /\ s.freeCount \in Nat /\ s.freeSize \in Nat
      /\ s.remainingSize \in Nat /\ s.peak \in Nat
      /\ s.byCode \in [MemoryCode -> Nat] /\ s.usage \in UsageType
  BY DEF StatsType
<1>3. Grown(s, m) \in Nat
  BY <1>1, <1>2, WordIsNat DEF Grown
<1>4. Remaining(s, m, freedSize) \in Nat
  BY <1>3, WordIsNat DEF Remaining
<1>5. Allocs(s, m) \in Nat /\ Frees(s, m) \in Nat
  BY <1>2 DEF Allocs, Frees
<1>6. /\ ToWord(s.allocSize + m.size) \in Nat
      /\ ToWord(s.freeSize + (IF freedSize = NULL THEN 0 ELSE freedSize)) \in Nat
  BY <1>1, <1>2, WordIsNat
<1>7. update(s.usage, m.time, Remaining(s, m, freedSize)) \in UsageType
  BY <1>1, <1>2, <1>4, UpdateType
<1>8. [s.byCode EXCEPT ![m.code] = @ + 1] \in [MemoryCode -> Nat]
  BY <1>2
<1>9. /\ (IF s.start = 0 THEN m.time ELSE s.start) \in Nat
      /\ (IF Grown(s, m) > s.peak THEN Grown(s, m) ELSE s.peak) \in Nat
      /\ Allocs(s, m) - Frees(s, m) \in Int /\ s.messages + 1 \in Nat /\ s.ops + 1 \in Nat
  BY <1>1, <1>2, <1>3, <1>5
<1>10. QED
  BY <1>1, <1>4, <1>5, <1>6, <1>7, <1>8, <1>9 DEF CountOperation, StatsType

\* what a delivery leaves
ControllerType == ListType /\ Table \in TableType /\ m_globalStats \in StatsType

\* the new operation of a memory message
NewOp(m) == [num |-> m.num, code |-> m.code, thread |-> m.thread, ptr |-> m.ptr, size |-> m.size,
             free |-> m.free, freed |-> FALSE, bt |-> NULL]

\* the list with the operation i, if any, marked as freed
Marked(i) == IF i = NULL THEN m_listMemoryOperation ELSE [m_listMemoryOperation EXCEPT ![i].freed = TRUE]

\* Marking an operation freed changes that operation of the list and no
\* other.
LEMMA MarkedIsList ==
    ASSUME ListType, NEW i, i # NULL => i \in 1..Len(m_listMemoryOperation)
    PROVE  /\ Marked(i) \in Seq(OpType)
           /\ Len(Marked(i)) = Len(m_listMemoryOperation)
           /\ \A j \in 1..Len(m_listMemoryOperation) :
                Marked(i)[j] = IF i = NULL \/ j # i THEN op(j) ELSE [op(j) EXCEPT !.freed = TRUE]
<1>1. CASE i = NULL
  BY <1>1 DEF Marked, ListType, op
<1>2. CASE i # NULL
  <2> DEFINE o == [op(i) EXCEPT !.freed = TRUE]
  <2>1. i \in 1..Len(m_listMemoryOperation)
    BY <1>2
  <2>2. op(i) \in OpType
    BY <2>1, ElementOfSeq DEF op, ListType
  <2>3. o \in OpType
    BY <2>2 DEF OpType
  <2>4. Marked(i) = [m_listMemoryOperation EXCEPT ![i] = o]
    BY <1>2 DEF Marked, op
  <2> HIDE DEF o
  <2>5. m_listMemoryOperation \in Seq(OpType)
    BY DEF ListType
  <2>6. /\ Marked(i) \in Seq(OpType)
        /\ Len(Marked(i)) = Len(m_listMemoryOperation)
        /\ \A j \in 1..Len(m_listMemoryOperation) : Marked(i)[j] = IF j = i THEN o ELSE op(j)
    BY <2>1, <2>3, <2>4, <2>5, ExceptSeq DEF op
  <2>7. QED
    BY <1>2, <2>6 DEF o
<1>3. QED
  BY <1>1, <1>2

\* what addMemoryOperation does to the lists
LEMMA AddToLists ==
    ASSUME ListType, NEW m \in MsgType, m.code \in MemoryCode, addMemoryOperation(m)
    PROVE  LET freed == takeByPtrNotFreed(m.free)
               n == Len(m_listMemoryOperation) + 1
           IN  /\ m_listMemoryOperation' = Append(Marked(freed), NewOp(m))
               /\ m_listMemoryOperation' \in Seq(OpType)
               /\ Len(m_listMemoryOperation') = n
               /\ \A j \in 1..Len(m_listMemoryOperation) : m_listMemoryOperation'[j] = Marked(freed)[j]
               /\ m_listMemoryOperation'[n] = NewOp(m)
               /\ m_listMemoryOperationNonFreed' = (m_listMemoryOperationNonFreed \ {freed}) \cup {n}
               /\ m_listMemoryOperationWithoutBacktrace' = m_listMemoryOperationWithoutBacktrace \cup {n}
<1> DEFINE freed == takeByPtrNotFreed(m.free)
           n == Len(m_listMemoryOperation) + 1
<1>1. NewOp(m) \in OpType
  BY DEF NewOp, OpType, MsgType, MsgRecord
<1>2. /\ m_listMemoryOperation' = Append(Marked(freed), NewOp(m))
      /\ m_listMemoryOperationNonFreed' = (m_listMemoryOperationNonFreed \ {freed}) \cup {n}
      /\ m_listMemoryOperationWithoutBacktrace' = m_listMemoryOperationWithoutBacktrace \cup {n}
  BY DEF addMemoryOperation, Marked, NewOp
<1>3. freed # NULL => freed \in 1..Len(m_listMemoryOperation)
  BY TakeByPtrIsIn
<1> HIDE DEF freed
<1>4. Marked(freed) \in Seq(OpType) /\ Len(Marked(freed)) = Len(m_listMemoryOperation)
  BY <1>3, MarkedIsList
<1>5. /\ m_listMemoryOperation' \in Seq(OpType)
      /\ Len(m_listMemoryOperation') = n
      /\ \A j \in 1..Len(m_listMemoryOperation) : m_listMemoryOperation'[j] = Marked(freed)[j]
      /\ m_listMemoryOperation'[n] = NewOp(m)
  BY <1>1, <1>2, <1>4, AppendProperties
<1>6. QED
  BY <1>2, <1>5 DEF freed

\* A memory operation keeps the types of the controller.
LEMMA AddMemoryOperationType ==
    ASSUME ControllerType, NEW m \in MsgType, m.code \in MemoryCode, addMemoryOperation(m)
    PROVE  ControllerType'
<1> DEFINE freed == takeByPtrNotFreed(m.free)
           n == Len(m_listMemoryOperation) + 1
           T == IF freed = NULL THEN Table ELSE AddFree(Table, op(freed))
           U == IF m.ptr = NULL THEN T ELSE AddAlloc(T, m)
<1>1. ListType /\ Table \in TableType /\ m_globalStats \in StatsType
  BY DEF ControllerType
<1>2. Len(m_listMemoryOperation) \in Nat
  BY <1>1, LenProperties DEF ListType
<1>3. freed # NULL => op(freed) \in OpType
  <2>1. freed # NULL => freed \in 1..Len(m_listMemoryOperation)
    BY <1>1, TakeByPtrIsIn
  <2>2. \A i \in 1..Len(m_listMemoryOperation) : op(i) \in OpType
    BY <1>1, ElementOfSeq DEF ListType, op
  <2>3. QED
    BY <2>1, <2>2
<1>4. ListType'
  <2>1. /\ m_listMemoryOperation' \in Seq(OpType)
        /\ Len(m_listMemoryOperation') = n
        /\ m_listMemoryOperationNonFreed' = (m_listMemoryOperationNonFreed \ {freed}) \cup {n}
        /\ m_listMemoryOperationWithoutBacktrace' = m_listMemoryOperationWithoutBacktrace \cup {n}
    BY <1>1, AddToLists
  <2> HIDE DEF freed
  <2>2. 1..Len(m_listMemoryOperation) \subseteq 1..n /\ n \in 1..n
    BY <1>2
  <2> HIDE DEF n
  <2>3. QED
    BY <1>1, <2>1, <2>2 DEF ListType
<1>5. m_globalStats' \in StatsType
  <2>1. m_globalStats' = CountOperation(m_globalStats, m, IF freed = NULL THEN NULL ELSE op(freed).size)
    BY DEF addMemoryOperation, op
  <2> HIDE DEF freed
  <2>2. (IF freed = NULL THEN NULL ELSE op(freed).size) \in Nat \cup {NULL}
    BY <1>3 DEF OpType
  <2>3. QED
    BY <1>1, <2>1, <2>2, CountOperationType
<1>6. Table' \in TableType
  <2>1. SetTable(U)
    BY DEF addMemoryOperation, op
  <2>2. T \in TableType
    BY <1>1, <1>3, AddFreeType
  <2> HIDE DEF T
  <2>3. U \in TableType
    BY <2>2, AddAllocType
  <2> HIDE DEF U
  <2>4. U = [infos |-> U.infos, listed |-> U.listed, alive |-> U.alive]
    BY <2>3 DEF TableType
  <2>5. QED
    BY <2>1, <2>3, <2>4 DEF SetTable, Table
<1>7. QED
  BY <1>4, <1>5, <1>6 DEF ControllerType

\* So does a message about a thread,
LEMMA UpdateThreadInfosType ==
    ASSUME ControllerType, NEW m \in MsgType, updateThreadInfos(m)
    PROVE  ControllerType'
<1> DEFINE T == withThreadInfos(Table, m.tid, m.code = "pthread_create")
           e == getById(T, T.alive, m.tid)
           created == [T.infos[e] EXCEPT !.creation = m.num, !.last = m.num]
           named == [T.infos[e] EXCEPT !.name = "set"]
           U == IF m.code = "pthread_create" THEN [T EXCEPT !.infos[e] = created] ELSE [T EXCEPT !.infos[e] = named]
<1>1. ListType /\ Table \in TableType /\ m_globalStats \in StatsType
  BY DEF ControllerType
<1>2. m.tid \in TidType /\ m.num \in Nat
  BY DEF MsgType, MsgRecord, TidType
<1>3. T \in TableType /\ e \in 1..Len(T.infos) /\ T.infos[e] \in InfoType
  BY <1>1, <1>2, WithThreadInfosType
<1>4. SetTable(U)
  <2>1. T \in [infos : Seq(InfoType), listed : SUBSET Nat, alive : SUBSET Nat] /\ T.infos[e] \in InfoType
    BY <1>3 DEF TableType
  <2>2. SetTable(IF m.code = "pthread_create"
                 THEN [T EXCEPT !.infos[e].creation = m.num, !.infos[e].last = m.num]
                 ELSE [T EXCEPT !.infos[e].name = "set"])
    BY DEF updateThreadInfos
  <2> HIDE DEF T, e
  <2>3. [T EXCEPT !.infos[e].name = "set"] = [T EXCEPT !.infos[e] = named]
    OBVIOUS
  <2>4. [T EXCEPT !.infos[e].creation = m.num, !.infos[e].last = m.num] = [T EXCEPT !.infos[e] = created]
    BY <1>3, <2>1 DEF InfoType
  <2>5. QED
    BY <2>2, <2>3, <2>4
<1> HIDE DEF T, e
<1>5. created \in InfoType /\ named \in InfoType
  BY <1>2, <1>3 DEF InfoType, ThreadName
<1> HIDE DEF created, named
<1>6. U \in TableType
  BY <1>3, <1>5, PutEntry
<1> HIDE DEF U
<1>7. Table' \in TableType
  <2>1. U = [infos |-> U.infos, listed |-> U.listed, alive |-> U.alive]
    BY <1>6 DEF TableType
  <2>2. QED
    BY <1>4, <1>6, <2>1 DEF SetTable, Table
<1>8. m_globalStats' \in StatsType /\ UNCHANGED listVars
  BY <1>1, CountMessageType DEF updateThreadInfos
<1>9. QED
  BY <1>1, <1>7, <1>8 DEF ControllerType, ListType, listVars

\* a backtrace,
LEMMA AddBacktraceType ==
    ASSUME ControllerType, NEW m \in MsgType, addBacktrace(m)
    PROVE  ControllerType'
<1> DEFINE i == takeByMsgNum(m.origin)
           o == [op(i) EXCEPT !.bt = m.num]
<1>1. ListType /\ Table \in TableType /\ m_globalStats \in StatsType
  BY DEF ControllerType
<1>2. m_listMemoryOperation' = IF i = NULL THEN m_listMemoryOperation
                               ELSE [m_listMemoryOperation EXCEPT ![i] = o]
  BY DEF addBacktrace, setBacktrace, op
<1>3. i # NULL => i \in 1..Len(m_listMemoryOperation)
  BY <1>1, TakeByMsgNumIsIn
<1>4. m_listMemoryOperation' \in Seq(OpType) /\ Len(m_listMemoryOperation') = Len(m_listMemoryOperation)
  <2> HIDE DEF i
  <2>1. CASE i = NULL
    BY <1>1, <1>2, <2>1 DEF ListType
  <2>2. CASE i # NULL
    <3>1. op(i) \in OpType
      BY <1>1, <1>3, <2>2, ElementOfSeq DEF ListType, op
    <3>2. o \in OpType
      BY <3>1 DEF OpType, MsgType, MsgRecord
    <3> HIDE DEF o
    <3>3. QED
      BY <1>1, <1>2, <1>3, <2>2, <3>2, ExceptSeq DEF ListType
  <2>3. QED
    BY <2>1, <2>2
<1>5. ListType'
  BY <1>1, <1>4 DEF ListType, addBacktrace, setBacktrace
<1>6. Table' \in TableType
  BY <1>1 DEF addBacktrace, threadVars, Table
<1>7. m_globalStats' \in StatsType
  BY <1>1, CountMessageType DEF addBacktrace
<1>8. QED
  BY <1>5, <1>6, <1>7 DEF ControllerType

\* and a new connection.
LEMMA OnNewConnectionType ==
    ASSUME ControllerType, onNewConnection
    PROVE  ControllerType'
<1>1. ListType'
  BY EmptySeq DEF onNewConnection, clearOperations, ListType
<1>2. Table' \in TableType
  BY DEF onNewConnection, clearThreads, ControllerType, Table, TableType
<1>3. m_globalStats' \in StatsType
  BY ResetStatsType, CountMessageType DEF onNewConnection, ControllerType
<1>4. QED
  BY <1>1, <1>2, <1>3 DEF ControllerType

\* the message delivered
LEMMA HeadIsFirst ==
    ASSUME LibType, stream # <<>>
    PROVE  /\ Len(stream) \in Nat /\ Len(stream) > 0
           /\ Head(stream) = stream[1] /\ stream[1] \in MsgType
           /\ Tail(stream) \in Seq(MsgType) /\ Len(Tail(stream)) = Len(stream) - 1
           /\ \A i \in 1..(Len(stream) - 1) : Tail(stream)[i] = stream[i + 1]
<1>1. stream \in Seq(MsgType)
  BY DEF LibType
<1>2. Len(stream) \in Nat \ {0}
  BY <1>1, EmptySeq
<1>3. Head(stream) = stream[1]
  BY <1>1
<1>4. QED
  BY <1>1, <1>2, <1>3, HeadTailProperties, ElementOfSeq

\* Handling one message keeps every type.
LEMMA DeliverType ==
    ASSUME TypeInv, Deliver
    PROVE  TypeInv'
<1>1. LibType /\ ControllerType
  BY DEF TypeInv, ControllerType
<1>2. Head(stream) \in MsgType /\ Tail(stream) \in Seq(MsgType)
  BY <1>1, HeadIsFirst DEF Deliver
<1>3. LibType'
  BY <1>1, <1>2 DEF Deliver, LibType
<1>4. ControllerType'
  BY <1>1, <1>2, AddMemoryOperationType, UpdateThreadInfosType, AddBacktraceType, OnNewConnectionType
     DEF Deliver, doProcessMsgV1
<1>5. QED
  BY <1>3, <1>4 DEF TypeInv, ControllerType

\* The types hold at the start,
LEMMA InitType == Init => TypeInv
<1> SUFFICES ASSUME Init PROVE TypeInv
  OBVIOUS
<1>1. LibType
  <2>1. AppMsg \in MsgType
    BY MsgIsMsg DEF Init, LibInit
  <2>2. <<AppMsg>> \in Seq(MsgType)
    BY <2>1
  <2>3. QED
    BY <2>2, MsgIsMsg, EnvAssumption DEF Init, LibInit, LibType
<1>2. ListType
  BY EmptySeq DEF Init, ControllerInit, ListType
<1>3. Table \in TableType
  <2>1. <<>> \in Seq(InfoType) /\ Len(<<>>) = 0
    BY EmptySeq
  <2>2. QED
    BY <2>1 DEF Init, ControllerInit, Table, TableType
<1>4. m_globalStats \in StatsType
  BY ResetStatsType DEF Init, ControllerInit
<1>5. QED
  BY <1>1, <1>2, <1>3, <1>4 DEF TypeInv

\* and every step keeps them.
LEMMA NextType == TypeInv /\ [Next]_vars => TypeInv'
<1> SUFFICES ASSUME TypeInv, [Next]_vars PROVE TypeInv'
  OBVIOUS
<1>1. CASE LibNext /\ UNCHANGED <<scenario, controllerVars>>
  BY <1>1, LibNextType DEF TypeInv, ListType, Table, controllerVars, listVars, threadVars
<1>2. CASE Deliver
  BY <1>2, DeliverType
<1>3. CASE UNCHANGED vars
  BY <1>3 DEF vars, libVars, controllerVars, listVars, threadVars, TypeInv, LibType, ListType, Table
<1>4. QED
  BY <1>1, <1>2, <1>3 DEF Next

\* The model is typed: the numbers a list of the server holds are those of
\* operations or entries it knows (LeakDetector.TypeOK).
THEOREM SpecTypeOK == Spec => []TypeOK
<1>1. TypeInv => TypeOK
  <2>1. SUFFICES ASSUME TypeInv PROVE TypeOK
    OBVIOUS
  <2>2. \A i \in 1..Len(stream) : stream[i].num \in Nat
    <3>1. \A i \in 1..Len(stream) : stream[i] \in MsgType
      BY <2>1, ElementOfSeq DEF TypeInv, LibType
    <3>2. QED
      BY <3>1 DEF MsgType, MsgRecord
  <2>3. QED
    BY <2>1, <2>2 DEF TypeInv, LibType, ListType, Table, TableType, TypeOK
<1>2. QED
  BY <1>1, InitType, NextType, PTL DEF Spec

-----------------------------------------------------------------------------
(* Messages are well formed *)

\* The kinds of message are told apart.
LEMMA CodesDiffer ==
    /\ \A code \in AllocCode : /\ code \notin {"init", "realloc", "free", "backtrace"} \cup ThreadCode
                               /\ code \in MemoryCode
    /\ \A code \in ThreadCode \cup {"init", "backtrace"} : code \notin MemoryCode
    /\ "realloc" \in MemoryCode /\ "free" \in MemoryCode
BY CodeAssumption DEF ThreadCode, MemoryCode

\* what the wrappers build
LEMMA BuiltIsFormed ==
    /\ Formed(NoMsg) /\ Formed(AppMsg)
    /\ \A t, a, size : \A code \in AllocCode : a # NULL => Formed(Msg(t, code, a, size, NULL))
    /\ \A t, a, size, ptr : a # NULL => Formed(Msg(t, "realloc", a, size, ptr))
    /\ \A t, ptr : ptr # NULL => Formed(Msg(t, "free", NULL, 0, ptr))
    /\ \A t : Formed(Msg(t, "backtrace", NULL, 0, NULL))
    /\ \A t : \A code \in ThreadCode : Formed(Msg(t, code, NULL, 0, NULL))
<1> USE CodesDiffer DEF Formed, Msg, NoMsg
<1>1. Formed(NoMsg) /\ Formed(AppMsg)
  BY DEF AppMsg
<1>2. ASSUME NEW t, NEW a, NEW size, NEW code \in AllocCode, a # NULL
      PROVE  Formed(Msg(t, code, a, size, NULL))
  BY <1>2
<1>3. ASSUME NEW t, NEW a, NEW size, NEW ptr, a # NULL
      PROVE  Formed(Msg(t, "realloc", a, size, ptr))
  BY <1>3
<1>4. ASSUME NEW t, NEW ptr, ptr # NULL
      PROVE  Formed(Msg(t, "free", NULL, 0, ptr))
  BY <1>4
<1>5. ASSUME NEW t, NEW code \in ThreadCode \cup {"backtrace"}
      PROVE  Formed(Msg(t, code, NULL, 0, NULL))
  BY <1>5
<1>6. QED
  BY ONLY <1>1, <1>2, <1>3, <1>4, <1>5

\* two messages that agree on what Formed looks at
Alike(m, k) == m.code = k.code /\ m.ptr = k.ptr /\ m.free = k.free /\ m.size = k.size

\* A message that differs from a well formed one in number and time alone is
\* well formed.
LEMMA AlikeFormed ==
    ASSUME NEW m, NEW k, Alike(m, k), Formed(k)
    PROVE  Formed(m)
BY DEF Alike, Formed

\* A thread goes on with a well formed message.
LEMMA GotoFormed ==
    ASSUME LibType, BuiltFormed, NEW t \in Thread, NEW m, Formed(m), NEW step, Goto(t, step, m)
    PROVE  BuiltFormed'
BY DEF LibType, BuiltFormed, Goto

\* Sending a well formed message keeps a well formed stream.
LEMMA AppendFormed ==
    ASSUME LibType, SentFormed, NEW m \in MsgType, Formed(m), stream' = Append(stream, m)
    PROVE  SentFormed'
<1>1. stream \in Seq(MsgType) /\ Len(stream) \in Nat
  BY LenProperties DEF LibType
<1>2. /\ Len(stream') = Len(stream) + 1
      /\ \A i \in 1..Len(stream) : stream'[i] = stream[i]
      /\ stream'[Len(stream) + 1] = m
  BY <1>1, AppendProperties
<1>3. QED
  BY <1>1, <1>2 DEF SentFormed

\* The messages the wrappers build are well formed,
LEMMA CallFormed ==
    ASSUME LibType, BuiltFormed, NEW t \in Thread, Call(t), UNCHANGED scenario
    PROVE  BuiltFormed' /\ UNCHANGED stream
<1>1. ASSUME NEW code \in scenario.codes, NEW a \in Addr, NEW size \in scenario.sizes, NEW num \in {1, 2},
             Alloc(t, code, a, size, num)
      PROVE  BuiltFormed' /\ UNCHANGED stream
  <2>1. code \in AllocCode /\ a # NULL
    BY EnvAssumption DEF LibType
  <2>2. QED
    BY <1>1, <2>1, BuiltIsFormed, GotoFormed DEF Alloc
<1>2. ASSUME NEW ptr \in held \cup {NULL}, NEW a \in Addr, NEW size \in scenario.sizes,
             Realloc(t, ptr, a, size)
      PROVE  BuiltFormed' /\ UNCHANGED stream
  <2>1. a # NULL
    BY EnvAssumption
  <2>2. QED
    BY <1>2, <2>1, BuiltIsFormed, GotoFormed DEF Realloc
<1>3. ASSUME NEW ptr \in held, ReallocZero(t, ptr)
      PROVE  BuiltFormed' /\ UNCHANGED stream
  BY <1>3 DEF ReallocZero, BuiltFormed
<1>4. ASSUME NEW ptr \in held, Free(t, ptr)
      PROVE  BuiltFormed' /\ UNCHANGED stream
  <2>1. ptr # NULL
    BY EnvAssumption DEF LibType
  <2>2. QED
    BY <1>4, <2>1, BuiltIsFormed, GotoFormed DEF Free
<1>5. \A code \in ThreadCode, u \in Thread :
            /\ Formed([Msg(t, code, NULL, 0, NULL) EXCEPT !.tid = u])
            /\ Formed([Msg(t, code, NULL, 0, NULL) EXCEPT !.tid = u, !.born = g_iMsgNum])
  <2>1. ASSUME NEW code \in ThreadCode, NEW u \in Thread
        PROVE  /\ Alike([Msg(t, code, NULL, 0, NULL) EXCEPT !.tid = u], Msg(t, code, NULL, 0, NULL))
               /\ Alike([Msg(t, code, NULL, 0, NULL) EXCEPT !.tid = u, !.born = g_iMsgNum],
                        Msg(t, code, NULL, 0, NULL))
    BY DEF Alike, Msg
  <2>2. QED
    BY <2>1, BuiltIsFormed, AlikeFormed
<1>6. "pthread_create" \in ThreadCode /\ "pthread_set_name" \in ThreadCode
  BY DEF ThreadCode
<1>7. ASSUME NEW u \in Thread, ThreadCreate(t, u)
      PROVE  BuiltFormed' /\ UNCHANGED stream
  BY <1>5, <1>6, <1>7, GotoFormed DEF ThreadCreate
<1>8. ASSUME NEW u \in Thread, CreateFails(t, u)
      PROVE  BuiltFormed' /\ UNCHANGED stream
  BY <1>5, <1>6, <1>8, GotoFormed DEF CreateFails
<1>9. ASSUME NEW u \in Thread, SetName(t, u)
      PROVE  BuiltFormed' /\ UNCHANGED stream
  BY <1>5, <1>6, <1>9, GotoFormed DEF SetName
<1>10. QED
  BY <1>1, <1>2, <1>3, <1>4, <1>7, <1>8, <1>9 DEF Call, AllocAny

\* those left at the end of a wrapper,
LEMMA FinishFormed ==
    ASSUME LibType, BuiltFormed, NEW t \in Thread, Finish(t, msg[t])
    PROVE  BuiltFormed'
<1>1. Formed(msg[t])
  BY DEF BuiltFormed
<1>2. Goto(t, "real_free", msg[t]) \/ Goto(t, "idle", NoMsg)
  BY DEF Finish, Return
<1>3. QED
  BY <1>1, <1>2, BuiltIsFormed, GotoFormed

\* those a wrapper sends,
LEMMA ReportFormed ==
    ASSUME LibType, BuiltFormed, SentFormed, NEW t \in Thread, Report(t)
    PROVE  BuiltFormed' /\ SentFormed'
<1>1. Formed(msg[t]) /\ msg[t] \in MsgRecord /\ msg[t] \in MsgType
  BY ThreadMsgType DEF BuiltFormed, MsgType
<1>2. CASE Stamp(t)
  <2> DEFINE m == [msg[t] EXCEPT !.num = g_iMsgNum + 1, !.time = now]
  <2>1. Alike(m, msg[t])
    BY <1>1 DEF Alike, MsgRecord
  <2>2. Goto(t, "send", m) \/ Goto(t, "send_bt", m)
    BY <1>2 DEF Stamp
  <2> HIDE DEF m
  <2>3. Formed(m)
    BY <1>1, <2>1, AlikeFormed
  <2>4. QED
    BY <1>2, <2>2, <2>3, GotoFormed DEF Stamp, SentFormed
<1>3. CASE Send(t)
  <2> DEFINE m == [msg[t] EXCEPT !.origin = msg[t].num]
  <2>1. Alike(m, msg[t])
    BY <1>1 DEF Alike, MsgRecord
  <2>2. Goto(t, "stamp_bt", m) \/ Finish(t, msg[t])
    BY <1>3 DEF Send
  <2> HIDE DEF m
  <2>3. Formed(m)
    BY <1>1, <2>1, AlikeFormed
  <2>4. BuiltFormed'
    BY <2>2, <2>3, GotoFormed, FinishFormed
  <2>5. SentFormed'
    BY <1>1, <1>3, AppendFormed DEF Send
  <2>6. QED
    BY <2>4, <2>5
<1>4. CASE SendBacktraceMsg(t)
  <2> DEFINE m == [Msg(t, "backtrace", NULL, 0, NULL)
                    EXCEPT !.num = msg[t].num, !.time = msg[t].time, !.origin = msg[t].origin]
  <2>1. Alike(m, Msg(t, "backtrace", NULL, 0, NULL))
    BY DEF Alike, Msg
  <2>2. m \in MsgType /\ stream' = Append(stream, m)
    BY <1>4, ThreadMsgType DEF SendBacktraceMsg
  <2> HIDE DEF m
  <2>3. Formed(m)
    BY <2>1, BuiltIsFormed, AlikeFormed
  <2>4. SentFormed'
    BY <2>2, <2>3, AppendFormed
  <2>5. BuiltFormed'
    BY <1>4, FinishFormed DEF SendBacktraceMsg
  <2>6. QED
    BY <2>4, <2>5
<1>5. CASE RealFree(t)
  BY <1>5, BuiltIsFormed, GotoFormed DEF RealFree, SentFormed
<1>6. QED
  BY <1>2, <1>3, <1>4, <1>5 DEF Report

\* the stream of the process traced next
LEMMA RestartStream ==
    ASSUME LibType, Restart
    PROVE  \E k \in 0..Len(stream) :
            /\ Len(stream') = k + 1
            /\ \A i \in 1..k : stream'[i] = stream[i]
            /\ stream'[k + 1] = AppMsg
<1>1. stream \in Seq(MsgType) /\ Len(stream) \in Nat
  BY LenProperties DEF LibType
<1>2. PICK k \in 0..Len(stream) : stream' = Append(SubSeq(stream, 1, k), AppMsg)
  BY DEF Restart
<1>3. \A i \in 1..k : stream[i] \in MsgType
  BY <1>1, ElementOfSeq
<1>4. k \in Int /\ k \in Nat
  BY <1>1
<1>5. /\ SubSeq(stream, 1, k) \in Seq(MsgType)
      /\ Len(SubSeq(stream, 1, k)) = IF 1 <= k THEN k - 1 + 1 ELSE 0
      /\ \A i \in 1..(k - 1 + 1) : SubSeq(stream, 1, k)[i] = stream[1 + i - 1]
  BY <1>3, <1>4, SubSeqProperties
<1>6. Len(SubSeq(stream, 1, k)) = k /\ \A i \in 1..k : SubSeq(stream, 1, k)[i] = stream[i]
  BY <1>1, <1>4, <1>5
<1>7. AppMsg \in MsgType
  BY MsgIsMsg DEF LibType
<1>8. QED
  BY <1>2, <1>5, <1>6, <1>7, AppendProperties

\* and with them all messages of the traced process.
LEMMA LibNextFormed ==
    ASSUME LibType, BuiltFormed, SentFormed, LibNext, UNCHANGED scenario
    PROVE  BuiltFormed' /\ SentFormed'
<1>1. ASSUME NEW t \in Thread, Call(t) PROVE BuiltFormed' /\ SentFormed'
  BY <1>1, CallFormed DEF SentFormed
<1>2. ASSUME NEW t \in Thread, ThreadExit(t) PROVE BuiltFormed' /\ SentFormed'
  BY <1>2 DEF ThreadExit, BuiltFormed, SentFormed
<1>3. CASE Tick
  BY <1>3 DEF Tick, BuiltFormed, SentFormed
<1>4. CASE Restart
  <2>1. BuiltFormed'
    BY <1>4, BuiltIsFormed DEF Restart, BuiltFormed
  <2>2. PICK k \in 0..Len(stream) :
            /\ Len(stream') = k + 1
            /\ \A i \in 1..k : stream'[i] = stream[i]
            /\ stream'[k + 1] = AppMsg
    BY <1>4, RestartStream
  <2>3. Len(stream) \in Nat
    BY LenProperties DEF LibType
  <2>4. SentFormed'
    <3>1. SUFFICES ASSUME NEW i \in 1..(k + 1) PROVE Formed(stream'[i])
      BY <2>2 DEF SentFormed
    <3>2. CASE i = k + 1
      BY <2>2, <3>2, BuiltIsFormed
    <3>3. CASE i # k + 1
      <4>1. i \in 1..k /\ i \in 1..Len(stream)
        BY <2>3, <3>3
      <4>2. QED
        BY <2>2, <4>1 DEF SentFormed
    <3>4. QED
      BY <3>2, <3>3
  <2>5. QED
    BY <2>1, <2>4
<1>5. QED
  BY <1>1, <1>2, <1>3, <1>4, ReportFormed DEF LibNext

\* marking an operation or giving it a backtrace leaves what it allocated
LEMMA AddOperationFormed ==
    ASSUME ListType, ListFormed, NEW m \in MsgType, Formed(m), m.code \in MemoryCode, addMemoryOperation(m)
    PROVE  ListFormed'
<1> DEFINE freed == takeByPtrNotFreed(m.free)
           n == Len(m_listMemoryOperation)
<1>1. n \in Nat
  BY LenProperties DEF ListType
<1>2. /\ Len(m_listMemoryOperation') = n + 1
      /\ \A j \in 1..n : m_listMemoryOperation'[j] = Marked(freed)[j]
      /\ m_listMemoryOperation'[n + 1] = NewOp(m)
  BY AddToLists
<1>3. NewOp(m).ptr = NULL <=> NewOp(m).code = "free"
  <2>1. m.code \in AllocCode \/ m.code = "realloc" \/ m.code = "free"
    BY DEF MemoryCode
  <2>2. QED
    BY <2>1, CodesDiffer DEF NewOp, Formed
<1>4. \A j \in 1..n : Marked(freed)[j].ptr = op(j).ptr /\ Marked(freed)[j].code = op(j).code
  <2>1. freed # NULL => freed \in 1..n
    BY TakeByPtrIsIn
  <2>2. \A j \in 1..n : Marked(freed)[j] = IF freed = NULL \/ j # freed THEN op(j)
                                          ELSE [op(j) EXCEPT !.freed = TRUE]
    BY <2>1, MarkedIsList
  <2>3. \A j \in 1..n : op(j) \in OpType
    BY ElementOfSeq DEF ListType, op
  <2> HIDE DEF freed
  <2>4. QED
    BY <2>2, <2>3 DEF OpType
<1> HIDE DEF freed, n
<1>5. ASSUME NEW j \in 1..(n + 1)
      PROVE  m_listMemoryOperation'[j].ptr = NULL <=> m_listMemoryOperation'[j].code = "free"
  <2>1. CASE j = n + 1
    BY <1>2, <1>3, <2>1
  <2>2. CASE j # n + 1
    <3>1. j \in 1..n
      BY <1>1, <2>2
    <3>2. op(j).ptr = NULL <=> op(j).code = "free"
      BY <3>1 DEF ListFormed, n
    <3>3. QED
      BY <1>2, <1>4, <3>1, <3>2
  <2>3. QED
    BY <2>1, <2>2
<1>6. QED
  BY <1>2, <1>5 DEF ListFormed, op

\* what setBacktrace does to an operation
LEMMA SetBacktraceList ==
    ASSUME ListType, NEW m \in MsgType, setBacktrace(m)
    PROVE  /\ Len(m_listMemoryOperation') = Len(m_listMemoryOperation)
           /\ \A j \in 1..Len(m_listMemoryOperation) :
                m_listMemoryOperation'[j] = IF j = takeByMsgNum(m.origin) THEN [op(j) EXCEPT !.bt = m.num] ELSE op(j)
<1> DEFINE i == takeByMsgNum(m.origin)
           o == [op(i) EXCEPT !.bt = m.num]
           n == Len(m_listMemoryOperation)
<1>1. m_listMemoryOperation' = IF i = NULL THEN m_listMemoryOperation
                               ELSE [m_listMemoryOperation EXCEPT ![i] = o]
  BY DEF setBacktrace, op
<1>2. i # NULL => i \in 1..n
  BY TakeByMsgNumIsIn
<1>3. NULL \notin 1..n
  <2>1. 1..n \subseteq Int
    BY LenProperties DEF ListType
  <2>2. QED
    BY <2>1, CodeAssumption
<1> HIDE DEF i
<1>4. CASE i = NULL
  BY <1>1, <1>3, <1>4 DEF op, i
<1>5. CASE i # NULL
  <2>1. op(i) \in OpType
    BY <1>2, <1>5, ElementOfSeq DEF ListType, op
  <2>2. o \in OpType
    BY <2>1 DEF OpType, MsgType, MsgRecord
  <2> HIDE DEF o
  <2>3. m_listMemoryOperation \in Seq(OpType)
    BY DEF ListType
  <2>4. /\ Len(m_listMemoryOperation') = n
        /\ \A j \in 1..n : m_listMemoryOperation'[j] = IF j = i THEN o ELSE op(j)
    BY <1>1, <1>2, <1>5, <2>2, <2>3, ExceptSeq DEF op
  <2>5. QED
    BY <2>4 DEF o, i
<1>6. QED
  BY <1>4, <1>5

\* The server lists well formed operations only.
LEMMA DeliverFormed ==
    ASSUME TypeInv, FormedInv, Deliver
    PROVE  FormedInv'
<1>1. LibType /\ ListType /\ BuiltFormed /\ SentFormed /\ ListFormed
  BY DEF TypeInv, FormedInv
<1>2. /\ Len(stream) \in Nat /\ Len(stream) > 0
      /\ Head(stream) = stream[1] /\ stream[1] \in MsgType
      /\ Len(Tail(stream)) = Len(stream) - 1
      /\ \A i \in 1..(Len(stream) - 1) : Tail(stream)[i] = stream[i + 1]
  BY <1>1, HeadIsFirst DEF Deliver
<1>3. Formed(Head(stream)) /\ Head(stream) \in MsgType
  BY <1>1, <1>2 DEF SentFormed
<1>4. BuiltFormed'
  BY <1>1 DEF Deliver, BuiltFormed
<1>5. SentFormed'
  <2>1. \A i \in 1..(Len(stream) - 1) : i + 1 \in 1..Len(stream)
    BY <1>2
  <2>2. QED
    BY <1>1, <1>2, <2>1 DEF Deliver, SentFormed
<1>6. ListFormed'
  <2> DEFINE m == Head(stream)
  <2>1. CASE m.code \in MemoryCode /\ addMemoryOperation(m)
    BY <1>1, <1>3, <2>1, AddOperationFormed
  <2>2. CASE onNewConnection
    <3>1. m_listMemoryOperation' = <<>>
      BY <2>2 DEF onNewConnection, clearOperations
    <3>2. 1..Len(m_listMemoryOperation') = {}
      BY <3>1
    <3>3. QED
      BY <3>2 DEF ListFormed
  <2>3. CASE updateThreadInfos(m)
    BY <1>1, <2>3 DEF updateThreadInfos, listVars, ListFormed, op
  <2>4. CASE addBacktrace(m)
    <3>1. setBacktrace(m)
      BY <2>4 DEF addBacktrace
    <3>2. /\ Len(m_listMemoryOperation') = Len(m_listMemoryOperation)
          /\ \A j \in 1..Len(m_listMemoryOperation) :
                m_listMemoryOperation'[j] = IF j = takeByMsgNum(m.origin) THEN [op(j) EXCEPT !.bt = m.num] ELSE op(j)
      BY <1>1, <1>3, <3>1, SetBacktraceList
    <3>3. \A j \in 1..Len(m_listMemoryOperation) : op(j) \in OpType
      BY <1>1, ElementOfSeq DEF ListType, op
    <3>4. \A j \in 1..Len(m_listMemoryOperation) : m_listMemoryOperation'[j].ptr = op(j).ptr
                                                  /\ m_listMemoryOperation'[j].code = op(j).code
      BY <3>2, <3>3 DEF OpType
    <3>5. QED
      BY <1>1, <3>2, <3>4 DEF ListFormed, op
  <2>5. QED
    BY <2>1, <2>2, <2>3, <2>4 DEF Deliver, doProcessMsgV1
<1>7. QED
  BY <1>4, <1>5, <1>6 DEF FormedInv

-----------------------------------------------------------------------------
(* A block has one owner *)

\* A thread that moves on changes no other.
LEMMA GotoFacts ==
    ASSUME LibType, NEW t \in Thread, NEW m, NEW step, Goto(t, step, m)
    PROVE  /\ pc'[t] = step /\ msg'[t] = m
           /\ \A u \in Thread \ {t} : pc'[u] = pc[u] /\ msg'[u] = msg[u]
BY DEF LibType, Goto

\* what a message may free
LEMMA FreesWhat ==
    ASSUME NEW m, Formed(m), m.free # NULL
    PROVE  m.code = "free" \/ m.code = "realloc"
BY DEF Formed, MemoryCode

\* a reallocation that is reported is one the others wait for
LEMMA NoneReallocating ==
    ASSUME InWrapper, Misreported = {}, NEW t, Allowed(t)
    PROVE  \A u \in Thread : msg[u].code # "realloc"
BY DEF InWrapper, Misreported, Allowed, Reallocating, NoMsg, Msg

\* When a thread starts a wrapper alone, nobody else is in one.
LEMMA AllIdle ==
    ASSUME InWrapper, NEW t \in Thread, pc[t] = "idle", Alone(t)
    PROVE  \A u \in Thread : pc[u] = "idle" /\ msg[u] = NoMsg /\ Claims(u) = {}
<1>1. \A u \in Thread : pc[u] = "idle" /\ msg[u] = NoMsg
  BY DEF InWrapper, Alone
<1>2. QED
  BY <1>1 DEF Claims, NoMsg, Msg

\* An allocation keeps the owners of addresses apart.
LEMMA AllocOwned ==
    ASSUME LibType, BuiltFormed, Owned, Misreported = {}, UNCHANGED scenario, NEW t \in Thread,
           NEW code \in AllocCode, NEW a \in Addr, NEW size \in Nat, NEW num \in {1, 2},
           Alloc(t, code, a, size, num)
    PROVE  Owned'
<1> DEFINE m == Msg(t, code, a, size, NULL)
<1>1. /\ pc[t] = "idle" /\ msg[t] = NoMsg /\ Allowed(t) /\ heap[a] = NULL /\ UNCHANGED held
      /\ heap' = [heap EXCEPT ![a] = num * size] /\ Goto(t, "stamp", m)
  BY DEF Alloc, Ready, Owned, InWrapper
<1>2. /\ pc'[t] = "stamp" /\ msg'[t] = m
      /\ \A u \in Thread \ {t} : pc'[u] = pc[u] /\ msg'[u] = msg[u]
  BY <1>1, GotoFacts
<1>3. /\ m.code = code /\ m.ptr = a /\ m.free = NULL /\ m.size = size
      /\ code # "realloc" /\ code # "free" /\ code # "init" /\ a # NULL
  BY CodesDiffer, EnvAssumption DEF Msg
<1> HIDE DEF m
<1>4. \A u \in Thread : msg[u].code # "realloc"
  BY <1>1, NoneReallocating DEF Owned
<1>5. ASSUME NEW u \in Thread PROVE a \notin Claims(u)
  <2>1. Formed(msg[u])
    BY DEF BuiltFormed
  <2>2. QED
    BY <1>1, <1>4, <2>1, FreesWhat DEF Claims, Owned, OwnedIsLive
<1>6. num * size \in Nat /\ num * size # NULL /\ ("calloc_many" \notin Env => num * size = size)
  <2>1. num * size \in Nat
    OBVIOUS
  <2>2. "calloc_many" \notin Env => num = 1
    BY DEF Alloc
  <2>3. QED
    BY <2>1, <2>2, CodeAssumption
<1>7. heap'[a] = num * size /\ \A b \in Addr \ {a} : heap'[b] = heap[b]
  BY <1>1 DEF LibType
<1>8. Claims(t)' = {a} /\ \A u \in Thread \ {t} : Claims(u)' = Claims(u)
  BY <1>2, <1>3 DEF Claims
<1>9. InWrapper'
  BY <1>2, <1>3 DEF Owned, InWrapper
<1>10. ReallocIsAlone'
  BY <1>2, <1>3, <1>4 DEF ReallocIsAlone
<1>11. OneOwner'
  <2>1. a \notin held
    BY <1>1 DEF Owned, OwnedIsLive, Live
  <2>2. QED
    BY <1>1, <1>5, <1>8, <2>1 DEF Owned, OneOwner
<1>12. OwnedIsLive'
  <2>1. held' \subseteq Live'
    BY <1>1, <1>6, <1>7 DEF Owned, OwnedIsLive, Live
  <2>2. ASSUME NEW u \in Thread
        PROVE  /\ msg'[u].ptr # NULL => heap'[msg'[u].ptr] # NULL
               /\ msg'[u].code = "free" => heap'[msg'[u].free] # NULL
               /\ "calloc_many" \notin Env' /\ msg'[u].ptr # NULL => heap'[msg'[u].ptr] = msg'[u].size
    <3>1. CASE u = t
      BY <1>2, <1>3, <1>6, <1>7, <3>1 DEF Env
    <3>2. CASE u # t
      <4>1. msg'[u] = msg[u] /\ msg[u] \in MsgRecord
        BY <1>2, <3>2, ThreadMsgType DEF MsgType
      <4>2. msg[u].ptr # a /\ msg[u].free # a
        BY <1>3, <1>5 DEF Claims
      <4>3. msg[u].ptr \in Addr \cup {NULL} /\ msg[u].free \in Addr \cup {NULL}
        BY <4>1 DEF MsgRecord
      <4>4. msg[u].code = "free" => msg[u].free # NULL
        BY DEF BuiltFormed, Formed
      <4>5. QED
        BY <1>7, <4>1, <4>2, <4>3, <4>4 DEF Owned, OwnedIsLive, Env
    <3>3. QED
      BY <3>1, <3>2
  <2>3. QED
    BY <2>1, <2>2 DEF OwnedIsLive
<1>13. QED
  BY <1>9, <1>10, <1>11, <1>12 DEF Owned

\* So does realloc when nothing is misreported,
LEMMA ReallocOwned ==
    ASSUME LibType, BuiltFormed, Owned, Misreported = {}, UNCHANGED scenario, NEW t \in Thread,
           NEW ptr \in held \cup {NULL}, NEW a \in Addr, NEW size \in Nat,
           Realloc(t, ptr, a, size)
    PROVE  Owned'
<1> DEFINE m == Msg(t, "realloc", a, size, ptr)
<1>1. /\ pc[t] = "idle" /\ Alone(t) /\ (a = ptr \/ heap[a] = NULL) /\ held' = held \ {ptr}
      /\ heap' = [b \in Addr |-> IF b = a THEN size ELSE IF b = ptr THEN NULL ELSE heap[b]]
      /\ Goto(t, "stamp", m)
  BY DEF Realloc, Ready, Misreported
<1>2. /\ pc'[t] = "stamp" /\ msg'[t] = m
      /\ \A u \in Thread \ {t} : pc'[u] = pc[u] /\ msg'[u] = msg[u]
  BY <1>1, GotoFacts
<1>3. /\ m.code = "realloc" /\ m.ptr = a /\ m.free = ptr /\ m.size = size /\ a # NULL
  BY EnvAssumption DEF Msg
<1> HIDE DEF m
<1>4. \A u \in Thread : pc[u] = "idle" /\ msg[u] = NoMsg /\ Claims(u) = {}
  BY <1>1, AllIdle DEF Owned
<1>5. NoMsg.code = "init" /\ NoMsg.ptr = NULL
  BY DEF NoMsg, Msg
<1>6. size # NULL
  BY CodeAssumption
<1>7. heap'[a] = size /\ \A b \in Addr \ {a} : heap'[b] = IF b = ptr THEN NULL ELSE heap[b]
  BY <1>1
<1>8. Claims(t)' = {a, ptr} \ {NULL} /\ \A u \in Thread \ {t} : Claims(u)' = {}
  BY <1>2, <1>3, <1>4 DEF Claims
<1>9. InWrapper'
  BY <1>2, <1>3, <1>4 DEF InWrapper
<1>10. ReallocIsAlone'
  <2>1. Alone(t)'
    BY <1>2, <1>4 DEF Alone
  <2>2. ptr = NULL \/ ptr = a \/ heap'[ptr] = NULL
    BY <1>7 DEF LibType
  <2>3. ASSUME NEW u \in Thread, u # t PROVE msg'[u].code # "realloc"
    BY <1>2, <1>4, <1>5, <2>3
  <2>4. QED
    BY <1>2, <1>3, <2>1, <2>2, <2>3 DEF ReallocIsAlone
<1>11. OneOwner'
  <2>1. a # ptr => a \notin held
    BY <1>1 DEF Owned, OwnedIsLive, Live
  <2>2. QED
    BY <1>1, <1>8, <2>1 DEF OneOwner
<1>12. OwnedIsLive'
  <2>1. held' \subseteq Live'
    BY <1>1, <1>6, <1>7 DEF Owned, OwnedIsLive, Live, LibType
  <2>2. QED
    BY <1>2, <1>3, <1>4, <1>5, <1>6, <1>7, <2>1 DEF OwnedIsLive
<1>13. QED
  BY <1>9, <1>10, <1>11, <1>12 DEF Owned

\* and free.
LEMMA FreeOwned ==
    ASSUME LibType, BuiltFormed, Owned, Misreported = {}, UNCHANGED scenario, NEW t \in Thread,
           NEW ptr \in held, Free(t, ptr)
    PROVE  Owned'
<1> DEFINE m == Msg(t, "free", NULL, 0, ptr)
<1>1. /\ pc[t] = "idle" /\ msg[t] = NoMsg /\ Allowed(t) /\ held' = held \ {ptr} /\ UNCHANGED heap
      /\ Goto(t, "stamp", m)
  BY DEF Free, Ready, Owned, InWrapper
<1>2. /\ pc'[t] = "stamp" /\ msg'[t] = m
      /\ \A u \in Thread \ {t} : pc'[u] = pc[u] /\ msg'[u] = msg[u]
  BY <1>1, GotoFacts
<1>3. /\ m.code = "free" /\ m.ptr = NULL /\ m.free = ptr /\ ptr # NULL
  BY EnvAssumption DEF Msg, LibType
<1> HIDE DEF m
<1>4. \A u \in Thread : msg[u].code # "realloc"
  BY <1>1, NoneReallocating DEF Owned
<1>5. Claims(t)' = {ptr} /\ \A u \in Thread \ {t} : Claims(u)' = Claims(u)
  BY <1>2, <1>3 DEF Claims
<1>6. InWrapper'
  BY <1>2, <1>3 DEF Owned, InWrapper
<1>7. ReallocIsAlone'
  BY <1>2, <1>3, <1>4 DEF ReallocIsAlone
<1>8. OneOwner'
  BY <1>1, <1>5 DEF Owned, OneOwner
<1>9. OwnedIsLive'
  <2>1. heap[ptr] # NULL
    BY DEF Owned, OwnedIsLive, Live
  <2>2. QED
    BY <1>1, <1>2, <1>3, <2>1 DEF Owned, OwnedIsLive, Live, Env
<1>10. QED
  BY <1>6, <1>7, <1>8, <1>9 DEF Owned

\* a thread that is named or started takes no block
LEMMA ThreadCallOwned ==
    ASSUME LibType, Owned, Misreported = {}, UNCHANGED <<scenario, heap, held>>, NEW t \in Thread,
           pc[t] = "idle", Allowed(t),
           NEW m, m.code \in ThreadCode, m.ptr = NULL, m.free = NULL, Goto(t, "stamp", m)
    PROVE  Owned'
<1>1. /\ pc'[t] = "stamp" /\ msg'[t] = m
      /\ \A u \in Thread \ {t} : pc'[u] = pc[u] /\ msg'[u] = msg[u]
  BY GotoFacts
<1>2. \A u \in Thread : msg[u].code # "realloc"
  BY NoneReallocating DEF Owned
<1>3. m.code # "realloc" /\ m.code # "free" /\ m.code # "init"
  BY DEF ThreadCode
<1>4. Claims(t)' = {} /\ \A u \in Thread \ {t} : Claims(u)' = Claims(u)
  BY <1>1 DEF Claims
<1>5. InWrapper'
  BY <1>1, <1>3 DEF Owned, InWrapper
<1>6. ReallocIsAlone'
  BY <1>1, <1>2, <1>3 DEF ReallocIsAlone
<1>7. OneOwner'
  BY <1>4 DEF Owned, OneOwner
<1>8. OwnedIsLive'
  BY <1>1, <1>3 DEF Owned, OwnedIsLive, Live, Env
<1>9. QED
  BY <1>5, <1>6, <1>7, <1>8 DEF Owned

\* going on with the same message changes no owner
LEMMA GoOnOwned ==
    ASSUME LibType, Owned, UNCHANGED <<scenario, heap, held>>, NEW t \in Thread, pc[t] # "idle",
           NEW m, Alike(m, msg[t]), NEW step, step # "idle", step = "real_free" => m.code = "free",
           Goto(t, step, m)
    PROVE  Owned'
<1>1. /\ pc'[t] = step /\ msg'[t] = m
      /\ \A u \in Thread \ {t} : pc'[u] = pc[u] /\ msg'[u] = msg[u]
  BY GotoFacts
<1>2. \A u \in Thread : Alike(msg'[u], msg[u])
  BY <1>1 DEF Alike
<1>3. \A u \in Thread : Claims(u)' = Claims(u)
  BY <1>2 DEF Alike, Claims
<1>4. InWrapper'
  BY <1>1, <1>2 DEF Owned, InWrapper, Alike
<1>5. ReallocIsAlone'
  BY <1>1, <1>2 DEF Owned, ReallocIsAlone, Alone, Alike
<1>6. OneOwner'
  BY <1>3 DEF Owned, OneOwner
<1>7. OwnedIsLive'
  BY <1>2 DEF Owned, OwnedIsLive, Live, Alike, Env
<1>8. QED
  BY <1>4, <1>5, <1>6, <1>7 DEF Owned

\* the wrapper returns: what it allocated is the program's
LEMMA ReturnOwned ==
    ASSUME LibType, BuiltFormed, Owned, UNCHANGED <<scenario, heap>>, NEW t \in Thread, pc[t] # "idle",
           Return(t, msg[t])
    PROVE  Owned'
<1>1. /\ pc'[t] = "idle" /\ msg'[t] = NoMsg
      /\ \A u \in Thread \ {t} : pc'[u] = pc[u] /\ msg'[u] = msg[u]
      /\ held' = IF msg[t].ptr = NULL THEN held ELSE held \cup {msg[t].ptr}
  BY GotoFacts DEF Return
<1>2. NoMsg.code = "init" /\ NoMsg.ptr = NULL /\ NoMsg.free = NULL
  BY DEF NoMsg, Msg
<1>3. Claims(t)' = {} /\ \A u \in Thread \ {t} : Claims(u)' = Claims(u)
  BY <1>1, <1>2 DEF Claims
<1>4. msg[t].ptr # NULL => msg[t].ptr \in Claims(t) /\ msg[t].ptr \in Live
  <2>1. msg[t] \in MsgRecord
    BY ThreadMsgType DEF MsgType
  <2>2. QED
    BY <2>1 DEF Claims, Owned, OwnedIsLive, Live, MsgRecord
<1>5. InWrapper'
  BY <1>1, <1>2 DEF Owned, InWrapper
<1>6. ReallocIsAlone'
  BY <1>1, <1>2 DEF Owned, ReallocIsAlone, Alone
<1>7. OneOwner'
  BY <1>1, <1>3, <1>4 DEF Owned, OneOwner
<1>8. OwnedIsLive'
  BY <1>1, <1>2, <1>4 DEF Owned, OwnedIsLive, Live, Env
<1>9. QED
  BY <1>5, <1>6, <1>7, <1>8 DEF Owned

\* The real free, which comes last, gives the address up.
LEMMA RealFreeOwned ==
    ASSUME LibType, BuiltFormed, Owned, UNCHANGED scenario, NEW t \in Thread, RealFree(t)
    PROVE  Owned'
<1> DEFINE a == msg[t].free
<1>1. /\ pc[t] = "real_free" /\ msg[t].code = "free" /\ UNCHANGED held
      /\ heap' = [heap EXCEPT ![a] = NULL] /\ Goto(t, "idle", NoMsg)
  BY DEF RealFree, Owned, InWrapper
<1>2. /\ pc'[t] = "idle" /\ msg'[t] = NoMsg
      /\ \A u \in Thread \ {t} : pc'[u] = pc[u] /\ msg'[u] = msg[u]
  BY <1>1, GotoFacts
<1>3. NoMsg.code = "init" /\ NoMsg.ptr = NULL /\ NoMsg.free = NULL
  BY DEF NoMsg, Msg
<1>4. Claims(t)' = {} /\ \A u \in Thread \ {t} : Claims(u)' = Claims(u)
  BY <1>2, <1>3 DEF Claims
<1>5. a \in Claims(t) /\ a \in Addr
  <2>1. msg[t] \in MsgRecord /\ Formed(msg[t])
    BY ThreadMsgType DEF MsgType, BuiltFormed
  <2>2. QED
    BY <1>1, <2>1 DEF Claims, Formed, MsgRecord
<1>6. \A u \in Thread : msg[u].code # "realloc"
  <2>1. ASSUME NEW u \in Thread, msg[u].code = "realloc" PROVE FALSE
    <3>1. u # t
      BY <1>1, <2>1
    <3>2. QED
      BY <1>1, <2>1, <3>1 DEF Owned, ReallocIsAlone, Alone
  <2>2. QED
    BY <2>1
<1>7. \A b \in Addr \ {a} : heap'[b] = heap[b]
  BY <1>1 DEF LibType
<1>8. \A u \in Thread \ {t} : a \notin Claims(u)
  BY <1>5 DEF Owned, OneOwner
<1>9. InWrapper'
  BY <1>2, <1>3 DEF Owned, InWrapper
<1>10. ReallocIsAlone'
  BY <1>2, <1>3, <1>6 DEF ReallocIsAlone
<1>11. OneOwner'
  BY <1>1, <1>4 DEF Owned, OneOwner
<1>12. OwnedIsLive'
  <2>1. held' \subseteq Live'
    <3>1. a \notin held
      BY <1>5 DEF Owned, OneOwner
    <3>2. QED
      BY <1>1, <1>7, <3>1 DEF Owned, OwnedIsLive, Live
  <2>2. ASSUME NEW u \in Thread
        PROVE  /\ msg'[u].ptr # NULL => heap'[msg'[u].ptr] # NULL
               /\ msg'[u].code = "free" => heap'[msg'[u].free] # NULL
               /\ "calloc_many" \notin Env' /\ msg'[u].ptr # NULL => heap'[msg'[u].ptr] = msg'[u].size
    <3>1. CASE u = t
      BY <1>2, <1>3, <3>1
    <3>2. CASE u # t
      <4>1. msg'[u] = msg[u] /\ msg[u] \in MsgRecord
        BY <1>2, <3>2, ThreadMsgType DEF MsgType
      <4>2. msg[u].ptr # a /\ (msg[u].free # NULL => msg[u].free # a)
        BY <1>5, <1>8, <3>2, EnvAssumption DEF Claims
      <4>3. msg[u].ptr \in Addr \cup {NULL} /\ msg[u].free \in Addr \cup {NULL}
        BY <4>1 DEF MsgRecord
      <4>4. msg[u].code = "free" => msg[u].free # NULL
        BY DEF BuiltFormed, Formed
      <4>5. QED
        BY <1>7, <4>1, <4>2, <4>3, <4>4 DEF Owned, OwnedIsLive, Env
    <3>3. QED
      BY <3>1, <3>2
  <2>3. QED
    BY <2>1, <2>2 DEF OwnedIsLive
<1>13. QED
  BY <1>9, <1>10, <1>11, <1>12 DEF Owned

-----------------------------------------------------------------------------
(* What the server knows after one message more *)

\* Before any pending message the server knows what it lists.
LEMMA KnownAtStart ==
    ASSUME NEW ops, NEW str, NEW a, NEW s
    PROVE  Known(ops, str, 0, a, s) <=> ShownIn(ops, a, s)
BY DEF Known, Untouched

\* One more message leaves an earlier one untouched unless it releases the
\* address or restarts the list.
LEMMA UntouchedStep ==
    ASSUME NEW str, NEW a, NEW n \in Nat, NEW i \in 1..(n + 1)
    PROVE  Untouched(str, a, i, n + 1) <=>
                Untouched(str, a, i, n) /\ str[n + 1].code # "init" /\ str[n + 1].free # a
<1>1. i..(n + 1) = (i..n) \cup {n + 1}
  OBVIOUS
<1>2. QED
  BY <1>1 DEF Untouched

\* After one more message the server knows what it says, and what it knew and
\* the message does not undo.
LEMMA KnownStep ==
    ASSUME NEW ops, NEW str, NEW n \in Nat, NEW a, NEW s
    PROVE  Known(ops, str, n + 1, a, s) <=>
                \/ str[n + 1].ptr = a /\ str[n + 1].size = s
                \/ str[n + 1].code # "init" /\ str[n + 1].free # a /\ Known(ops, str, n, a, s)
<1> DEFINE hit(i) == str[i].ptr = a /\ str[i].size = s
           pass == str[n + 1].code # "init" /\ str[n + 1].free # a
<1>1. Untouched(str, a, 1, n + 1) <=> Untouched(str, a, 1, n) /\ pass
  BY UntouchedStep
<1>2. \A i \in 1..n : Untouched(str, a, i + 1, n + 1) <=> Untouched(str, a, i + 1, n) /\ pass
  <2>1. \A i \in 1..n : i + 1 \in 1..(n + 1)
    OBVIOUS
  <2>2. QED
    BY <2>1, UntouchedStep
<1>3. Untouched(str, a, n + 2, n + 1)
  <2>1. (n + 2)..(n + 1) = {}
    OBVIOUS
  <2>2. QED
    BY <2>1 DEF Untouched
<1>4. (n + 1) + 1 = n + 2 /\ 1..(n + 1) = (1..n) \cup {n + 1}
  OBVIOUS
<1> HIDE DEF hit, pass
<1>5. (\E i \in 1..(n + 1) : hit(i) /\ Untouched(str, a, i + 1, n + 1)) <=>
        hit(n + 1) \/ (pass /\ \E i \in 1..n : hit(i) /\ Untouched(str, a, i + 1, n))
  BY <1>2, <1>3, <1>4
<1>6. QED
  BY <1>1, <1>5 DEF Known, hit, pass

\* only the messages taken in matter
LEMMA KnownSame ==
    ASSUME NEW ops, NEW str, NEW new, NEW n \in Nat, \A i \in 1..n : new[i] = str[i], NEW a, NEW s
    PROVE  Known(ops, new, n, a, s) <=> Known(ops, str, n, a, s)
<1>1. \A i \in 1..(n + 1) : Untouched(new, a, i, n) <=> Untouched(str, a, i, n)
  <2>1. ASSUME NEW i \in 1..(n + 1), NEW j \in i..n PROVE j \in 1..n
    OBVIOUS
  <2>2. QED
    BY <2>1 DEF Untouched
<1>2. \A i \in 1..n : i + 1 \in 1..(n + 1)
  OBVIOUS
<1>3. 1 \in 1..(n + 1)
  OBVIOUS
<1>4. QED
  BY <1>1, <1>2, <1>3 DEF Known

\* taking in the first message moves it from the stream to the list
LEMMA KnownTail ==
    ASSUME NEW ops, NEW str, NEW newOps, NEW new, NEW n \in Nat, NEW a, NEW s,
           \A i \in 1..n : new[i] = str[i + 1],
           ShownIn(newOps, a, s) <=>
                \/ str[1].ptr = a /\ str[1].size = s
                \/ str[1].code # "init" /\ str[1].free # a /\ ShownIn(ops, a, s)
    PROVE  Known(newOps, new, n, a, s) <=> Known(ops, str, n + 1, a, s)
<1> DEFINE hit(st, i) == st[i].ptr = a /\ st[i].size = s
           pass == str[1].code # "init" /\ str[1].free # a
<1>1. \A i \in 1..(n + 1) : Untouched(new, a, i, n) <=> Untouched(str, a, i + 1, n + 1)
  <2>1. SUFFICES ASSUME NEW i \in 1..(n + 1)
                 PROVE  Untouched(new, a, i, n) <=> Untouched(str, a, i + 1, n + 1)
    OBVIOUS
  <2>2. ASSUME Untouched(new, a, i, n) PROVE Untouched(str, a, i + 1, n + 1)
    <3>1. SUFFICES ASSUME NEW j \in (i + 1)..(n + 1) PROVE str[j].code # "init" /\ str[j].free # a
      BY DEF Untouched
    <3>2. j - 1 \in i..n /\ j - 1 \in 1..n /\ (j - 1) + 1 = j
      OBVIOUS
    <3>3. new[j - 1] = str[j]
      BY <3>2
    <3>4. QED
      BY <2>2, <3>2, <3>3 DEF Untouched
  <2>3. ASSUME Untouched(str, a, i + 1, n + 1) PROVE Untouched(new, a, i, n)
    <3>1. SUFFICES ASSUME NEW j \in i..n PROVE new[j].code # "init" /\ new[j].free # a
      BY DEF Untouched
    <3>2. j + 1 \in (i + 1)..(n + 1) /\ j \in 1..n
      OBVIOUS
    <3>3. new[j] = str[j + 1]
      BY <3>2
    <3>4. QED
      BY <2>3, <3>2, <3>3 DEF Untouched
  <2>4. QED
    BY <2>2, <2>3
<1>2. Untouched(str, a, 1, n + 1) <=> pass /\ Untouched(str, a, 2, n + 1)
  <2>1. 1..(n + 1) = {1} \cup (2..(n + 1))
    OBVIOUS
  <2>2. QED
    BY <2>1 DEF Untouched
<1>3. Untouched(new, a, 1, n) <=> Untouched(str, a, 2, n + 1)
  <2>1. 1 \in 1..(n + 1) /\ 1 + 1 = 2
    OBVIOUS
  <2>2. QED
    BY <1>1, <2>1
<1>4. (\E i \in 1..(n + 1) : hit(str, i) /\ Untouched(str, a, i + 1, n + 1)) <=>
        \/ hit(str, 1) /\ Untouched(str, a, 2, n + 1)
        \/ \E i \in 1..n : hit(new, i) /\ Untouched(new, a, i + 1, n)
  <2>1. \A i \in 1..n : hit(new, i) <=> hit(str, i + 1)
    OBVIOUS
  <2>2. \A i \in 1..n : Untouched(new, a, i + 1, n) <=> Untouched(str, a, (i + 1) + 1, n + 1)
    <3>1. \A i \in 1..n : i + 1 \in 1..(n + 1)
      OBVIOUS
    <3>2. QED
      BY <1>1, <3>1
  <2>3. 1 \in 1..(n + 1) /\ (\A i \in 1..n : i + 1 \in 1..(n + 1)) /\ 1 + 1 = 2
        /\ \A i \in 1..(n + 1) : i = 1 \/ (i - 1 \in 1..n /\ (i - 1) + 1 = i)
    OBVIOUS
  <2> HIDE DEF hit
  <2>4. QED
    BY <2>1, <2>2, <2>3
<1>5. Known(newOps, new, n, a, s) <=>
        \/ ShownIn(newOps, a, s) /\ Untouched(new, a, 1, n)
        \/ \E i \in 1..n : hit(new, i) /\ Untouched(new, a, i + 1, n)
  BY DEF Known
<1>6. Known(ops, str, n + 1, a, s) <=>
        \/ ShownIn(ops, a, s) /\ Untouched(str, a, 1, n + 1)
        \/ \E i \in 1..(n + 1) : hit(str, i) /\ Untouched(str, a, i + 1, n + 1)
  BY DEF Known
<1>7. ShownIn(newOps, a, s) <=> hit(str, 1) \/ (pass /\ ShownIn(ops, a, s))
  OBVIOUS
<1> HIDE DEF hit, pass
<1>8. QED
  BY <1>2, <1>3, <1>4, <1>5, <1>6, <1>7

-----------------------------------------------------------------------------
(* The steps of the library *)

\* a step that sends nothing
LEMMA SilentStep ==
    ASSUME ServerKnows, UNCHANGED <<scenario, stream, listVars>>,
           \A a \in Addr : Expected(a)' <=> Expected(a),
           \A a \in Addr : Expected(a) /\ ~GivenUp(a)' => ~GivenUp(a) /\ heap'[a] = heap[a]
    PROVE  ServerKnows'
<1>1. UNCHANGED <<stream, m_listMemoryOperation, m_listMemoryOperationNonFreed>>
  BY DEF listVars
<1>2. \A n, a, s : WillKnow(n, a, s)' <=> WillKnow(n, a, s)
  BY <1>1 DEF WillKnow
<1>3. ReportedInOrder'
  BY <1>1, <1>2 DEF ServerKnows, ReportedInOrder, InOrder
<1>4. EndIsHeap'
  BY <1>1, <1>2 DEF ServerKnows, EndIsHeap
<1>5. EndSizes'
  BY <1>1, <1>2 DEF ServerKnows, EndSizes, EndIsHeap, Env
<1>6. ShownOnce'
  BY <1>1 DEF ServerKnows, ShownOnce, Shown, op
<1>7. QED
  BY <1>3, <1>4, <1>5, <1>6 DEF ServerKnows

\* a step that sends the message m
LEMMA SendingStep ==
    ASSUME LibType, ServerKnows, UNCHANGED <<scenario, listVars>>, NEW m \in MsgType, stream' = Append(stream, m),
           InOrder(m, Len(stream)),
           \A a \in Addr : Expected(a)' <=> \/ m.ptr = a
                                            \/ m.code # "init" /\ m.free # a /\ Expected(a),
           \A a \in Addr : m.ptr = a /\ "calloc_many" \notin Env => heap'[a] = m.size,
           \A a \in Addr : m.free # a /\ GivenUp(a) => GivenUp(a)',
           UNCHANGED heap
    PROVE  ServerKnows'
<1> DEFINE N == Len(stream)
           ops == m_listMemoryOperation
<1>1. m_listMemoryOperation' = ops /\ m_listMemoryOperationNonFreed' = m_listMemoryOperationNonFreed
  BY DEF listVars
<1>2. N \in Nat /\ Len(stream') = N + 1 /\ (\A i \in 1..N : stream'[i] = stream[i]) /\ stream'[N + 1] = m
  BY LenProperties, AppendProperties DEF LibType
<1> HIDE DEF N
<1>3. ASSUME NEW n \in 0..N, NEW a, NEW s
      PROVE  Known(ops, stream', n, a, s) <=> Known(ops, stream, n, a, s)
  <2>1. n \in Nat /\ \A i \in 1..n : stream'[i] = stream[i]
    BY <1>2
  <2>2. QED
    BY <2>1, KnownSame
<1>4. ASSUME NEW a, NEW s
      PROVE  Known(ops, stream', N + 1, a, s) <=>
                \/ m.ptr = a /\ m.size = s
                \/ m.code # "init" /\ m.free # a /\ Known(ops, stream, N, a, s)
  <2>1. \A str : Known(ops, str, N + 1, a, s) <=>
            \/ str[N + 1].ptr = a /\ str[N + 1].size = s
            \/ str[N + 1].code # "init" /\ str[N + 1].free # a /\ Known(ops, str, N, a, s)
    BY <1>2, KnownStep
  <2>2. Known(ops, stream', N, a, s) <=> Known(ops, stream, N, a, s)
    BY <1>2, <1>3
  <2>3. QED
    BY ONLY <1>2, <2>1, <2>2
<1>5. m.size \in Nat
  BY DEF MsgType, MsgRecord
<1>6. ReportedInOrder'
  <2>1. SUFFICES ASSUME NEW n \in 0..N
                 PROVE  stream'[n + 1].code # "init" =>
                            /\ stream'[n + 1].free # NULL =>
                                    \E s \in Nat : Known(ops, stream', n, stream'[n + 1].free, s)
                            /\ stream'[n + 1].ptr # NULL =>
                                    \A s \in Nat : Known(ops, stream', n, stream'[n + 1].ptr, s) =>
                                                    stream'[n + 1].ptr = stream'[n + 1].free
    <3>1. Len(stream') - 1 = N
      BY <1>2
    <3>2. QED
      BY <1>1, <3>1 DEF ReportedInOrder, InOrder, WillKnow
  <2>2. CASE n = N
    BY <1>2, <1>3, <2>2 DEF InOrder, WillKnow, N
  <2>3. CASE n # N
    <3>1. n \in 0..(N - 1) /\ n + 1 \in 1..N
      BY <1>2, <2>3
    <3>2. InOrder(stream[n + 1], n)
      BY <3>1 DEF ServerKnows, ReportedInOrder, N
    <3>3. QED
      BY <1>2, <1>3, <3>1, <3>2 DEF InOrder, WillKnow
  <2>4. QED
    BY <2>2, <2>3
<1>7. EndIsHeap'
  <2>1. SUFFICES ASSUME NEW a \in Addr
                 PROVE  (\E s \in Nat : Known(ops, stream', N + 1, a, s)) <=> Expected(a)'
    BY <1>1, <1>2 DEF EndIsHeap, WillKnow
  <2>2. (\E s \in Nat : Known(ops, stream, N, a, s)) <=> Expected(a)
    BY DEF ServerKnows, EndIsHeap, WillKnow, N
  <2>3. (\E s \in Nat : Known(ops, stream', N + 1, a, s)) <=>
            \/ m.ptr = a
            \/ m.code # "init" /\ m.free # a /\ \E s \in Nat : Known(ops, stream, N, a, s)
    BY <1>4, <1>5
  <2>4. QED
    BY <2>2, <2>3
<1>8. EndSizes'
  <2>1. SUFFICES ASSUME "calloc_many" \notin Env, NEW a \in Addr, NEW s \in Nat,
                        Known(ops, stream', N + 1, a, s), ~GivenUp(a)'
                 PROVE  heap'[a] = s
    BY <1>1, <1>2 DEF EndSizes, Env, WillKnow
  <2>2. CASE m.ptr = a /\ m.size = s
    BY <2>1, <2>2
  <2>3. CASE m.free # a /\ Known(ops, stream, N, a, s)
    BY <2>1, <2>3 DEF ServerKnows, EndSizes, WillKnow, N
  <2>4. QED
    BY <1>4, <2>1, <2>2, <2>3
<1>9. ShownOnce'
  BY <1>1 DEF ServerKnows, ShownOnce, Shown, op
<1>10. QED
  BY <1>6, <1>7, <1>8, <1>9 DEF ServerKnows

\* An allocation changes nothing of what the server knows of the other threads' blocks.
LEMMA AllocKnown ==
    ASSUME LibType, BuiltFormed, Owned, ServerKnows, Misreported = {},
           UNCHANGED <<scenario, listVars>>, NEW t \in Thread,
           NEW code \in AllocCode, NEW a \in Addr, NEW size \in Nat, NEW num \in {1, 2},
           Alloc(t, code, a, size, num)
    PROVE  ServerKnows'
<1> DEFINE m == Msg(t, code, a, size, NULL)
<1>1. /\ pc[t] = "idle" /\ Allowed(t) /\ heap[a] = NULL /\ UNCHANGED stream
      /\ heap' = [heap EXCEPT ![a] = num * size] /\ Goto(t, "stamp", m)
  BY DEF Alloc, Ready
<1>2. /\ pc'[t] = "stamp" /\ msg'[t] = m
      /\ \A u \in Thread \ {t} : pc'[u] = pc[u] /\ msg'[u] = msg[u]
  BY <1>1, GotoFacts
<1>3. m.code = code /\ m.ptr = a /\ m.free = NULL /\ code # "realloc" /\ code # "free" /\ a # NULL
  BY CodesDiffer, EnvAssumption DEF Msg
<1> HIDE DEF m
<1>4. \A u \in Thread : msg[u].code # "realloc"
  BY <1>1, NoneReallocating DEF Owned
<1>5. \A b : ~GivenUp(b) /\ ~GivenUp(b)'
  BY <1>2, <1>3, <1>4 DEF GivenUp
<1>6. ~Expected(a) /\ ~Expected(a)'
  BY <1>1, <1>2, <1>3, <1>5 DEF Expected, Unsent
<1>7. ASSUME NEW b \in Addr, b # a
      PROVE  (Expected(b)' <=> Expected(b)) /\ heap'[b] = heap[b]
  <2>1. heap'[b] = heap[b]
    BY <1>1, <1>7 DEF LibType
  <2>2. Unsent(b)' <=> Unsent(b)
    BY <1>1, <1>2, <1>3, <1>7 DEF Unsent
  <2>3. FreeSent(b)' <=> FreeSent(b)
    BY <1>1, <1>2, <1>3 DEF FreeSent
  <2>4. QED
    BY <1>5, <2>1, <2>2, <2>3 DEF Expected
<1>8. QED
  BY <1>1, <1>5, <1>6, <1>7, SilentStep

\* A realloc changes nothing of what the server knows of the heap.
LEMMA ReallocKnown ==
    ASSUME LibType, BuiltFormed, Owned, ServerKnows, Misreported = {},
           UNCHANGED <<scenario, listVars>>, NEW t \in Thread,
           NEW ptr \in held \cup {NULL}, NEW a \in Addr, NEW size \in Nat,
           Realloc(t, ptr, a, size)
    PROVE  ServerKnows'
<1> DEFINE m == Msg(t, "realloc", a, size, ptr)
<1>1. /\ pc[t] = "idle" /\ Alone(t) /\ (a = ptr \/ heap[a] = NULL) /\ UNCHANGED stream
      /\ heap' = [b \in Addr |-> IF b = a THEN size ELSE IF b = ptr THEN NULL ELSE heap[b]]
      /\ Goto(t, "stamp", m)
  BY DEF Realloc, Ready, Misreported
<1>2. /\ pc'[t] = "stamp" /\ msg'[t] = m
      /\ \A u \in Thread \ {t} : pc'[u] = pc[u] /\ msg'[u] = msg[u]
  BY <1>1, GotoFacts
<1>3. m.code = "realloc" /\ m.ptr = a /\ m.free = ptr /\ a # NULL
  BY EnvAssumption DEF Msg
<1> HIDE DEF m
<1>4. \A u \in Thread : pc[u] = "idle"
  BY <1>1, AllIdle DEF Owned
<1>5. \A b : ~Unsent(b) /\ ~FreeSent(b) /\ ~GivenUp(b)
  BY <1>4 DEF Unsent, FreeSent, GivenUp
<1>6. \A b : (Unsent(b)' <=> b = a) /\ ~FreeSent(b)' /\ (GivenUp(b)' <=> b = ptr)
  BY <1>2, <1>3, <1>4 DEF Unsent, FreeSent, GivenUp
<1>7. ptr # NULL => heap[ptr] # NULL
  BY DEF Owned, OwnedIsLive, Live
<1>8. ASSUME NEW b \in Addr
      PROVE  /\ Expected(b)' <=> Expected(b)
             /\ Expected(b) /\ ~GivenUp(b)' => heap'[b] = heap[b]
  BY <1>1, <1>5, <1>6, <1>7, EnvAssumption DEF Expected
<1>9. QED
  BY <1>1, <1>5, <1>8, SilentStep

\* a call that allocates nothing, or the next step of one
LEMMA QuietStep ==
    ASSUME LibType, ServerKnows, UNCHANGED <<scenario, heap, stream, listVars>>, NEW t \in Thread,
           NEW m, NEW step, Goto(t, step, m),
           \/ pc[t] = "idle" /\ step = "stamp" /\ m.ptr = NULL /\ m.code # "realloc"
           \/ /\ Alike(m, msg[t])
              /\ (pc[t] \in {"stamp", "send"} /\ step \in {"stamp", "send"})
                   \/ (pc[t] \in {"stamp_bt", "send_bt"} /\ step \in {"stamp_bt", "send_bt"})
    PROVE  ServerKnows'
<1>1. /\ pc'[t] = step /\ msg'[t] = m
      /\ \A u \in Thread \ {t} : pc'[u] = pc[u] /\ msg'[u] = msg[u]
  BY GotoFacts
<1>2. ASSUME NEW b \in Addr
      PROVE  (Unsent(b)' <=> Unsent(b)) /\ (FreeSent(b)' <=> FreeSent(b)) /\ (GivenUp(b)' <=> GivenUp(b))
  <2>1. b # NULL
    BY EnvAssumption
  <2>2. Unsent(b)' <=> Unsent(b)
    BY <1>1, <2>1 DEF Unsent, Alike
  <2>3. FreeSent(b)' <=> FreeSent(b)
    BY <1>1, <2>1 DEF FreeSent, Alike
  <2>4. GivenUp(b)' <=> GivenUp(b)
    BY <1>1, <2>1 DEF GivenUp, Alike
  <2>5. QED
    BY <2>2, <2>3, <2>4
<1>3. QED
  BY <1>2, SilentStep DEF Expected
\* what is left of a wrapper after it sent its message
LEMMA AfterSend ==
    ASSUME LibType, NEW t \in Thread,
           \/ \E m : Alike(m, msg[t]) /\ Goto(t, "stamp_bt", m)
           \/ Finish(t, msg[t])
    PROVE  /\ pc'[t] \in {"stamp_bt", "real_free", "idle"}
           /\ pc'[t] # "idle" => Alike(msg'[t], msg[t])
           /\ pc'[t] = "idle" => msg'[t] = NoMsg /\ msg[t].code # "free"
           /\ \A u \in Thread \ {t} : pc'[u] = pc[u] /\ msg'[u] = msg[u]
<1>1. CASE \E m : Alike(m, msg[t]) /\ Goto(t, "stamp_bt", m)
  BY <1>1, GotoFacts
<1>2. CASE Finish(t, msg[t])
  <2>1. CASE msg[t].code = "free"
    <3>1. Goto(t, "real_free", msg[t])
      BY <1>2, <2>1 DEF Finish
    <3>2. QED
      BY <2>1, <3>1, GotoFacts DEF Alike
  <2>2. CASE msg[t].code # "free"
    <3>1. Goto(t, "idle", NoMsg)
      BY <1>2, <2>2 DEF Finish, Return
    <3>2. QED
      BY <2>2, <3>1, GotoFacts
  <2>3. QED
    BY <2>1, <2>2
<1>3. QED
  BY <1>1, <1>2

\* A report that is sent makes the server know the block it is about.
LEMMA SendKnown ==
    ASSUME LibType, BuiltFormed, Owned, ServerKnows,
           UNCHANGED <<scenario, listVars>>, NEW t \in Thread, Send(t)
    PROVE  ServerKnows'
<1> DEFINE k == msg[t]
<1>1. pc[t] = "send" /\ stream' = Append(stream, k) /\ UNCHANGED heap
  BY DEF Send
<1>2. k \in MsgType /\ k \in MsgRecord /\ Formed(k)
  BY ThreadMsgType DEF BuiltFormed, MsgType
<1>3. \/ \E m : Alike(m, msg[t]) /\ Goto(t, "stamp_bt", m)
      \/ Finish(t, msg[t])
  <2>1. Alike([msg[t] EXCEPT !.origin = msg[t].num], msg[t])
    BY <1>2 DEF Alike, MsgRecord
  <2>2. QED
    BY <2>1 DEF Send
<1>4. /\ pc'[t] \in {"stamp_bt", "real_free", "idle"}
      /\ pc'[t] # "idle" => Alike(msg'[t], k)
      /\ pc'[t] = "idle" => msg'[t] = NoMsg /\ k.code # "free"
      /\ \A u \in Thread \ {t} : pc'[u] = pc[u] /\ msg'[u] = msg[u]
  BY <1>3, AfterSend
<1>5. /\ k.ptr \in Addr \cup {NULL} /\ k.free \in Addr \cup {NULL} /\ k.code # "init"
      /\ NULL \notin Addr
  BY <1>1, <1>2, EnvAssumption DEF MsgRecord, Owned, InWrapper
<1>6. /\ \A u \in Thread : msg[u].code = "realloc" => u = t
      /\ k.code = "realloc" => k.free = NULL \/ k.free = k.ptr \/ heap[k.free] = NULL
  BY <1>1 DEF Owned, ReallocIsAlone, Alone
<1>7. \A u \in Thread \ {t} : \A b \in Addr : b \in {k.ptr, k.free} => b # msg[u].ptr /\ b # msg[u].free
  BY <1>5 DEF Owned, OneOwner, Claims
<1>8. /\ k.ptr # NULL => heap[k.ptr] # NULL
      /\ k.code = "free" => heap[k.free] # NULL
      /\ "calloc_many" \notin Env /\ k.ptr # NULL => heap[k.ptr] = k.size
  BY DEF Owned, OwnedIsLive
<1>9. /\ k.code = "free" => k.ptr = NULL /\ k.free # NULL
      /\ k.free # NULL => k.code = "free" \/ k.code = "realloc"
  BY <1>2, FreesWhat DEF Formed
<1> HIDE DEF k
<1>10. \A b : (GivenUp(b) <=> k.code = "realloc" /\ k.free = b) /\ ~GivenUp(b)'
  BY <1>1, <1>4, <1>6 DEF GivenUp, k
<1>11. \A b \in Addr : Unsent(b)' <=> Unsent(b) /\ b # k.ptr
  BY <1>1, <1>4, <1>7 DEF Unsent, k
<1>12. \A b \in Addr : FreeSent(b)' <=> FreeSent(b) \/ (k.code = "free" /\ k.free = b)
  <2>1. ASSUME NEW b \in Addr, FreeSent(b)'
        PROVE  FreeSent(b) \/ (k.code = "free" /\ k.free = b)
    BY <1>4, <2>1 DEF FreeSent, Alike, k
  <2>2. ASSUME NEW b \in Addr, FreeSent(b)
        PROVE  FreeSent(b)'
    BY <1>1, <1>4, <2>2 DEF FreeSent
  <2>3. ASSUME NEW b \in Addr, k.code = "free", k.free = b
        PROVE  FreeSent(b)'
    BY <1>4, <2>3 DEF FreeSent, Alike, k
  <2>4. QED
    BY <2>1, <2>2, <2>3
<1>13. \A b \in Addr : b = k.ptr => Unsent(b)
  BY <1>1 DEF Unsent, k
<1>14. \A b \in Addr : b \in {k.ptr, k.free} => ~FreeSent(b)
  BY <1>1, <1>7 DEF FreeSent
<1>15. \A b \in Addr : b = k.free /\ b # k.ptr => ~Unsent(b)
  BY <1>1, <1>7 DEF Unsent, k
<1>16. ASSUME NEW a \in Addr
       PROVE  Expected(a)' <=> \/ k.ptr = a
                               \/ k.code # "init" /\ k.free # a /\ Expected(a)
  <2>1. CASE k.ptr = a
    BY <1>1, <1>5, <1>8, <1>9, <1>10, <1>11, <1>12, <1>14, <2>1 DEF Expected
  <2>2. CASE k.ptr # a
    BY <1>1, <1>5, <1>6, <1>9, <1>10, <1>11, <1>12, <2>2 DEF Expected
  <2>3. QED
    BY <2>1, <2>2
<1>17. InOrder(k, Len(stream))
  <2>1. k.free # NULL => Expected(k.free)
    BY <1>5, <1>8, <1>9, <1>10, <1>14, <1>15 DEF Expected
  <2>2. k.ptr # NULL /\ Expected(k.ptr) => k.ptr = k.free
    BY <1>5, <1>10, <1>13 DEF Expected
  <2>3. \A a \in Addr : (\E s \in Nat : WillKnow(Len(stream), a, s)) <=> Expected(a)
    BY DEF ServerKnows, EndIsHeap
  <2>4. QED
    BY <1>5, <2>1, <2>2, <2>3 DEF InOrder
<1>18. \A a \in Addr : k.ptr = a /\ "calloc_many" \notin Env => heap'[a] = k.size
  BY <1>1, <1>5, <1>8
<1>19. \A a \in Addr : k.free # a /\ GivenUp(a) => GivenUp(a)'
  BY <1>10
<1>20. QED
  BY <1>1, <1>2, <1>16, <1>17, <1>18, <1>19, SendingStep

\* A backtrace that is sent changes nothing of it.
LEMMA SendBacktraceKnown ==
    ASSUME LibType, BuiltFormed, Owned, ServerKnows,
           UNCHANGED <<scenario, listVars>>, NEW t \in Thread, SendBacktraceMsg(t)
    PROVE  ServerKnows'
<1> DEFINE m == [Msg(t, "backtrace", NULL, 0, NULL)
                    EXCEPT !.num = msg[t].num, !.time = msg[t].time, !.origin = msg[t].origin]
<1>1. pc[t] = "send_bt" /\ stream' = Append(stream, m) /\ UNCHANGED heap /\ Finish(t, msg[t])
  BY DEF SendBacktraceMsg
<1>2. m \in MsgType
  BY ThreadMsgType DEF SendBacktraceMsg
<1>3. m.code = "backtrace" /\ m.ptr = NULL /\ m.free = NULL
  BY DEF Msg
<1> HIDE DEF m
<1>4. /\ pc'[t] \in {"stamp_bt", "real_free", "idle"}
      /\ pc'[t] # "idle" => Alike(msg'[t], msg[t])
      /\ pc'[t] = "idle" => msg'[t] = NoMsg /\ msg[t].code # "free"
      /\ \A u \in Thread \ {t} : pc'[u] = pc[u] /\ msg'[u] = msg[u]
  BY <1>1, AfterSend
<1>5. \A b \in Addr : Unsent(b)' <=> Unsent(b)
  BY <1>1, <1>4 DEF Unsent
<1>6. \A b \in Addr : GivenUp(b)' <=> GivenUp(b)
  BY <1>1, <1>4 DEF GivenUp
<1>7. \A b \in Addr : FreeSent(b)' <=> FreeSent(b)
  <2>1. ASSUME NEW b \in Addr, FreeSent(b)' PROVE FreeSent(b)
    BY <1>1, <1>4, <2>1 DEF FreeSent, Alike
  <2>2. ASSUME NEW b \in Addr, FreeSent(b) PROVE FreeSent(b)'
    <3>1. msg[t].code = "free" => pc'[t] = "real_free"
      BY <1>1, GotoFacts DEF Finish
    <3>2. PICK u \in Thread : /\ pc[u] \in {"stamp_bt", "send_bt", "real_free"}
                              /\ msg[u].code = "free" /\ msg[u].free = b
      BY <2>2 DEF FreeSent
    <3>3. pc'[u] \in {"stamp_bt", "send_bt", "real_free"} /\ msg'[u].code = "free" /\ msg'[u].free = b
      BY <1>4, <3>1, <3>2 DEF Alike
    <3>4. QED
      BY <3>3 DEF FreeSent
  <2>3. QED
    BY <2>1, <2>2
<1>8. \A a \in Addr : Expected(a)' <=> Expected(a)
  BY <1>1, <1>5, <1>6, <1>7 DEF Expected
<1>9. NULL \notin Addr
  BY EnvAssumption
<1>10. InOrder(m, Len(stream))
  BY <1>3 DEF InOrder
<1>11. QED
  BY <1>1, <1>2, <1>3, <1>6, <1>8, <1>9, <1>10, SendingStep
\* The real free comes when the server knows of it already.
LEMMA RealFreeKnown ==
    ASSUME LibType, BuiltFormed, Owned, ServerKnows,
           UNCHANGED <<scenario, listVars>>, NEW t \in Thread, RealFree(t)
    PROVE  ServerKnows'
<1> DEFINE f == msg[t].free
<1>1. /\ pc[t] = "real_free" /\ msg[t].code = "free" /\ UNCHANGED stream
      /\ heap' = [heap EXCEPT ![f] = NULL] /\ Goto(t, "idle", NoMsg)
  BY DEF RealFree, Owned, InWrapper
<1>2. /\ pc'[t] = "idle" /\ msg'[t] = NoMsg
      /\ \A u \in Thread \ {t} : pc'[u] = pc[u] /\ msg'[u] = msg[u]
  BY <1>1, GotoFacts
<1>3. \A u \in Thread : msg[u].code # "realloc"
  BY <1>1 DEF Owned, ReallocIsAlone, Alone
<1>4. \A b : ~GivenUp(b) /\ ~GivenUp(b)'
  BY <1>2, <1>3 DEF GivenUp
<1>5. \A b : Unsent(b)' <=> Unsent(b)
  BY <1>1, <1>2 DEF Unsent
<1>6. \A b : b # f => (FreeSent(b)' <=> FreeSent(b))
  BY <1>1, <1>2 DEF FreeSent
<1>7. FreeSent(f)
  BY <1>1 DEF FreeSent
<1>8. \A b \in Addr : heap'[b] = IF b = f THEN NULL ELSE heap[b]
  BY <1>1 DEF LibType
<1>9. ASSUME NEW a \in Addr
      PROVE  /\ Expected(a)' <=> Expected(a)
             /\ Expected(a) /\ ~GivenUp(a)' => ~GivenUp(a) /\ heap'[a] = heap[a]
  BY <1>4, <1>5, <1>6, <1>7, <1>8 DEF Expected
<1>10. QED
  BY <1>1, <1>9, SilentStep

\* the next process starts with nothing, and its first message makes the server forget
LEMMA RestartKnown ==
    ASSUME LibType, ServerKnows, UNCHANGED <<scenario, listVars>>, Restart
    PROVE  ServerKnows'
<1> DEFINE ops == m_listMemoryOperation
<1>1. m_listMemoryOperation' = ops /\ m_listMemoryOperationNonFreed' = m_listMemoryOperationNonFreed
  BY DEF listVars
<1>2. PICK k \in 0..Len(stream) :
        /\ Len(stream') = k + 1
        /\ \A i \in 1..k : stream'[i] = stream[i]
        /\ stream'[k + 1] = AppMsg
  BY RestartStream
<1>3. Len(stream) \in Nat /\ k \in Nat
  BY LenProperties DEF LibType
<1>4. AppMsg.code = "init" /\ AppMsg.ptr = NULL
  BY DEF AppMsg, NoMsg, Msg
<1>5. ASSUME NEW n \in 0..k, NEW a, NEW s
      PROVE  Known(ops, stream', n, a, s) <=> Known(ops, stream, n, a, s)
  <2>1. n \in Nat /\ \A i \in 1..n : stream'[i] = stream[i]
    BY <1>2, <1>3
  <2>2. QED
    BY <2>1, KnownSame
<1>6. ASSUME NEW a \in Addr, NEW s
      PROVE  ~Known(ops, stream', k + 1, a, s)
  <2>1. \A str : Known(ops, str, k + 1, a, s) <=>
            \/ str[k + 1].ptr = a /\ str[k + 1].size = s
            \/ str[k + 1].code # "init" /\ str[k + 1].free # a /\ Known(ops, str, k, a, s)
    BY <1>3, KnownStep
  <2>2. a # NULL
    BY EnvAssumption
  <2>3. QED
    BY <1>2, <1>4, <2>1, <2>2
<1>7. \A a \in Addr : ~Expected(a)'
  BY DEF Restart, Expected, GivenUp
<1>8. ReportedInOrder'
  <2>1. SUFFICES ASSUME NEW n \in 0..k
                 PROVE  stream'[n + 1].code # "init" =>
                            /\ stream'[n + 1].free # NULL =>
                                    \E s \in Nat : Known(ops, stream', n, stream'[n + 1].free, s)
                            /\ stream'[n + 1].ptr # NULL =>
                                    \A s \in Nat : Known(ops, stream', n, stream'[n + 1].ptr, s) =>
                                                    stream'[n + 1].ptr = stream'[n + 1].free
    <3>1. Len(stream') - 1 = k
      BY <1>2, <1>3
    <3>2. QED
      BY <1>1, <3>1 DEF ReportedInOrder, InOrder, WillKnow
  <2>2. CASE n = k
    BY <1>2, <1>4, <2>2
  <2>3. CASE n # k
    <3>1. n \in 0..(Len(stream) - 1) /\ n + 1 \in 1..k
      BY <1>3, <2>3
    <3>2. InOrder(stream[n + 1], n)
      BY <3>1 DEF ServerKnows, ReportedInOrder
    <3>3. QED
      BY <1>2, <1>5, <3>1, <3>2 DEF InOrder, WillKnow
  <2>4. QED
    BY <2>2, <2>3
<1>9. EndIsHeap'
  BY <1>1, <1>2, <1>6, <1>7 DEF EndIsHeap, WillKnow
<1>10. EndSizes'
  BY <1>1, <1>2, <1>6 DEF EndSizes, WillKnow
<1>11. ShownOnce'
  BY <1>1 DEF ServerKnows, ShownOnce, Shown, op
<1>12. QED
  BY <1>8, <1>9, <1>10, <1>11 DEF ServerKnows

\* what the threads call
LEMMA CallReport ==
    ASSUME LibType, BuiltFormed, Owned, ServerKnows, Misreported = {},
           UNCHANGED <<scenario, listVars>>, NEW t \in Thread, Call(t)
    PROVE  Owned' /\ ServerKnows'
<1> DEFINE new(u) == [Msg(t, "pthread_create", NULL, 0, NULL) EXCEPT !.tid = u, !.born = g_iMsgNum]
           same(code, u) == [Msg(t, code, NULL, 0, NULL) EXCEPT !.tid = u]
<1>1. UNCHANGED scenario
  OBVIOUS
<1>2. ASSUME NEW code \in scenario.codes, NEW a \in Addr, NEW size \in scenario.sizes, NEW num \in {1, 2},
             Alloc(t, code, a, size, num)
      PROVE  Owned' /\ ServerKnows'
  <2>1. code \in AllocCode /\ size \in Nat
    BY EnvAssumption DEF LibType
  <2>2. QED
    BY <1>1, <1>2, <2>1, AllocOwned, AllocKnown
<1>3. ASSUME NEW ptr \in held \cup {NULL}, NEW a \in Addr, NEW size \in scenario.sizes,
             Realloc(t, ptr, a, size)
      PROVE  Owned' /\ ServerKnows'
  <2>1. size \in Nat
    BY EnvAssumption DEF LibType
  <2>2. QED
    BY <1>1, <1>3, <2>1, ReallocOwned, ReallocKnown
<1>4. ASSUME NEW ptr \in held PROVE ~ReallocZero(t, ptr)
  BY DEF ReallocZero, Misreported
<1>5. ASSUME NEW ptr \in held, Free(t, ptr)
      PROVE  Owned' /\ ServerKnows'
  <2> DEFINE m == Msg(t, "free", NULL, 0, ptr)
  <2>1. Owned'
    BY <1>1, <1>5, FreeOwned
  <2>2. pc[t] = "idle" /\ Goto(t, "stamp", m) /\ UNCHANGED <<heap, stream>>
    BY <1>5 DEF Free, Ready
  <2>3. m.ptr = NULL /\ m.code # "realloc"
    BY DEF Msg
  <2> HIDE DEF m
  <2>4. ServerKnows'
    BY <2>2, <2>3, QuietStep
  <2>5. QED
    BY <2>1, <2>4
<1>6. ASSUME NEW m, m.code \in ThreadCode, m.ptr = NULL, m.free = NULL, Goto(t, "stamp", m),
             pc[t] = "idle", Allowed(t), UNCHANGED <<heap, held, stream>>
      PROVE  Owned' /\ ServerKnows'
  <2>1. Owned'
    BY <1>6, ThreadCallOwned
  <2>2. m.code # "realloc"
    BY <1>6 DEF ThreadCode
  <2>3. ServerKnows'
    BY <1>6, <2>2, QuietStep
  <2>4. QED
    BY <2>1, <2>3
<1>7. \A u \in Thread :
        /\ new(u).code = "pthread_create" /\ new(u).ptr = NULL /\ new(u).free = NULL
        /\ \A code : same(code, u).code = code /\ same(code, u).ptr = NULL /\ same(code, u).free = NULL
  BY DEF Msg
<1>8. "pthread_create" \in ThreadCode /\ "pthread_set_name" \in ThreadCode
  BY DEF ThreadCode
<1>9. ASSUME NEW u \in Thread, ThreadCreate(t, u) \/ CreateFails(t, u) \/ SetName(t, u)
      PROVE  Owned' /\ ServerKnows'
  <2>1. /\ pc[t] = "idle" /\ Allowed(t) /\ UNCHANGED <<heap, held, stream>>
        /\ \/ Goto(t, "stamp", new(u))
           \/ Goto(t, "stamp", same("pthread_create", u))
           \/ Goto(t, "stamp", same("pthread_set_name", u))
    BY <1>9 DEF ThreadCreate, CreateFails, SetName, Ready
  <2> HIDE DEF new, same
  <2>2. QED
    BY <1>6, <1>7, <1>8, <2>1
<1>10. QED
  BY <1>2, <1>3, <1>4, <1>5, <1>9 DEF Call, AllocAny

\* what they report
LEMMA FinishOwned ==
    ASSUME LibType, BuiltFormed, Owned, UNCHANGED <<scenario, heap>>, NEW t \in Thread,
           pc[t] # "idle", Finish(t, msg[t])
    PROVE  Owned'
<1>1. CASE msg[t].code = "free"
  <2>1. Goto(t, "real_free", msg[t]) /\ UNCHANGED held
    BY <1>1 DEF Finish
  <2>2. Alike(msg[t], msg[t])
    BY DEF Alike
  <2>3. QED
    BY <1>1, <2>1, <2>2, GoOnOwned
<1>2. CASE msg[t].code # "free"
  BY <1>2, ReturnOwned DEF Finish
<1>3. QED
  BY <1>1, <1>2

\* Every step of a report keeps the owners and what the server knows.
LEMMA ReportReport ==
    ASSUME LibType, BuiltFormed, Owned, ServerKnows,
           UNCHANGED <<scenario, listVars>>, NEW t \in Thread, Report(t)
    PROVE  Owned' /\ ServerKnows'
<1>1. UNCHANGED scenario
  OBVIOUS
<1>2. msg[t] \in MsgRecord
  BY ThreadMsgType DEF MsgType
<1>3. CASE Stamp(t)
  <2> DEFINE m == [msg[t] EXCEPT !.num = g_iMsgNum + 1, !.time = now]
             step == IF pc[t] = "stamp" THEN "send" ELSE "send_bt"
  <2>1. Alike(m, msg[t])
    BY <1>2 DEF Alike, MsgRecord
  <2>2. Goto(t, step, m) /\ pc[t] \in {"stamp", "stamp_bt"} /\ UNCHANGED <<heap, held, stream>>
    BY <1>3 DEF Stamp
  <2> HIDE DEF m
  <2>3. Owned'
    <3>1. step # "idle" /\ step # "real_free" /\ pc[t] # "idle"
      BY <2>2
    <3>2. QED
      BY <1>1, <2>1, <2>2, <3>1, GoOnOwned
  <2>4. ServerKnows'
    BY <2>1, <2>2, QuietStep
  <2>5. QED
    BY <2>3, <2>4
<1>4. CASE Send(t)
  <2> DEFINE m == [msg[t] EXCEPT !.origin = msg[t].num]
  <2>1. Alike(m, msg[t])
    BY <1>2 DEF Alike, MsgRecord
  <2>2. pc[t] # "idle" /\ UNCHANGED heap
    BY <1>4 DEF Send
  <2>3. (Goto(t, "stamp_bt", m) /\ UNCHANGED held) \/ Finish(t, msg[t])
    BY <1>4 DEF Send
  <2> HIDE DEF m
  <2>4. Owned'
    BY <1>1, <2>1, <2>2, <2>3, GoOnOwned, FinishOwned
  <2>5. QED
    BY <1>4, <2>4, SendKnown
<1>5. CASE SendBacktraceMsg(t)
  <2>1. pc[t] # "idle" /\ UNCHANGED heap /\ Finish(t, msg[t])
    BY <1>5 DEF SendBacktraceMsg
  <2>2. QED
    BY <1>1, <1>5, <2>1, FinishOwned, SendBacktraceKnown
<1>6. CASE RealFree(t)
  BY <1>1, <1>6, RealFreeOwned, RealFreeKnown
<1>7. QED
  BY <1>3, <1>4, <1>5, <1>6 DEF Report

\* A new run of the program owns nothing.
LEMMA RestartOwned ==
    ASSUME LibType, Restart
    PROVE  Owned'
<1>1. /\ held' = {} /\ \A t \in Thread : pc'[t] = "idle" /\ msg'[t] = NoMsg
  BY DEF Restart
<1>2. NoMsg.code = "init" /\ NoMsg.ptr = NULL /\ NoMsg.free = NULL
  BY DEF NoMsg, Msg
<1>3. \A t \in Thread : Claims(t)' = {}
  BY <1>1, <1>2 DEF Claims
<1>4. QED
  BY <1>1, <1>2, <1>3 DEF Owned, InWrapper, ReallocIsAlone, OneOwner, OwnedIsLive

\* every step of the library keeps what the server will know in step with the heap
LEMMA LibNextReport ==
    ASSUME LibType, BuiltFormed, Owned, ServerKnows, Misreported = {},
           LibNext, UNCHANGED <<scenario, listVars>>
    PROVE  Owned' /\ ServerKnows'
<1>1. ASSUME UNCHANGED <<heap, held, pc, msg, stream>>
      PROVE  Owned' /\ ServerKnows'
  <2>1. Owned'
    BY <1>1 DEF Owned, InWrapper, ReallocIsAlone, Alone, OneOwner, Claims, OwnedIsLive, Live, Env
  <2>2. \A a : (Expected(a)' <=> Expected(a)) /\ (GivenUp(a)' <=> GivenUp(a))
    BY <1>1 DEF Expected, Unsent, FreeSent, GivenUp
  <2>3. ServerKnows'
    BY <1>1, <2>2, SilentStep
  <2>4. QED
    BY <2>1, <2>3
<1>2. ASSUME NEW t \in Thread, ThreadExit(t) PROVE Owned' /\ ServerKnows'
  BY <1>1, <1>2 DEF ThreadExit
<1>3. CASE Tick
  BY <1>1, <1>3 DEF Tick
<1>4. CASE Restart
  BY <1>4, RestartOwned, RestartKnown
<1>5. ASSUME NEW t \in Thread, Call(t) PROVE Owned' /\ ServerKnows'
  BY <1>5, CallReport
<1>6. ASSUME NEW t \in Thread, Report(t) PROVE Owned' /\ ServerKnows'
  BY <1>6, ReportReport
<1>7. QED
  BY <1>2, <1>3, <1>4, <1>5, <1>6 DEF LibNext
-----------------------------------------------------------------------------
(* The step of the server *)

\* The blocks in the list are the operations shown there.
LEMMA ShownAre ==
    \A a, s : ShownIn(m_listMemoryOperation, a, s) <=> \E i \in Shown : op(i).ptr = a /\ op(i).size = s
BY DEF ShownIn, Shown, op

\* the rows after a memory operation: the one it frees is not red any more, its own
\* is, unless it is that of a free
LEMMA ShownAfterAdd ==
    ASSUME ListType, ListFormed, NEW m \in MsgType, Formed(m), m.code \in MemoryCode, addMemoryOperation(m)
    PROVE  LET freed == takeByPtrNotFreed(m.free)
               n == Len(m_listMemoryOperation) + 1
           IN  /\ freed # NULL => freed \in Shown /\ op(freed).ptr = m.free
               /\ Shown' = (Shown \ {freed}) \cup (IF m.code = "free" THEN {} ELSE {n})
               /\ n \notin Shown
               /\ m_listMemoryOperation'[n].ptr = m.ptr /\ m_listMemoryOperation'[n].size = m.size
               /\ \A i \in Shown : m_listMemoryOperation'[i].ptr = op(i).ptr /\ m_listMemoryOperation'[i].size = op(i).size
<1> DEFINE freed == takeByPtrNotFreed(m.free)
           N == Len(m_listMemoryOperation)
           new == m_listMemoryOperation'
<1>1. N \in Nat /\ \A j \in 1..N : op(j) \in OpType
  BY LenProperties, ElementOfSeq DEF ListType, op
<1>2. /\ Len(new) = N + 1
      /\ \A j \in 1..N : new[j] = Marked(freed)[j]
      /\ new[N + 1] = NewOp(m)
  BY AddToLists
<1>3. freed # NULL => freed \in 1..N /\ op(freed).ptr = m.free /\ ~op(freed).freed /\ m.free # NULL
  BY TakeByPtrIsIn
<1> HIDE DEF freed
<1>4. NULL \notin 1..N
  BY <1>1, CodeAssumption
<1>5. \A j \in 1..N : new[j] = IF j = freed THEN [op(j) EXCEPT !.freed = TRUE] ELSE op(j)
  BY <1>2, <1>3, <1>4, MarkedIsList
<1>6. ASSUME NEW j \in 1..N
      PROVE  /\ new[j].ptr = op(j).ptr /\ new[j].size = op(j).size /\ new[j].code = op(j).code
             /\ new[j].freed = IF j = freed THEN TRUE ELSE op(j).freed
  BY <1>1, <1>5 DEF OpType
<1>7. NewOp(m).code = m.code /\ NewOp(m).ptr = m.ptr /\ NewOp(m).size = m.size /\ ~NewOp(m).freed
  BY DEF NewOp
<1>8. \A i : Colour(i) = "red" <=> i.code # "free" /\ ~i.freed
  BY DEF Colour
<1>9. Shown = {i \in 1..N : op(i).code # "free" /\ ~op(i).freed}
  BY <1>8 DEF Shown
<1>10. Shown' = {i \in 1..(N + 1) : new[i].code # "free" /\ ~new[i].freed}
  <2>1. Shown' = {i \in 1..(N + 1) : Colour(new[i]) = "red"}
    BY <1>2 DEF Shown, op
  <2>2. QED
    BY <1>8, <2>1
<1>11. freed # NULL => freed \in Shown
  <2>1. freed # NULL => op(freed).code # "free"
    BY <1>3 DEF ListFormed
  <2>2. QED
    BY <1>3, <1>9, <2>1
<1>12. N + 1 \notin Shown /\ N + 1 \notin 1..N /\ 1..(N + 1) = 1..N \cup {N + 1}
  BY <1>1, <1>9
<1>13. ASSUME NEW i
       PROVE  i \in Shown' <=> i \in (Shown \ {freed}) \cup (IF m.code = "free" THEN {} ELSE {N + 1})
  <2>1. CASE i \in 1..N
    <3>1. i # N + 1
      BY <1>12, <2>1
    <3>2. i \in Shown' <=> op(i).code # "free" /\ ~op(i).freed /\ i # freed
      BY <1>6, <1>10, <1>12, <2>1
    <3>3. QED
      BY <1>9, <2>1, <3>1, <3>2
  <2>2. CASE i = N + 1
    BY <1>2, <1>7, <1>10, <1>12, <2>2
  <2>3. CASE i \notin 1..N /\ i # N + 1
    BY <1>9, <1>10, <1>12, <2>3
  <2>4. QED
    BY <2>1, <2>2, <2>3
<1>14. m_listMemoryOperation'[N + 1].ptr = m.ptr /\ m_listMemoryOperation'[N + 1].size = m.size
  BY <1>2, <1>7 DEF op
<1>15. \A i \in Shown : m_listMemoryOperation'[i].ptr = op(i).ptr /\ m_listMemoryOperation'[i].size = op(i).size
  BY <1>6, <1>9 DEF op
<1>16. Shown' = (Shown \ {freed}) \cup (IF m.code = "free" THEN {} ELSE {N + 1})
  BY <1>13
<1>17. QED
  BY <1>3, <1>11, <1>12, <1>14, <1>15, <1>16 DEF freed

\* what a message leaves of the rows when it is no memory operation
LEMMA ShownAfterOther ==
    ASSUME ListType, NEW m \in MsgType, updateThreadInfos(m) \/ addBacktrace(m)
    PROVE  /\ Shown' = Shown /\ Len(m_listMemoryOperation') = Len(m_listMemoryOperation)
           /\ UNCHANGED m_listMemoryOperationNonFreed
           /\ \A i \in Shown : m_listMemoryOperation'[i].ptr = op(i).ptr /\ m_listMemoryOperation'[i].size = op(i).size
<1> DEFINE N == Len(m_listMemoryOperation)
<1>1. CASE updateThreadInfos(m)
  BY <1>1 DEF updateThreadInfos, listVars, Shown, op
<1>2. CASE addBacktrace(m)
  <2>1. setBacktrace(m) /\ UNCHANGED m_listMemoryOperationNonFreed
    BY <1>2 DEF addBacktrace, setBacktrace
  <2>2. /\ Len(m_listMemoryOperation') = N
        /\ \A j \in 1..N : m_listMemoryOperation'[j] =
                IF j = takeByMsgNum(m.origin) THEN [op(j) EXCEPT !.bt = m.num] ELSE op(j)
    BY <2>1, SetBacktraceList
  <2>3. \A j \in 1..N : op(j) \in OpType
    BY ElementOfSeq DEF ListType, op
  <2>4. \A j \in 1..N : /\ m_listMemoryOperation'[j].ptr = op(j).ptr /\ m_listMemoryOperation'[j].size = op(j).size
                        /\ m_listMemoryOperation'[j].code = op(j).code /\ m_listMemoryOperation'[j].freed = op(j).freed
    BY <2>2, <2>3 DEF OpType, op
  <2>5. Shown' = Shown
    <3>1. Shown' = {i \in 1..N : Colour(m_listMemoryOperation'[i]) = "red"}
      BY <2>2 DEF Shown, op
    <3>2. \A j \in 1..N : Colour(m_listMemoryOperation'[j]) = Colour(op(j))
      BY <2>4 DEF Colour
    <3>3. QED
      BY <3>1, <3>2 DEF Shown
  <2>6. QED
    BY <2>1, <2>2, <2>4, <2>5 DEF Shown
<1>3. QED
  BY <1>1, <1>2

\* A new connection empties the list.
LEMMA ShownAfterInit ==
    ASSUME onNewConnection
    PROVE  Shown' = {} /\ m_listMemoryOperationNonFreed' = {} /\ Len(m_listMemoryOperation') = 0
<1>1. m_listMemoryOperation' = <<>> /\ m_listMemoryOperationNonFreed' = {}
  BY DEF onNewConnection, clearOperations
<1>2. 1..Len(m_listMemoryOperation') = {} /\ Len(m_listMemoryOperation') = 0
  BY <1>1
<1>3. QED
  BY <1>1, <1>2 DEF Shown

\* the server finds a block it shows
LEMMA ShownCanBeFreed ==
    ASSUME ListType, ShownOnce, NEW a, a # NULL, NEW s, ShownIn(m_listMemoryOperation, a, s)
    PROVE  takeByPtrNotFreed(a) # NULL
<1>1. \A i \in Shown : ~op(i).freed
  BY DEF Shown, Colour
<1>2. \E i \in m_listMemoryOperationNonFreed : op(i).ptr = a /\ ~op(i).freed
  BY <1>1, ShownAre DEF ShownOnce
<1>3. QED
  BY <1>2, TakeByPtrIsIn

\* A message that frees a block the server shows, once, and allocates one it does
\* not show.
LEMMA AddShown ==
    ASSUME ListType, ListFormed, ShownOnce, NEW m \in MsgType, Formed(m), m.code \in MemoryCode,
           addMemoryOperation(m),
           m.free # NULL => \E s \in Nat : ShownIn(m_listMemoryOperation, m.free, s),
           m.ptr # NULL => \A s \in Nat : ShownIn(m_listMemoryOperation, m.ptr, s) => m.ptr = m.free
    PROVE  /\ ShownOnce'
           /\ \A a \in Addr : \A s : ShownIn(m_listMemoryOperation', a, s) <=>
                \/ m.ptr = a /\ m.size = s
                \/ m.code # "init" /\ m.free # a /\ ShownIn(m_listMemoryOperation, a, s)
<1> DEFINE freed == takeByPtrNotFreed(m.free)
           n == Len(m_listMemoryOperation) + 1
<1>1. /\ freed # NULL => freed \in Shown /\ op(freed).ptr = m.free
      /\ Shown' = (Shown \ {freed}) \cup (IF m.code = "free" THEN {} ELSE {n})
      /\ n \notin Shown
      /\ m_listMemoryOperation'[n].ptr = m.ptr /\ m_listMemoryOperation'[n].size = m.size
      /\ \A i \in Shown : m_listMemoryOperation'[i].ptr = op(i).ptr /\ m_listMemoryOperation'[i].size = op(i).size
  BY ShownAfterAdd
<1>2. m_listMemoryOperationNonFreed' = (m_listMemoryOperationNonFreed \ {freed}) \cup {n}
  BY AddToLists
<1>3. /\ m.free # NULL => freed # NULL
      /\ m.free = NULL => freed = NULL
  <2>1. m.free # NULL => freed # NULL
    BY ShownCanBeFreed
  <2>2. QED
    BY <2>1 DEF takeByPtrNotFreed
<1> HIDE DEF freed, n
<1>4. NULL \notin Shown
  BY CodeAssumption DEF Shown
<1>5. \A i \in Shown : op(i).ptr = m.free /\ m.free # NULL => i = freed
  BY <1>1, <1>3 DEF ShownOnce
<1>6. m.code = "free" <=> m.ptr = NULL
  BY CodesDiffer DEF Formed, MemoryCode
<1>7. m.code # "init"
  BY CodesDiffer
<1>8. \A i \in Shown : op(i).size \in Nat
  <2>1. \A i \in 1..Len(m_listMemoryOperation) : op(i) \in OpType
    BY ElementOfSeq DEF ListType, op
  <2>2. QED
    BY <2>1 DEF Shown, OpType
<1>9. \A i \in Shown : op(i).ptr = m.ptr /\ m.ptr # NULL => i = freed
  BY <1>5, <1>8, ShownAre
<1>10. ShownOnce'
  <2>1. Shown' \subseteq m_listMemoryOperationNonFreed'
    BY <1>1, <1>2 DEF ShownOnce
  <2>2. ASSUME NEW i \in Shown', NEW j \in Shown', m_listMemoryOperation'[i].ptr = m_listMemoryOperation'[j].ptr PROVE i = j
    <3>1. (i \in Shown /\ i # freed) \/ (i = n /\ m.ptr # NULL)
      BY <1>1, <1>6
    <3>2. (j \in Shown /\ j # freed) \/ (j = n /\ m.ptr # NULL)
      BY <1>1, <1>6
    <3>3. QED
      BY <1>1, <1>9, <2>2, <3>1, <3>2 DEF ShownOnce
  <2>3. QED
    BY <2>1, <2>2 DEF ShownOnce, op
<1>11. ASSUME NEW a \in Addr, NEW s
       PROVE  ShownIn(m_listMemoryOperation', a, s) <=>
                \/ m.ptr = a /\ m.size = s
                \/ m.free # a /\ ShownIn(m_listMemoryOperation, a, s)
  <2>1. ShownIn(m_listMemoryOperation', a, s) <=> \E i \in Shown' : m_listMemoryOperation'[i].ptr = a /\ m_listMemoryOperation'[i].size = s
    BY DEF ShownIn, Shown, op
  <2>2. a # NULL
    BY EnvAssumption
  <2>3. ASSUME NEW i \in Shown', m_listMemoryOperation'[i].ptr = a, m_listMemoryOperation'[i].size = s
        PROVE  \/ m.ptr = a /\ m.size = s
               \/ m.free # a /\ ShownIn(m_listMemoryOperation, a, s)
    BY <1>1, <1>5, <2>2, <2>3, ShownAre
  <2>4. ASSUME m.ptr = a, m.size = s
        PROVE  \E i \in Shown' : m_listMemoryOperation'[i].ptr = a /\ m_listMemoryOperation'[i].size = s
    BY <1>1, <1>6, <2>2, <2>4
  <2>5. ASSUME m.free # a, ShownIn(m_listMemoryOperation, a, s)
        PROVE  \E i \in Shown' : m_listMemoryOperation'[i].ptr = a /\ m_listMemoryOperation'[i].size = s
    <3>1. PICK i \in Shown : op(i).ptr = a /\ op(i).size = s
      BY <2>5, ShownAre
    <3>2. i # freed
      BY <1>1, <1>4, <2>5, <3>1
    <3>3. QED
      BY <1>1, <3>1, <3>2
  <2>6. QED
    BY <2>1, <2>3, <2>4, <2>5
<1>12. QED
  BY <1>7, <1>10, <1>11
\* Handling a message moves knowledge from the stream into the list and loses
\* none.
LEMMA DeliverReport ==
    ASSUME LibType, ListType, SentFormed, ListFormed, Owned, ServerKnows, Deliver
    PROVE  Owned' /\ ServerKnows'
<1> DEFINE N == Len(stream)
           k == stream[1]
           ops == m_listMemoryOperation
           new == m_listMemoryOperation'
<1>1. /\ N \in Nat /\ N > 0 /\ Head(stream) = k /\ k \in MsgType
      /\ Len(stream') = N - 1 /\ stream' = Tail(stream)
      /\ \A i \in 1..(N - 1) : stream'[i] = stream[i + 1]
  BY HeadIsFirst DEF Deliver
<1>2. UNCHANGED <<scenario, heap, held, pc, msg>> /\ doProcessMsgV1(k)
  BY <1>1 DEF Deliver
<1>3. Formed(k)
  BY <1>1 DEF SentFormed
<1>4. k.code # "init" =>
        /\ k.free # NULL => \E s \in Nat : ShownIn(ops, k.free, s)
        /\ k.ptr # NULL => \A s \in Nat : ShownIn(ops, k.ptr, s) => k.ptr = k.free
  <2>1. InOrder(k, 0)
    <3>1. 0 \in 0..(N - 1) /\ 0 + 1 = 1
      BY <1>1
    <3>2. QED
      BY <3>1 DEF ServerKnows, ReportedInOrder
  <2>2. QED
    BY <2>1, KnownAtStart DEF InOrder, WillKnow
<1> HIDE DEF k, N
<1>5. ShownOnce' /\ \A a \in Addr : \A s : ShownIn(new, a, s) <=>
                \/ k.ptr = a /\ k.size = s
                \/ k.code # "init" /\ k.free # a /\ ShownIn(ops, a, s)
  <2>1. NULL \notin Addr
    BY EnvAssumption
  <2>2. CASE k.code \in MemoryCode /\ addMemoryOperation(k)
    <3>1. k.code # "init"
      BY <2>2, CodesDiffer
    <3>2. QED
      BY <1>1, <1>3, <1>4, <2>2, <3>1, AddShown DEF ServerKnows
  <2>3. CASE k.code = "init" /\ onNewConnection
    <3>1. Shown' = {} /\ m_listMemoryOperationNonFreed' = {} /\ Len(new) = 0
      BY <2>3, ShownAfterInit
    <3>2. k.ptr = NULL
      BY <1>3, <2>3, CodesDiffer DEF Formed
    <3>3. \A a, s : ~ShownIn(new, a, s)
      BY <3>1 DEF ShownIn
    <3>4. ShownOnce'
      BY <3>1 DEF ShownOnce
    <3>5. QED
      BY <2>1, <2>3, <3>2, <3>3, <3>4
  <2>4. CASE (k.code \in ThreadCode /\ updateThreadInfos(k)) \/ (k.code = "backtrace" /\ addBacktrace(k))
    <3>1. /\ Shown' = Shown /\ UNCHANGED m_listMemoryOperationNonFreed
          /\ \A i \in Shown : new[i].ptr = op(i).ptr /\ new[i].size = op(i).size
      BY <1>1, <2>4, ShownAfterOther
    <3>2. k.ptr = NULL /\ k.free = NULL /\ k.code # "init"
      BY <1>3, <2>4, CodesDiffer DEF Formed, ThreadCode
    <3>3. ShownOnce'
      BY <3>1 DEF ServerKnows, ShownOnce, op
    <3>4. \A a, s : ShownIn(new, a, s) <=> \E i \in Shown' : new[i].ptr = a /\ new[i].size = s
      BY DEF ShownIn, Shown, op
    <3>5. \A a, s : ShownIn(new, a, s) <=> ShownIn(ops, a, s)
      BY <3>1, <3>4, ShownAre
    <3>6. QED
      BY <2>1, <3>2, <3>3, <3>5
  <2>5. QED
    BY <1>2, <2>2, <2>3, <2>4 DEF doProcessMsgV1
<1>6. ASSUME NEW n \in 0..(N - 1), NEW a \in Addr, NEW s
      PROVE  Known(new, stream', n, a, s) <=> Known(ops, stream, n + 1, a, s)
  <2>1. n \in Nat /\ \A i \in 1..n : stream'[i] = stream[i + 1]
    BY <1>1
  <2>2. ShownIn(new, a, s) <=>
                \/ stream[1].ptr = a /\ stream[1].size = s
                \/ stream[1].code # "init" /\ stream[1].free # a /\ ShownIn(ops, a, s)
    BY <1>5 DEF k
  <2>3. \A str, str2 : (\A i \in 1..n : str2[i] = str[i + 1]) /\
            (ShownIn(new, a, s) <=>
                \/ str[1].ptr = a /\ str[1].size = s
                \/ str[1].code # "init" /\ str[1].free # a /\ ShownIn(ops, a, s))
            => (Known(new, str2, n, a, s) <=> Known(ops, str, n + 1, a, s))
    BY <2>1, KnownTail
  <2>4. QED
    BY <2>1, <2>2, <2>3
<1>7. \A a : (Expected(a)' <=> Expected(a)) /\ (GivenUp(a)' <=> GivenUp(a))
  BY <1>2 DEF Expected, Unsent, FreeSent, GivenUp
<1>8. ReportedInOrder'
  <2>1. SUFFICES ASSUME NEW n \in 0..(N - 2)
                 PROVE  stream'[n + 1].code # "init" =>
                            /\ stream'[n + 1].free # NULL =>
                                    \E s \in Nat : Known(new, stream', n, stream'[n + 1].free, s)
                            /\ stream'[n + 1].ptr # NULL =>
                                    \A s \in Nat : Known(new, stream', n, stream'[n + 1].ptr, s) =>
                                                    stream'[n + 1].ptr = stream'[n + 1].free
    <3>1. Len(stream') - 1 = N - 2
      BY <1>1
    <3>2. QED
      BY <3>1 DEF ReportedInOrder, InOrder, WillKnow
  <2>2. n + 1 \in 0..(N - 1) /\ n \in 0..(N - 1) /\ n + 1 \in 1..(N - 1) /\ (n + 1) + 1 \in 1..N
    BY <1>1
  <2>3. InOrder(stream[(n + 1) + 1], n + 1)
    BY <2>2 DEF ServerKnows, ReportedInOrder, N
  <2>4. stream'[n + 1] = stream[(n + 1) + 1] /\ stream'[n + 1] \in MsgRecord
    <3>1. stream[(n + 1) + 1] \in MsgType
      BY <2>2, ElementOfSeq DEF LibType, N
    <3>2. QED
      BY <1>1, <2>2, <3>1 DEF MsgType
  <2>5. stream'[n + 1].free \in Addr \cup {NULL} /\ stream'[n + 1].ptr \in Addr \cup {NULL}
    BY <2>4 DEF MsgRecord
  <2>6. QED
    BY <1>6, <2>2, <2>3, <2>4, <2>5 DEF InOrder, WillKnow
<1>9. N - 1 \in 0..(N - 1) /\ (N - 1) + 1 = N
  BY <1>1
<1>10. \A a \in Addr : \A s : Known(new, stream', Len(stream'), a, s) <=> WillKnow(N, a, s)
  BY <1>1, <1>6, <1>9 DEF WillKnow
<1>11. EndIsHeap'
  BY <1>7, <1>10 DEF ServerKnows, EndIsHeap, WillKnow, N
<1>12. EndSizes'
  BY <1>2, <1>7, <1>10 DEF ServerKnows, EndSizes, WillKnow, Env, N
<1>13. Owned'
  BY <1>2 DEF Owned, InWrapper, ReallocIsAlone, Alone, OneOwner, Claims, OwnedIsLive, Live, Env
<1>14. QED
  BY <1>5, <1>8, <1>11, <1>12, <1>13 DEF ServerKnows

\* At the start nothing is sent, built or listed.
LEMMA InitFormed == Init => FormedInv
<1> SUFFICES ASSUME Init PROVE FormedInv
  OBVIOUS
<1>1. stream = <<AppMsg>> /\ m_listMemoryOperation = <<>> /\ \A t \in Thread : msg[t] = NoMsg
  BY DEF Init, LibInit, ControllerInit
<1>2. 1..Len(m_listMemoryOperation) = {} /\ \A i \in 1..Len(stream) : stream[i] = AppMsg
  BY <1>1
<1>3. QED
  BY <1>1, <1>2, BuiltIsFormed DEF FormedInv, BuiltFormed, SentFormed, ListFormed

\* At the start nothing is owned and nothing shown.
LEMMA InitReport == Init => Owned /\ ServerKnows
<1> SUFFICES ASSUME Init PROVE Owned /\ ServerKnows
  OBVIOUS
<1>1. /\ stream = <<AppMsg>> /\ m_listMemoryOperation = <<>> /\ held = {}
      /\ \A t \in Thread : msg[t] = NoMsg /\ pc[t] = "idle"
      /\ \A a \in Addr : heap[a] = NULL
  BY DEF Init, LibInit, ControllerInit
<1>2. NoMsg.code = "init" /\ NoMsg.ptr = NULL /\ NoMsg.free = NULL
  BY DEF NoMsg, Msg
<1>3. AppMsg.code = "init" /\ AppMsg.ptr = NULL
  BY DEF AppMsg, NoMsg, Msg
<1>4. Owned
  BY <1>1, <1>2 DEF Owned, InWrapper, ReallocIsAlone, OneOwner, OwnedIsLive, Claims
<1>5. Len(stream) = 1 /\ stream[1] = AppMsg /\ 1..Len(m_listMemoryOperation) = {}
  BY <1>1
<1>6. ReportedInOrder
  <2>1. \A n \in 0..(Len(stream) - 1) : n = 0 /\ n + 1 = 1
    BY <1>5
  <2>2. QED
    BY <1>3, <1>5, <2>1 DEF ReportedInOrder, InOrder
<1>7. \A a \in Addr : \A s : ~WillKnow(Len(stream), a, s)
  <2>1. SUFFICES ASSUME NEW a \in Addr, NEW s PROVE ~WillKnow(1, a, s)
    BY <1>5
  <2>2. Known(m_listMemoryOperation, stream, 0 + 1, a, s) <=>
            \/ stream[0 + 1].ptr = a /\ stream[0 + 1].size = s
            \/ stream[0 + 1].code # "init" /\ stream[0 + 1].free # a /\ Known(m_listMemoryOperation, stream, 0, a, s)
    BY KnownStep
  <2>3. a # NULL /\ 0 + 1 = 1
    BY EnvAssumption
  <2>4. QED
    BY <1>3, <1>5, <2>2, <2>3 DEF WillKnow
<1>8. \A a \in Addr : ~Expected(a)
  BY <1>1 DEF Expected, GivenUp
<1>9. ShownOnce
  BY <1>5 DEF ShownOnce, Shown
<1>10. QED
  BY <1>4, <1>6, <1>7, <1>8, <1>9 DEF ServerKnows, EndIsHeap, EndSizes

-----------------------------------------------------------------------------
(* The theorems *)

Inv == TypeInv /\ FormedInv /\ ReportInv

\* The conjunction of all of these is inductive,
LEMMA NextInv == Inv /\ [Next]_vars => Inv'
<1> SUFFICES ASSUME Inv, [Next]_vars PROVE Inv'
  OBVIOUS
<1>1. TypeInv' /\ TypeInv /\ FormedInv /\ LibType /\ ListType
  BY NextType DEF Inv, TypeInv
<1>2. CASE LibNext /\ UNCHANGED <<scenario, controllerVars>>
  <2>1. UNCHANGED <<scenario, listVars>> /\ UNCHANGED scenario /\ UNCHANGED m_listMemoryOperation
    BY <1>2 DEF controllerVars, listVars
  <2>2. FormedInv'
    <3>1. BuiltFormed' /\ SentFormed'
      BY <1>1, <1>2, <2>1, LibNextFormed DEF FormedInv
    <3>2. ListFormed'
      BY <1>1, <2>1 DEF FormedInv, ListFormed, op
    <3>3. QED
      BY <3>1, <3>2 DEF FormedInv
  <2>3. ReportInv'
    <3>1. SUFFICES ASSUME Misreported = {} PROVE Owned' /\ ServerKnows'
      BY <2>1 DEF ReportInv, Misreported, Env
    <3>2. Owned /\ ServerKnows
      BY <3>1 DEF Inv, ReportInv
    <3>3. QED
      BY <1>1, <1>2, <2>1, <3>1, <3>2, LibNextReport DEF FormedInv
  <2>4. QED
    BY <1>1, <2>2, <2>3 DEF Inv
<1>3. CASE Deliver
  <2>1. FormedInv'
    BY <1>1, <1>3, DeliverFormed
  <2>2. ReportInv'
    <3>1. SUFFICES ASSUME Misreported = {} PROVE Owned' /\ ServerKnows'
      BY <1>3 DEF ReportInv, Misreported, Env, Deliver
    <3>2. Owned /\ ServerKnows
      BY <3>1 DEF Inv, ReportInv
    <3>3. QED
      BY <1>1, <1>3, <3>2, DeliverReport DEF FormedInv
  <2>3. QED
    BY <1>1, <2>1, <2>2 DEF Inv
<1>4. CASE UNCHANGED vars
  <2>1. UNCHANGED <<scenario, heap, held, pc, msg, stream, m_listMemoryOperation, m_listMemoryOperationNonFreed>>
    BY <1>4 DEF vars, libVars, controllerVars, listVars
  <2>2. FormedInv'
    BY <1>1, <2>1 DEF FormedInv, BuiltFormed, SentFormed, ListFormed, op
  <2>3. ReportInv'
    <3>1. SUFFICES ASSUME Misreported = {} PROVE Owned' /\ ServerKnows'
      BY <2>1 DEF ReportInv, Misreported, Env
    <3>2. Owned /\ ServerKnows
      BY <3>1 DEF Inv, ReportInv
    <3>3. Owned'
      BY <2>1, <3>2 DEF Owned, InWrapper, ReallocIsAlone, Alone, OneOwner, Claims, OwnedIsLive, Live, Env
    <3>4. \A a : (Expected(a)' <=> Expected(a)) /\ (GivenUp(a)' <=> GivenUp(a))
      BY <2>1 DEF Expected, Unsent, FreeSent, GivenUp
    <3>5. UNCHANGED <<scenario, stream, listVars>>
      BY <1>4 DEF vars, libVars, controllerVars
    <3>6. ServerKnows'
      BY <2>1, <3>2, <3>4, <3>5, SilentStep
    <3>7. QED
      BY <3>3, <3>6
  <2>4. QED
    BY <1>1, <2>2, <2>3 DEF Inv
<1>5. QED
  BY <1>2, <1>3, <1>4 DEF Next

\* so it holds in every reachable state.
LEMMA SpecInv == Spec => []Inv
<1>1. Init => Inv
  BY InitType, InitFormed, InitReport DEF Inv, ReportInv
<1>2. QED
  BY <1>1, NextInv, PTL DEF Spec

\* A report that frees a block finds the one operation that allocated it, as free
\* reports before it calls the real function and realloc has the process for itself
\* (LeakDetector.FreeFindsAlloc).
THEOREM SpecFreeFindsAlloc == Spec => []FreeFindsAlloc
<1>1. Inv => FreeFindsAlloc
  <2> DEFINE k == Head(stream)
             found == {i \in Shown : op(i).ptr = k.free}
  <2>1. SUFFICES ASSUME Inv, Misreported = {}, stream # <<>>, k.code # "init", k.free # NULL
                 PROVE  Cardinality(found) = 1
    BY DEF FreeFindsAlloc
  <2>2. Owned /\ ServerKnows /\ LibType
    BY <2>1 DEF Inv, ReportInv, TypeInv
  <2>3. k = stream[0 + 1] /\ 0 \in 0..(Len(stream) - 1)
    BY <2>1, <2>2, HeadIsFirst
  <2>4. InOrder(k, 0)
    BY <2>2, <2>3 DEF ServerKnows, ReportedInOrder
  <2>5. \E s \in Nat : ShownIn(m_listMemoryOperation, k.free, s)
    BY <2>1, <2>4, KnownAtStart DEF InOrder, WillKnow
  <2> HIDE DEF k
  <2>6. PICK i \in Shown : op(i).ptr = k.free
    BY <2>5, ShownAre
  <2>7. found = {i}
    BY <2>2, <2>6 DEF ServerKnows, ShownOnce
  <2>8. QED
    BY <2>7, FS_Singleton
<1>2. QED
  BY <1>1, SpecInv, PTL

\* With everything delivered, what is shown as not free is what the heap holds, one
\* operation per block (LeakDetector.LeaksAreReal).
THEOREM SpecLeaksAreReal == Spec => []LeaksAreReal
<1>1. Inv => LeaksAreReal
  <2>1. SUFFICES ASSUME Inv, Misreported = {}, Quiet
                 PROVE  /\ {op(i).ptr : i \in Shown} = Live
                        /\ \A i, j \in Shown : op(i).ptr = op(j).ptr => i = j
    BY DEF LeaksAreReal
  <2>2. ServerKnows /\ ListType /\ ListFormed
    BY <2>1 DEF Inv, ReportInv, TypeInv, FormedInv
  <2>3. \A a \in Addr : Expected(a) <=> a \in Live
    BY <2>1 DEF Quiet, Expected, Unsent, FreeSent, GivenUp, Live
  <2>4. \A a \in Addr : (\E s \in Nat : ShownIn(m_listMemoryOperation, a, s)) <=> a \in Live
    <3>1. Len(stream) = 0
      BY <2>1 DEF Quiet
    <3>2. QED
      BY <2>2, <2>3, <3>1, KnownAtStart DEF ServerKnows, EndIsHeap, WillKnow
  <2>5. \A i \in Shown : op(i).ptr \in Addr /\ op(i).size \in Nat
    <3>1. \A i \in 1..Len(m_listMemoryOperation) : op(i) \in OpType
      BY <2>2, ElementOfSeq DEF ListType, op
    <3>2. \A i \in Shown : op(i).ptr # NULL
      BY <2>2 DEF ListFormed, Shown, Colour
    <3>3. QED
      BY <3>1, <3>2 DEF Shown, OpType
  <2>6. \A a \in Addr : (\E i \in Shown : op(i).ptr = a) <=> a \in Live
    BY <2>4, <2>5, ShownAre
  <2>7. {op(i).ptr : i \in Shown} = Live
    BY <2>5, <2>6 DEF Live
  <2>8. QED
    BY <2>2, <2>7 DEF ServerKnows, ShownOnce
<1>2. QED
  BY <1>1, SpecInv, PTL

\* The sizes shown are those the program was given (LeakDetector.SizesAreReal).
THEOREM SpecSizesAreReal == Spec => []SizesAreReal
<1>1. Inv => SizesAreReal
  <2>1. SUFFICES ASSUME Inv, Misreported = {}, "calloc_many" \notin Env, Quiet, NEW i \in Shown
                 PROVE  heap[op(i).ptr] = op(i).size
    BY DEF SizesAreReal, SizesAlwaysReal
  <2>2. ServerKnows /\ ListType /\ ListFormed
    BY <2>1 DEF Inv, ReportInv, TypeInv, FormedInv
  <2>3. op(i).ptr \in Addr /\ op(i).size \in Nat
    <3>1. \A j \in 1..Len(m_listMemoryOperation) : op(j) \in OpType
      BY <2>2, ElementOfSeq DEF ListType, op
    <3>2. op(i).ptr # NULL
      BY <2>2 DEF ListFormed, Shown, Colour
    <3>3. QED
      BY <3>1, <3>2 DEF Shown, OpType
  <2>4. Len(stream) = 0
    BY <2>1 DEF Quiet
  <2>5. WillKnow(Len(stream), op(i).ptr, op(i).size)
    BY <2>4, ShownAre, KnownAtStart DEF WillKnow
  <2>6. ~GivenUp(op(i).ptr)
    BY <2>1 DEF Quiet, GivenUp
  <2>7. QED
    BY <2>1, <2>2, <2>3, <2>5, <2>6 DEF ServerKnows, EndSizes
<1>2. QED
  BY <1>1, SpecInv, PTL
-----------------------------------------------------------------------------
(* The statistics *)

SizesMatch ==
    /\ m_globalStats.remainingSize = ToWord(SizeSum(m_listMemoryOperation, Shown))
    /\ ToWord(m_globalStats.allocSize - m_globalStats.freeSize) = m_globalStats.remainingSize

CountsMatch ==
    /\ m_globalStats.ops = Len(m_listMemoryOperation)
    /\ m_globalStats.remainingCount = m_globalStats.allocCount - m_globalStats.freeCount
    /\ Misreported = {} => m_globalStats.remainingCount = Cardinality(Shown)

StatsInv == SizesMatch /\ CountsMatch

\* What the list shows is a finite set of operations with sizes.
LEMMA ShownIsFinite ==
    ASSUME ListType
    PROVE  /\ IsFiniteSet(Shown) /\ Cardinality(Shown) \in Nat
           /\ \A i \in Shown : op(i).size \in Nat
           /\ Shown \subseteq 1..Len(m_listMemoryOperation)
<1>1. Len(m_listMemoryOperation) \in Nat /\ \A i \in 1..Len(m_listMemoryOperation) : op(i) \in OpType
  BY LenProperties, ElementOfSeq DEF ListType, op
<1>2. Shown \subseteq 1..Len(m_listMemoryOperation)
  BY DEF Shown
<1>3. IsFiniteSet(Shown)
  BY <1>1, <1>2, FiniteIds
<1>4. QED
  BY <1>1, <1>2, <1>3, FS_CardinalityType DEF OpType

\* Sums and differences of machine words are those of the integers, reduced
\* once.
LEMMA WordArithmetic ==
    /\ \A a \in Int : ToWord(a) \in Nat
    /\ \A a, b \in Int : ToWord(ToWord(a) + b) = ToWord(a + b)
    /\ \A a, b \in Int : ToWord(a - ToWord(b)) = ToWord(a - b)
<1>1. WordRange \in Nat \ {0}
  BY RangeAssumption
<1>2. \A W \in Nat \ {0} : \A a \in Int : (a % W) \in Nat
  BY DivMod
<1>3. \A W \in Nat \ {0} : \A a, b \in Int : ((a % W) + b) % W = (a + b) % W
  <2>1. SUFFICES ASSUME NEW W \in Nat \ {0}, NEW a \in Int, NEW b \in Int
                 PROVE  ((a % W) + b) % W = (a + b) % W
    OBVIOUS
  <2>2. QED
    BY ModAdd
<1>4. \A W \in Nat \ {0} : \A a, b \in Int : (a - (b % W)) % W = (a - b) % W
  <2>1. SUFFICES ASSUME NEW W \in Nat \ {0}, NEW a \in Int, NEW b \in Int
                 PROVE  (a - (b % W)) % W = (a - b) % W
    OBVIOUS
  <2>2. QED
    BY ModSub
<1>5. QED
  BY ONLY <1>1, <1>2, <1>3, <1>4 DEF ToWord

\* what an operation does to a remaining size, in the two ways the code computes it
LEMMA RemainingWord ==
    ASSUME NEW total \in Nat, NEW size \in Nat, NEW freed \in Nat
    PROVE  ToWord(ToWord(ToWord(total) + size) - freed) = ToWord((total - freed) + size)
<1>1. total + size \in Int /\ -freed \in Int
  OBVIOUS
<1>2. ToWord(ToWord(total) + size) = ToWord(total + size)
  BY WordArithmetic
<1>3. ToWord(total + size) \in Nat
  BY <1>1, WordArithmetic
<1>4. ToWord(ToWord(total + size) + (-freed)) = ToWord((total + size) + (-freed))
  BY <1>1, WordArithmetic
<1>5. /\ ToWord(total + size) + (-freed) = ToWord(total + size) - freed
      /\ (total + size) + (-freed) = (total - freed) + size
  BY <1>3
<1>6. QED
  BY <1>2, <1>4, <1>5

\* The balance of the sums stays their difference when an operation is
\* counted on both sides.
LEMMA BalanceWord ==
    ASSUME NEW alloc \in Nat, NEW free \in Nat, NEW size \in Nat, NEW freed \in Nat
    PROVE  ToWord(ToWord(alloc + size) - ToWord(free + freed)) = ToWord(ToWord(ToWord(alloc - free) + size) - freed)
<1> DEFINE A == ToWord(alloc + size)
           C == ToWord(ToWord(alloc - free) + size)
           balance == (alloc - free) + size
<1>1. /\ alloc + size \in Int /\ free + freed \in Int /\ -(free + freed) \in Int
      /\ alloc - free \in Int /\ balance \in Int /\ -freed \in Int
  OBVIOUS
<1>2. A \in Nat
  BY <1>1, WordArithmetic
<1>3. C = ToWord(balance) /\ C \in Nat
  BY <1>1, WordArithmetic
<1>4. ToWord(A - ToWord(free + freed)) = ToWord(A - (free + freed))
  <2> HIDE DEF A
  <2>1. QED
    BY <1>1, <1>2, WordArithmetic
<1>5. ToWord(A + (-(free + freed))) = ToWord((alloc + size) + (-(free + freed)))
  BY <1>1, WordArithmetic
<1>6. ToWord(C + (-freed)) = ToWord(balance + (-freed))
  <2> HIDE DEF C, balance
  <2>1. QED
    BY <1>1, <1>3, WordArithmetic
<1>7. /\ A + (-(free + freed)) = A - (free + freed) /\ C + (-freed) = C - freed
      /\ (alloc + size) + (-(free + freed)) = balance + (-freed)
  BY <1>2, <1>3
<1>8. QED
  BY <1>4, <1>5, <1>6, <1>7

\* What CountOperation stores in each field.
LEMMA CountOperationStats ==
    ASSUME NEW s \in StatsType, NEW m, NEW freedSize
    PROVE  LET u == CountOperation(s, m, freedSize) IN
           /\ u.remainingSize = Remaining(s, m, freedSize)
           /\ u.allocSize = ToWord(s.allocSize + m.size)
           /\ u.freeSize = ToWord(s.freeSize + (IF freedSize = NULL THEN 0 ELSE freedSize))
           /\ u.ops = s.ops + 1
           /\ u.allocCount = Allocs(s, m) /\ u.freeCount = Frees(s, m)
           /\ u.remainingCount = Allocs(s, m) - Frees(s, m)
BY DEF CountOperation

\* A memory operation moves the counters and the list by the same amounts.
LEMMA AddStats ==
    ASSUME ListType, ListFormed, m_globalStats \in StatsType, StatsInv, UNCHANGED scenario,
           NEW m \in MsgType, Formed(m), m.code \in MemoryCode, addMemoryOperation(m),
           Misreported = {} /\ m.free # NULL => takeByPtrNotFreed(m.free) # NULL
    PROVE  StatsInv'
<1> DEFINE freed == takeByPtrNotFreed(m.free)
           ops == m_listMemoryOperation
           new == m_listMemoryOperation'
           n == Len(m_listMemoryOperation) + 1
           s == m_globalStats
           fs == IF freed = NULL THEN 0 ELSE op(freed).size
           Rest == Shown \ {freed}
           total == SizeSum(ops, Shown)
<1>1. /\ freed # NULL => freed \in Shown /\ op(freed).ptr = m.free
      /\ Shown' = Rest \cup (IF m.code = "free" THEN {} ELSE {n})
      /\ n \notin Shown
      /\ new[n].ptr = m.ptr /\ new[n].size = m.size
      /\ \A i \in Shown : new[i].ptr = op(i).ptr /\ new[i].size = op(i).size
  BY ShownAfterAdd
<1>2. Len(new) = n
  BY AddToLists
<1>3. /\ IsFiniteSet(Shown) /\ Cardinality(Shown) \in Nat
      /\ \A i \in Shown : ops[i].size \in Nat
      /\ NULL \notin Shown
  BY ShownIsFinite, CodeAssumption DEF op, Shown
<1>4. s' = CountOperation(s, m, IF freed = NULL THEN NULL ELSE op(freed).size)
  BY DEF addMemoryOperation, op
<1>5. /\ s.remainingSize \in Nat /\ s.allocSize \in Nat /\ s.freeSize \in Nat
      /\ s.allocCount \in Nat /\ s.freeCount \in Nat /\ s.ops \in Nat
  BY DEF StatsType
<1>6. m.size \in Nat /\ (m.code = "free" => m.size = 0) /\ (m.free = NULL => freed = NULL)
  BY DEF MsgType, MsgRecord, Formed, takeByPtrNotFreed
<1>7. fs \in Nat /\ (freed # NULL => op(freed).size # NULL /\ op(freed).size = fs)
  BY <1>1, <1>3, CodeAssumption DEF op
<1> HIDE DEF freed, fs
<1>8. /\ s'.remainingSize = ToWord(ToWord(s.remainingSize + m.size) - fs)
      /\ s'.allocSize = ToWord(s.allocSize + m.size)
      /\ s'.freeSize = ToWord(s.freeSize + fs)
      /\ s'.ops = s.ops + 1
      /\ s'.allocCount = Allocs(s, m) /\ s'.freeCount = Frees(s, m)
      /\ s'.remainingCount = Allocs(s, m) - Frees(s, m)
  <2>1. fs = IF freed = NULL THEN 0 ELSE op(freed).size
    BY DEF fs
  <2>2. ToWord(ToWord(s.remainingSize + m.size) - 0) = ToWord(s.remainingSize + m.size)
    <3>1. s.remainingSize + m.size \in Int
      BY <1>5, <1>6
    <3>2. ToWord(s.remainingSize + m.size) \in Nat
      BY <3>1, WordArithmetic
    <3>3. ToWord(ToWord(s.remainingSize + m.size) + 0) = ToWord((s.remainingSize + m.size) + 0)
      BY <3>1, WordArithmetic
    <3>4. QED
      BY <3>1, <3>2, <3>3
  <2>3. CASE freed = NULL
    BY <1>4, <2>1, <2>2, <2>3, CountOperationStats DEF Remaining, Grown
  <2>4. CASE freed # NULL
    BY <1>4, <1>7, <2>1, <2>4, CountOperationStats DEF Remaining, Grown
  <2>5. QED
    BY <2>3, <2>4
<1>9. total \in Nat /\ SizeSum(ops, Rest) \in Nat /\ total = fs + SizeSum(ops, Rest)
  <2>1. total \in Nat
    BY <1>3, SizeSumNat
  <2>2. IsFiniteSet(Rest) /\ \A i \in Rest : ops[i].size \in Nat
    BY <1>3, FS_Subset
  <2>3. SizeSum(ops, Rest) \in Nat
    BY <2>2, SizeSumNat
  <2>4. CASE freed = NULL
    <3>1. Rest = Shown /\ fs = 0
      BY <1>3, <2>4 DEF fs
    <3>2. QED
      BY <2>1, <3>1
  <2>5. CASE freed # NULL
    <3>1. freed \in Shown /\ fs = ops[freed].size
      BY <1>1, <2>5 DEF fs, op
    <3>2. \A x \in Shown : SizeSum(ops, Shown) = ops[x].size + SizeSum(ops, Shown \ {x})
      BY <1>3, SizeSumRemove
    <3>3. QED
      BY <2>1, <2>3, <3>1, <3>2
  <2>6. QED
    BY <2>1, <2>3, <2>4, <2>5
<1>10. SizeSum(new, Shown') = (total - fs) + m.size
  <2>1. IsFiniteSet(Rest) /\ \A i \in Rest : new[i].size = ops[i].size /\ new[i].size \in Nat
    BY <1>1, <1>3, FS_Subset DEF op
  <2>2. SizeSum(new, Rest) = SizeSum(ops, Rest)
    BY <2>1, SizeSumSame
  <2>3. CASE m.code = "free"
    <3>1. Shown' = Rest /\ m.size = 0
      BY <1>1, <1>6, <2>3
    <3>2. QED
      BY <1>7, <1>9, <2>2, <3>1
  <2>4. CASE m.code # "free"
    <3>1. Shown' = Rest \cup {n} /\ n \notin Rest /\ new[n].size = m.size
      BY <1>1, <2>4
    <3> HIDE DEF Rest, n, new
    <3>2. SizeSum(new, Rest \cup {n}) = new[n].size + SizeSum(new, Rest)
      BY <1>6, <2>1, <3>1, SizeSumAdd
    <3>3. QED
      BY <1>6, <1>7, <1>9, <2>2, <3>1, <3>2
  <2>5. QED
    BY <2>3, <2>4
<1>11. SizesMatch'
  <2>1. s.remainingSize = ToWord(total) /\ s.remainingSize = ToWord(s.allocSize - s.freeSize) /\ fs <= total
    BY <1>7, <1>9 DEF StatsInv, SizesMatch
  <2> HIDE DEF total
  <2>2. s'.remainingSize = ToWord((total - fs) + m.size)
    <3>1. total \in Nat /\ m.size \in Nat /\ fs \in Nat
      BY <1>6, <1>7, <1>9
    <3>2. ToWord(ToWord(ToWord(total) + m.size) - fs) = ToWord((total - fs) + m.size)
      BY ONLY <3>1, RemainingWord
    <3>3. QED
      BY <1>8, <2>1, <3>2
  <2>3. ToWord(s'.allocSize - s'.freeSize) = s'.remainingSize
    <3>1. ToWord(ToWord(s.allocSize + m.size) - ToWord(s.freeSize + fs)) =
            ToWord(ToWord(ToWord(s.allocSize - s.freeSize) + m.size) - fs)
      BY <1>5, <1>6, <1>7, BalanceWord
    <3>2. QED
      BY <1>8, <2>1, <3>1
  <2>4. QED
    BY <1>10, <2>2, <2>3 DEF SizesMatch
<1>12. CountsMatch'
  <2>1. s.ops = n - 1 /\ s.remainingCount = s.allocCount - s.freeCount
    BY DEF StatsInv, CountsMatch
  <2>2. n - 1 + 1 = n
    BY LenProperties DEF ListType
  <2>3. s'.ops = Len(new)
    BY <1>2, <1>8, <2>1, <2>2
  <2>4. s'.remainingCount = s'.allocCount - s'.freeCount
    BY <1>8
  <2>5. ASSUME Misreported = {} PROVE s'.remainingCount = Cardinality(Shown')
    <3>1. s.allocCount - s.freeCount = Cardinality(Shown)
      BY <2>1, <2>5 DEF StatsInv, CountsMatch
    <3>2. m.free # NULL <=> freed # NULL
      BY <1>6, <2>5 DEF freed
    <3>3. IsFiniteSet(Rest) /\ Cardinality(Rest) = Cardinality(Shown) - (IF m.free # NULL THEN 1 ELSE 0)
      <4>1. CASE freed = NULL
        <5>1. Rest = Shown
          BY <1>3, <4>1
        <5>2. QED
          BY <1>3, <3>2, <4>1, <5>1
      <4>2. CASE freed # NULL
        <5>1. freed \in Shown
          BY <1>1, <4>2
        <5>2. QED
          BY <1>3, <3>2, <4>2, <5>1, FS_RemoveElement
      <4>3. QED
        BY <4>1, <4>2
    <3>4. Cardinality(Shown') = Cardinality(Rest) + (IF m.code = "free" THEN 0 ELSE 1)
      <4>1. CASE m.code = "free"
        <5>1. Shown' = Rest /\ Cardinality(Rest) \in Nat
          BY <1>1, <3>3, <4>1, FS_CardinalityType
        <5>2. QED
          BY <4>1, <5>1
      <4>2. CASE m.code # "free"
        <5>1. Shown' = Rest \cup {n} /\ n \notin Rest
          BY <1>1, <4>2
        <5> HIDE DEF Rest, n
        <5>2. Cardinality(Rest \cup {n}) = Cardinality(Rest) + 1
          BY <3>3, <5>1, FS_AddElement
        <5>3. QED
          BY <4>2, <5>1, <5>2
      <4>3. QED
        BY <4>1, <4>2
    <3>5. s'.remainingCount = (s.allocCount + (IF m.code = "free" THEN 0 ELSE 1))
                                - (s.freeCount + (IF m.free # NULL THEN 1 ELSE 0))
      BY <1>8 DEF Allocs, Frees
    <3> HIDE DEF Rest
    <3>6. QED
      BY <1>3, <1>5, <3>1, <3>3, <3>4, <3>5
  <2>6. QED
    BY <2>3, <2>4, <2>5 DEF CountsMatch, Misreported, Env
<1>13. QED
  BY <1>11, <1>12 DEF StatsInv
\* a message that is no memory operation leaves what is shown
LEMMA OtherStats ==
    ASSUME ListType, m_globalStats \in StatsType, StatsInv, UNCHANGED scenario,
           NEW m \in MsgType, updateThreadInfos(m) \/ addBacktrace(m)
    PROVE  StatsInv'
<1> DEFINE ops == m_listMemoryOperation
           new == m_listMemoryOperation'
<1>1. /\ Shown' = Shown /\ Len(new) = Len(ops)
      /\ \A i \in Shown : new[i].ptr = op(i).ptr /\ new[i].size = op(i).size
  BY ShownAfterOther
<1>2. m_globalStats' = CountMessage(m_globalStats)
  BY DEF updateThreadInfos, addBacktrace
<1>3. /\ m_globalStats'.remainingSize = m_globalStats.remainingSize
      /\ m_globalStats'.allocSize = m_globalStats.allocSize
      /\ m_globalStats'.freeSize = m_globalStats.freeSize
      /\ m_globalStats'.ops = m_globalStats.ops
      /\ m_globalStats'.remainingCount = m_globalStats.remainingCount
      /\ m_globalStats'.allocCount = m_globalStats.allocCount
      /\ m_globalStats'.freeCount = m_globalStats.freeCount
  BY <1>2 DEF CountMessage, StatsType
<1>4. SizeSum(new, Shown) = SizeSum(ops, Shown)
  <2>1. IsFiniteSet(Shown) /\ \A i \in Shown : new[i].size = ops[i].size
    BY <1>1, ShownIsFinite DEF op
  <2>2. QED
    BY <2>1, SizeSumSame
<1>5. SizesMatch'
  BY <1>1, <1>3, <1>4 DEF StatsInv, SizesMatch
<1>6. CountsMatch'
  BY <1>1, <1>3 DEF StatsInv, CountsMatch, Misreported, Env
<1>7. QED
  BY <1>5, <1>6 DEF StatsInv

\* nothing is shown, nothing is counted
LEMMA NoStats ==
    ASSUME Shown = {}, Len(m_listMemoryOperation) = 0,
           m_globalStats.remainingSize = 0, m_globalStats.allocSize = 0, m_globalStats.freeSize = 0,
           m_globalStats.ops = 0, m_globalStats.remainingCount = 0,
           m_globalStats.allocCount = 0, m_globalStats.freeCount = 0
    PROVE  StatsInv
<1>1. ToWord(0) = 0
  BY RangeAssumption DEF ToWord
<1>2. SizeSum(m_listMemoryOperation, Shown) = 0 /\ Cardinality(Shown) = 0
  BY SizeSumEmpty, FS_EmptySet
<1>3. QED
  BY <1>1, <1>2 DEF StatsInv, SizesMatch, CountsMatch

\* At the start both are zero,
LEMMA InitStats == Init => StatsInv
<1> SUFFICES ASSUME Init PROVE StatsInv
  OBVIOUS
<1>1. m_listMemoryOperation = <<>> /\ m_globalStats = NewStats
  BY DEF Init, ControllerInit
<1>2. Len(m_listMemoryOperation) = 0 /\ Shown = {}
  <2>1. Len(<<>>) = 0 /\ 1..0 = {}
    OBVIOUS
  <2>2. QED
    BY <1>1, <2>1 DEF Shown
<1>3. QED
  BY <1>1, <1>2, NoStats DEF NewStats

\* a new connection sets both to zero,
LEMMA ConnectionStats ==
    ASSUME m_globalStats \in StatsType, onNewConnection
    PROVE  StatsInv'
<1>1. Shown' = {} /\ Len(m_listMemoryOperation)' = 0
  BY ShownAfterInit
<1>2. m_globalStats' = CountMessage(ResetStats(m_globalStats))
  BY DEF onNewConnection
<1>3. /\ m_globalStats'.remainingSize = 0 /\ m_globalStats'.allocSize = 0 /\ m_globalStats'.freeSize = 0
      /\ m_globalStats'.ops = 0 /\ m_globalStats'.remainingCount = 0
      /\ m_globalStats'.allocCount = 0 /\ m_globalStats'.freeCount = 0
  BY <1>2 DEF CountMessage, ResetStats, NewStats
<1>4. ToWord(0) = 0
  BY RangeAssumption DEF ToWord
<1>5. \A L : SizeSum(L, {}) = 0
  BY SizeSumEmpty
<1>6. Cardinality({}) = 0
  BY FS_EmptySet
<1>7. QED
  BY <1>1, <1>3, <1>4, <1>5, <1>6 DEF StatsInv, SizesMatch, CountsMatch

\* and handling any message keeps them together.
LEMMA DeliverStats ==
    ASSUME Inv, StatsInv, Deliver
    PROVE  StatsInv'
<1> DEFINE k == stream[1]
<1>1. /\ LibType /\ ListType /\ ListFormed /\ SentFormed /\ m_globalStats \in StatsType
  BY DEF Inv, TypeInv, FormedInv
<1>2. /\ Len(stream) \in Nat /\ Len(stream) > 0 /\ Head(stream) = k /\ k \in MsgType
  BY <1>1, HeadIsFirst DEF Deliver
<1>3. Formed(k) /\ UNCHANGED scenario /\ doProcessMsgV1(k)
  BY <1>1, <1>2 DEF SentFormed, Deliver
<1>4. ASSUME Misreported = {}, k.code \in MemoryCode, k.free # NULL
      PROVE  takeByPtrNotFreed(k.free) # NULL
  <2>1. ServerKnows
    BY <1>4 DEF Inv, ReportInv
  <2>2. InOrder(k, 0)
    <3>1. 0 \in 0..(Len(stream) - 1) /\ 0 + 1 = 1
      BY <1>2
    <3>2. QED
      BY <2>1, <3>1 DEF ServerKnows, ReportedInOrder
  <2>3. PICK s \in Nat : ShownIn(m_listMemoryOperation, k.free, s)
    BY <1>4, <2>2, KnownAtStart, CodesDiffer DEF InOrder, WillKnow
  <2>4. QED
    BY <1>1, <1>4, <2>1, <2>3, ShownCanBeFreed DEF ServerKnows
<1> HIDE DEF k
<1>5. CASE k.code \in MemoryCode /\ addMemoryOperation(k)
  BY <1>1, <1>2, <1>3, <1>4, <1>5, AddStats
<1>6. CASE onNewConnection
  BY <1>1, <1>6, ConnectionStats
<1>7. CASE updateThreadInfos(k) \/ addBacktrace(k)
  BY <1>1, <1>2, <1>3, <1>7, OtherStats
<1>8. QED
  BY <1>3, <1>5, <1>6, <1>7 DEF doProcessMsgV1

\* So they stay together in every reachable state.
LEMMA SpecStats == Spec => []StatsInv
<1>1. Init => StatsInv
  BY InitStats
<1>2. Inv /\ StatsInv /\ [Next]_vars => StatsInv'
  <2>1. SUFFICES ASSUME Inv, StatsInv, [Next]_vars PROVE StatsInv'
    OBVIOUS
  <2>2. CASE Deliver
    BY <2>1, <2>2, DeliverStats
  <2>3. CASE UNCHANGED <<scenario, m_listMemoryOperation, m_globalStats>>
    BY <2>1, <2>3 DEF StatsInv, SizesMatch, CountsMatch, Shown, op, Misreported, Env
  <2>4. QED
    BY <2>1, <2>2, <2>3 DEF Next, vars, controllerVars, listVars
<1>3. QED
  BY <1>1, <1>2, SpecInv, PTL DEF Spec

\* The remaining size is that of the operations shown as not free, and the
\* difference of what was allocated and freed, whatever was received; the remaining
\* count is theirs when every free finds what it frees
\* (LeakDetector.StatisticsMatchList).
THEOREM SpecStatisticsMatchList == Spec => []StatisticsMatchList
<1>1. StatsInv => StatisticsMatchList
  <2>1. SizeOfOps(Shown) = SizeSum(m_listMemoryOperation, Shown)
    BY DEF SizeOfOps, SizeSum, FieldSum, op
  <2>2. QED
    BY <2>1 DEF StatsInv, SizesMatch, CountsMatch, StatisticsMatchList
<1>2. QED
  BY <1>1, SpecStats, PTL

-----------------------------------------------------------------------------
(* Backtraces *)

\* the messages of the stream from i on are of the process that runs; with i = 1
\* so is the list
Current(i) == \A j \in i..Len(stream) : stream[j].code # "init"

Numbered == {"send", "send_bt"}
Listed == 1..Len(m_listMemoryOperation)

\* A number is given once: the one a thread is about to send is on no other message,
HandNumbers ==
    \A t \in Thread : pc[t] \in Numbered =>
        /\ msg[t].num \in 1..g_iMsgNum
        /\ \A u \in Thread : pc[u] \in Numbered /\ msg[u].num = msg[t].num => t = u
        /\ \A j \in 1..Len(stream) : Current(j) => stream[j].num # msg[t].num
        /\ Current(1) => \A i \in Listed : op(i).num # msg[t].num /\ op(i).bt # msg[t].num

\* nor is that of a message in the stream,
SentNumbers ==
    \A j \in 1..Len(stream) : Current(j) =>
        /\ stream[j].num \in 1..g_iMsgNum
        /\ \A k \in 1..Len(stream) : Current(k) /\ stream[k].num = stream[j].num => j = k
        /\ Current(1) => \A i \in Listed : op(i).num # stream[j].num /\ op(i).bt # stream[j].num

\* nor that of an operation or of a backtrace in the list.
ListNumbers ==
    Current(1) => \A i \in Listed :
        /\ op(i).num \in 1..g_iMsgNum
        /\ op(i).bt # NULL => op(i).bt \in 1..g_iMsgNum
        /\ \A k \in Listed : op(i).num = op(k).num => i = k
        /\ op(i).bt # NULL => \A k \in Listed : op(i).bt = op(k).bt => i = k

NumbersDiffer == HandNumbers /\ SentNumbers /\ ListNumbers

\* the operations whose backtrace is with a thread, or in the stream from k on
Coming(k) ==
    {stream[j].origin : j \in {j \in k..Len(stream) : stream[j].code = "backtrace"}}
        \cup {msg[t].origin : t \in {t \in Thread : pc[t] \in {"stamp_bt", "send_bt"}}}

\* Behind each operation comes its backtrace, as long as the list waits for it.
Followed ==
    /\ \A j \in 1..Len(stream) : Current(j) /\ stream[j].code \in MemoryCode => stream[j].num \in Coming(j + 1)
    /\ Current(1) => \A i \in Listed : op(i).bt = NULL => op(i).num \in Coming(1)
    /\ \A i \in Listed : op(i).bt = NULL <=> i \in m_listMemoryOperationWithoutBacktrace

\* A thread in a wrapper builds a report, and that of a memory operation names no thread.
Reports(m) == m.code # "init" /\ (m.code \in MemoryCode => m.tid = NULL)

Reporting == \A t \in Thread : pc[t] # "idle" => Reports(msg[t])

BacktraceInv == Reporting /\ NumbersDiffer /\ (SendBacktrace => Followed)

\* A step in which nobody takes a number or sends keeps them apart.
LEMMA SilentNumbers ==
    ASSUME NumbersDiffer, UNCHANGED <<stream, m_listMemoryOperation, g_iMsgNum>>,
           \A u \in Thread : pc'[u] \in Numbered => pc[u] \in Numbered /\ msg'[u].num = msg[u].num
    PROVE  NumbersDiffer'
<1>1. \A j : Current(j)' <=> Current(j)
  BY DEF Current
<1>2. Listed' = Listed /\ \A i : op(i)' = op(i)
  BY DEF Listed, op
<1>3. HandNumbers'
  BY <1>1, <1>2 DEF NumbersDiffer, HandNumbers
<1>4. SentNumbers' /\ ListNumbers'
  BY <1>1, <1>2 DEF NumbersDiffer, SentNumbers, ListNumbers
<1>5. QED
  BY <1>3, <1>4 DEF NumbersDiffer

\* A new number is larger than all others.
LEMMA StampNumbers ==
    ASSUME TypeInv, NumbersDiffer, UNCHANGED <<stream, m_listMemoryOperation>>,
           g_iMsgNum' = g_iMsgNum + 1, NEW t \in Thread, msg'[t].num = g_iMsgNum + 1,
           \A u \in Thread \ {t} : pc'[u] = pc[u] /\ msg'[u] = msg[u]
    PROVE  NumbersDiffer'
<1>1. \A j : Current(j)' <=> Current(j)
  BY DEF Current
<1>2. Listed' = Listed /\ \A i : op(i)' = op(i)
  BY DEF Listed, op
<1>3. g_iMsgNum \in Nat /\ NULL \notin Int
  BY CodeAssumption DEF TypeInv, LibType
<1>4. \A x \in 1..g_iMsgNum : x \in 1..g_iMsgNum' /\ x # g_iMsgNum + 1
  BY <1>3
<1>5. g_iMsgNum + 1 \in 1..g_iMsgNum' /\ g_iMsgNum + 1 # NULL
  BY <1>3
<1>6. ASSUME NEW u \in Thread, pc'[u] \in Numbered
      PROVE  /\ msg'[u].num \in 1..g_iMsgNum'
             /\ \A v \in Thread : pc'[v] \in Numbered /\ msg'[v].num = msg'[u].num => u = v
             /\ \A j \in 1..Len(stream) : Current(j) => stream[j].num # msg'[u].num
             /\ Current(1) => \A i \in Listed : op(i).num # msg'[u].num /\ op(i).bt # msg'[u].num
  <2>1. CASE u = t
    <3>1. ASSUME NEW v \in Thread \ {t}, pc'[v] \in Numbered PROVE msg'[v].num # msg'[u].num
      BY <1>4, <2>1, <3>1 DEF NumbersDiffer, HandNumbers
    <3>2. \A j \in 1..Len(stream) : Current(j) => stream[j].num # msg'[u].num
      BY <1>4, <2>1 DEF NumbersDiffer, SentNumbers
    <3>3. Current(1) => \A i \in Listed : op(i).num # msg'[u].num /\ op(i).bt # msg'[u].num
      BY <1>4, <1>5, <2>1 DEF NumbersDiffer, ListNumbers
    <3>4. QED
      BY <1>5, <2>1, <3>1, <3>2, <3>3
  <2>2. CASE u # t
    <3>1. pc[u] \in Numbered /\ msg'[u] = msg[u]
      BY <1>6, <2>2
    <3>2. ASSUME NEW v \in Thread, pc'[v] \in Numbered, msg'[v].num = msg'[u].num PROVE u = v
      BY <1>4, <2>2, <3>1, <3>2 DEF NumbersDiffer, HandNumbers
    <3>3. QED
      BY <1>4, <3>1, <3>2 DEF NumbersDiffer, HandNumbers
  <2>3. QED
    BY <2>1, <2>2
<1>7. HandNumbers'
  BY <1>1, <1>2, <1>6 DEF HandNumbers
<1>8. SentNumbers'
  BY <1>1, <1>2, <1>4 DEF NumbersDiffer, SentNumbers
<1>9. ListNumbers'
  BY <1>1, <1>2, <1>4 DEF NumbersDiffer, ListNumbers
<1>10. QED
  BY <1>7, <1>8, <1>9 DEF NumbersDiffer

\* What a message that is sent does to the stream.
LEMMA AppendCurrent ==
    ASSUME LibType, NEW k \in MsgType, k.code # "init", stream' = Append(stream, k)
    PROVE  /\ Len(stream) \in Nat /\ Len(stream') = Len(stream) + 1
           /\ \A j \in 1..Len(stream) : stream'[j] = stream[j]
           /\ stream'[Len(stream) + 1] = k
           /\ \A j \in 1..Len(stream) : Current(j)' <=> Current(j)
           /\ Current(Len(stream) + 1)'
           /\ Current(1)' => Current(1)
<1>1. stream \in Seq(MsgType) /\ Len(stream) \in Nat
  BY LenProperties DEF LibType
<1>2. /\ Len(stream') = Len(stream) + 1
      /\ \A j \in 1..Len(stream) : stream'[j] = stream[j]
      /\ stream'[Len(stream) + 1] = k
  BY <1>1, AppendProperties
<1>3. ASSUME NEW j \in 1..Len(stream) PROVE Current(j)' <=> Current(j)
  <2>1. j..Len(stream') = j..Len(stream) \cup {Len(stream) + 1} /\ j..Len(stream) \subseteq 1..Len(stream)
    BY <1>1, <1>2
  <2>2. QED
    BY <1>2, <2>1 DEF Current
<1>4. Current(Len(stream) + 1)'
  BY <1>1, <1>2 DEF Current
<1>5. Current(1)' => Current(1)
  BY <1>1, <1>2 DEF Current
<1>6. QED
  BY <1>1, <1>2, <1>3, <1>4, <1>5

\* A number goes from the thread into the stream.
LEMMA SendNumbers ==
    ASSUME TypeInv, NumbersDiffer, UNCHANGED <<m_listMemoryOperation, g_iMsgNum>>,
           NEW t \in Thread, pc[t] \in Numbered, pc'[t] \notin Numbered,
           \A u \in Thread \ {t} : pc'[u] = pc[u] /\ msg'[u] = msg[u],
           NEW k \in MsgType, k.code # "init", k.num = msg[t].num, stream' = Append(stream, k)
    PROVE  NumbersDiffer'
<1> DEFINE n == Len(stream)
<1>1. /\ n \in Nat /\ Len(stream') = n + 1
      /\ \A j \in 1..n : stream'[j] = stream[j]
      /\ stream'[n + 1] = k
      /\ \A j \in 1..n : Current(j)' <=> Current(j)
      /\ Current(n + 1)'
      /\ Current(1)' => Current(1)
  BY AppendCurrent DEF TypeInv
<1>2. Listed' = Listed /\ \A i : op(i)' = op(i)
  BY DEF Listed, op
<1>3. 1..(n + 1) = 1..n \cup {n + 1} /\ n + 1 \notin 1..n
  BY <1>1
<1> HIDE DEF n
<1>4. ASSUME NEW u \in Thread, pc'[u] \in Numbered
      PROVE  u # t /\ pc[u] \in Numbered /\ msg'[u] = msg[u] /\ msg[u].num # k.num
  BY <1>4 DEF NumbersDiffer, HandNumbers
<1>5. HandNumbers'
  BY <1>1, <1>2, <1>3, <1>4 DEF NumbersDiffer, HandNumbers, n
<1>6. ASSUME NEW j \in 1..(n + 1), Current(j)'
      PROVE  /\ stream'[j].num \in 1..g_iMsgNum
             /\ \A i \in 1..(n + 1) : Current(i)' /\ stream'[i].num = stream'[j].num => j = i
             /\ Current(1)' => \A i \in Listed : op(i).num # stream'[j].num /\ op(i).bt # stream'[j].num
  <2>1. CASE j = n + 1
    BY <1>1, <1>3, <2>1 DEF NumbersDiffer, HandNumbers, n
  <2>2. CASE j \in 1..n
    BY <1>1, <1>3, <1>6, <2>2 DEF NumbersDiffer, HandNumbers, SentNumbers, n
  <2>3. QED
    BY <1>3, <2>1, <2>2
<1>7. SentNumbers'
  BY <1>1, <1>2, <1>6 DEF SentNumbers
<1>8. ListNumbers'
  BY <1>1, <1>2 DEF NumbersDiffer, ListNumbers
<1>9. QED
  BY <1>5, <1>7, <1>8 DEF NumbersDiffer

\* What the delivery of a message does to the stream.
LEMMA TailCurrent ==
    ASSUME LibType, stream # <<>>, stream' = Tail(stream)
    PROVE  /\ Len(stream) \in Nat /\ Len(stream) > 0 /\ Len(stream') = Len(stream) - 1
           /\ Head(stream) = stream[1] /\ stream[1] \in MsgType
           /\ \A j \in 1..Len(stream') : /\ j + 1 \in 1..Len(stream) /\ stream'[j] = stream[j + 1]
                                         /\ Current(j)' <=> Current(j + 1)
           /\ Current(1)' <=> Current(2)
           /\ stream[1].code # "init" => (Current(1) <=> Current(2))
<1>1. /\ Len(stream) \in Nat /\ Len(stream) > 0 /\ Len(stream') = Len(stream) - 1
      /\ Head(stream) = stream[1] /\ stream[1] \in MsgType
      /\ \A i \in 1..(Len(stream) - 1) : stream'[i] = stream[i + 1]
  BY HeadIsFirst
<1>2. ASSUME NEW j \in 1..Len(stream) PROVE Current(j)' <=> Current(j + 1)
  <2>1. ASSUME Current(j)', NEW i \in (j + 1)..Len(stream) PROVE stream[i].code # "init"
    <3>1. i - 1 \in j..Len(stream') /\ stream'[i - 1] = stream[i]
      BY <1>1
    <3>2. QED
      BY <2>1, <3>1 DEF Current
  <2>2. ASSUME Current(j + 1), NEW i \in j..Len(stream') PROVE stream'[i].code # "init"
    <3>1. i + 1 \in (j + 1)..Len(stream) /\ stream'[i] = stream[i + 1]
      BY <1>1
    <3>2. QED
      BY <2>2, <3>1 DEF Current
  <2>3. QED
    BY <2>1, <2>2 DEF Current
<1>3. ASSUME stream[1].code # "init" PROVE Current(1) <=> Current(2)
  <2>1. 1..Len(stream) = {1} \cup 2..Len(stream)
    BY <1>1
  <2>2. QED
    BY <1>3, <2>1 DEF Current
<1>4. 1 \in 1..Len(stream) /\ 1 + 1 = 2
  BY <1>1
<1>5. Current(1)' <=> Current(2)
  BY <1>2, <1>4
<1>6. \A j \in 1..Len(stream') : j + 1 \in 1..Len(stream) /\ stream'[j] = stream[j + 1] /\ j \in 1..Len(stream)
  BY <1>1
<1>7. QED
  BY <1>1, <1>2, <1>3, <1>5, <1>6

\* A number goes from the stream into the list, or is forgotten: there is at most one
\* place in the list that has it, the others are as they were.
LEMMA TakenNumbers ==
    ASSUME TypeInv, NumbersDiffer, UNCHANGED <<pc, msg, g_iMsgNum>>,
           stream # <<>>, stream[1].code # "init", stream' = Tail(stream),
           \A i \in Listed : op(i)'.num = op(i).num /\ op(i)'.bt \in {op(i).bt, stream[1].num},
           \A i, k \in Listed : op(i)'.bt # op(i).bt /\ op(k)'.bt # op(k).bt => i = k,
           \A i \in Listed' \ Listed : op(i)'.num = stream[1].num /\ op(i)'.bt = NULL,
           \A i, k \in Listed' \ Listed : i = k
    PROVE  NumbersDiffer'
<1> DEFINE x == stream[1].num
<1>1. /\ Len(stream) \in Nat /\ Len(stream) > 0 /\ Len(stream') = Len(stream) - 1
      /\ \A j \in 1..Len(stream') : /\ j + 1 \in 1..Len(stream) /\ stream'[j] = stream[j + 1]
                                    /\ Current(j)' <=> Current(j + 1)
      /\ Current(1)' <=> Current(1)
  BY TailCurrent DEF TypeInv
<1>2. NULL \notin Nat
  BY CodeAssumption
<1>3. ASSUME Current(1) PROVE /\ x \in 1..g_iMsgNum /\ x # NULL
                              /\ \A i \in Listed : op(i).num # x /\ op(i).bt # x
  <2>1. 1 \in 1..Len(stream)
    BY <1>1
  <2>2. x \in 1..g_iMsgNum /\ \A i \in Listed : op(i).num # x /\ op(i).bt # x
    BY <1>3, <2>1 DEF NumbersDiffer, SentNumbers
  <2>3. QED
    BY <1>2, <2>2
<1>4. ASSUME Current(1), NEW j \in 1..Len(stream') PROVE Current(j)' /\ Current(j + 1)
  BY <1>1, <1>4 DEF Current
<1>5. ASSUME Current(1), NEW j \in 1..Len(stream') PROVE stream'[j].num # x
  <2>1. 1 \in 1..Len(stream) /\ j + 1 # 1
    BY <1>1
  <2>2. QED
    BY <1>1, <1>4, <1>5, <2>1 DEF NumbersDiffer, SentNumbers
<1>6. ASSUME Current(1), NEW t \in Thread, pc[t] \in Numbered PROVE msg[t].num # x /\ msg[t].num # NULL
  <2>1. 1 \in 1..Len(stream)
    BY <1>1
  <2>2. QED
    BY <1>2, <1>6, <2>1 DEF NumbersDiffer, HandNumbers
<1> HIDE DEF x
<1>7. ASSUME NEW i \in Listed', Current(1)
      PROVE  /\ \/ i \in Listed /\ op(i)'.num = op(i).num
                \/ i \in Listed' \ Listed /\ op(i)'.num = x
             /\ \/ i \in Listed /\ op(i)'.bt = op(i).bt
                \/ i \in Listed /\ op(i)'.bt # op(i).bt /\ op(i)'.bt = x
                \/ i \in Listed' \ Listed /\ op(i)'.bt = NULL
  BY <1>7 DEF x
<1>8. HandNumbers'
  <2>1. ASSUME NEW t \in Thread, pc[t] \in Numbered
        PROVE  /\ \A u \in Thread : pc[u] \in Numbered /\ msg[u].num = msg[t].num => t = u
               /\ \A j \in 1..Len(stream') : Current(j)' => stream'[j].num # msg[t].num
               /\ msg[t].num \in 1..g_iMsgNum
    BY <1>1, <2>1 DEF NumbersDiffer, HandNumbers
  <2>2. ASSUME NEW t \in Thread, pc[t] \in Numbered, Current(1), NEW i \in Listed'
        PROVE  op(i)'.num # msg[t].num /\ op(i)'.bt # msg[t].num
    BY <1>6, <1>7, <2>2 DEF NumbersDiffer, HandNumbers
  <2>3. QED
    BY <1>1, <2>1, <2>2 DEF HandNumbers
<1>9. SentNumbers'
  <2>1. ASSUME NEW j \in 1..Len(stream'), Current(j)'
        PROVE  /\ stream'[j].num \in 1..g_iMsgNum
               /\ \A k \in 1..Len(stream') : Current(k)' /\ stream'[k].num = stream'[j].num => j = k
    <3>1. stream'[j].num \in 1..g_iMsgNum
      BY <1>1, <2>1 DEF NumbersDiffer, SentNumbers
    <3>2. ASSUME NEW k \in 1..Len(stream'), Current(k)', stream'[k].num = stream'[j].num PROVE j = k
      <4>1. j + 1 = k + 1
        BY <1>1, <2>1, <3>2 DEF NumbersDiffer, SentNumbers
      <4>2. QED
        BY <4>1
    <3>3. QED
      BY <3>1, <3>2
  <2>2. ASSUME NEW j \in 1..Len(stream'), Current(1), NEW i \in Listed'
        PROVE  op(i)'.num # stream'[j].num /\ op(i)'.bt # stream'[j].num
    <3>1. j + 1 \in 1..Len(stream) /\ stream'[j] = stream[j + 1] /\ Current(j + 1)
      BY <1>1, <1>4, <2>2
    <3>2. stream[j + 1].num # NULL
      BY <1>2, <3>1 DEF NumbersDiffer, SentNumbers
    <3>3. \A l \in Listed : op(l).num # stream'[j].num /\ op(l).bt # stream'[j].num
      BY <2>2, <3>1 DEF NumbersDiffer, SentNumbers
    <3>4. QED
      BY <1>5, <1>7, <2>2, <3>1, <3>2, <3>3
  <2>3. QED
    BY <1>1, <2>1, <2>2 DEF SentNumbers
<1>10. ListNumbers'
  <2>1. SUFFICES ASSUME Current(1), NEW i \in Listed'
                 PROVE  /\ op(i)'.num \in 1..g_iMsgNum
                        /\ op(i)'.bt # NULL => op(i)'.bt \in 1..g_iMsgNum
                        /\ \A k \in Listed' : op(i)'.num = op(k)'.num => i = k
                        /\ op(i)'.bt # NULL => \A k \in Listed' : op(i)'.bt = op(k)'.bt => i = k
    BY <1>1 DEF ListNumbers
  <2>2. op(i)'.num \in 1..g_iMsgNum /\ (op(i)'.bt # NULL => op(i)'.bt \in 1..g_iMsgNum)
    BY <1>3, <1>7, <2>1 DEF NumbersDiffer, ListNumbers
  <2>3. ASSUME NEW k \in Listed', op(i)'.num = op(k)'.num PROVE i = k
    BY <1>3, <1>7, <2>1, <2>3 DEF NumbersDiffer, ListNumbers
  <2>4. ASSUME op(i)'.bt # NULL, NEW k \in Listed', op(i)'.bt = op(k)'.bt PROVE i = k
    BY <1>3, <1>7, <2>1, <2>4 DEF NumbersDiffer, ListNumbers
  <2>5. QED
    BY <2>2, <2>3, <2>4
<1>11. QED
  BY <1>8, <1>9, <1>10 DEF NumbersDiffer

\* An operation that arrives joins the list, with a number and without backtrace.
LEMMA AddedToList ==
    ASSUME TypeInv, NEW m \in MsgType, m.code \in MemoryCode, addMemoryOperation(m),
           NEW n, n = Len(m_listMemoryOperation) + 1
    PROVE  /\ Listed' = Listed \cup {n} /\ n \notin Listed
           /\ \A i \in Listed : op(i)'.num = op(i).num /\ op(i)'.bt = op(i).bt /\ op(i)'.size = op(i).size
           /\ op(n)'.num = m.num /\ op(n)'.bt = NULL /\ op(n)'.size = m.size
           /\ m_listMemoryOperationWithoutBacktrace' = m_listMemoryOperationWithoutBacktrace \cup {n}
<1> DEFINE freed == takeByPtrNotFreed(m.free)
<1>1. /\ Len(m_listMemoryOperation') = n
      /\ \A j \in 1..Len(m_listMemoryOperation) : m_listMemoryOperation'[j] = Marked(freed)[j]
      /\ m_listMemoryOperation'[n] = NewOp(m)
      /\ m_listMemoryOperationWithoutBacktrace' = m_listMemoryOperationWithoutBacktrace \cup {n}
  BY AddToLists DEF TypeInv
<1>2. Len(m_listMemoryOperation) \in Nat
  BY LenProperties DEF TypeInv, ListType
<1>3. freed # NULL => freed \in 1..Len(m_listMemoryOperation)
  BY TakeByPtrIsIn DEF TypeInv
<1> HIDE DEF freed
<1>4. \A j \in 1..Len(m_listMemoryOperation) :
            Marked(freed)[j] = IF freed = NULL \/ j # freed THEN op(j) ELSE [op(j) EXCEPT !.freed = TRUE]
  BY <1>3, MarkedIsList DEF TypeInv
<1>5. ASSUME NEW j \in Listed PROVE op(j)'.num = op(j).num /\ op(j)'.bt = op(j).bt /\ op(j)'.size = op(j).size
  <2>1. op(j) \in OpType
    BY <1>2, ElementOfSeq DEF TypeInv, ListType, op, Listed
  <2>2. op(j)' = op(j) \/ op(j)' = [op(j) EXCEPT !.freed = TRUE]
    BY <1>1, <1>4 DEF op, Listed
  <2>3. QED
    BY <2>1, <2>2 DEF OpType
<1>6. Listed' = Listed \cup {n} /\ n \notin Listed
  BY <1>1, <1>2 DEF Listed
<1>7. op(n)'.num = m.num /\ op(n)'.bt = NULL /\ op(n)'.size = m.size
  BY <1>1 DEF op, NewOp
<1>8. QED
  BY <1>1, <1>5, <1>6, <1>7

\* The search by number finds an operation that waits for its backtrace.
LEMMA TakeByMsgNumFinds ==
    ASSUME ListType, NEW num, NEW j \in m_listMemoryOperationWithoutBacktrace, op(j).num = num
    PROVE  takeByMsgNum(num) # NULL
<1> DEFINE found == {i \in m_listMemoryOperationWithoutBacktrace : m_listMemoryOperation[i].num = num}
<1>1. Len(m_listMemoryOperation) \in Nat
  BY LenProperties DEF ListType
<1>2. found \subseteq 1..Len(m_listMemoryOperation) /\ found # {}
  BY DEF ListType, op
<1>3. IsFiniteSet(found) /\ found \subseteq Int
  BY <1>1, <1>2, FiniteIds
<1>4. Max(found) \in found
  BY <1>2, <1>3, MaxOfFinite
<1>5. takeByMsgNum(num) = Max(found)
  BY <1>2 DEF takeByMsgNum
<1> HIDE DEF found
<1>6. QED
  BY <1>3, <1>4, <1>5, CodeAssumption

\* A backtrace that arrives is given to one operation at most, and it is not in vain
\* when one waits for it.
LEMMA GivenBacktrace ==
    ASSUME TypeInv, NEW m \in MsgType, addBacktrace(m)
    PROVE  LET i == takeByMsgNum(m.origin)
           IN  /\ Listed' = Listed
               /\ \A j \in Listed : /\ op(j)'.num = op(j).num /\ op(j)'.size = op(j).size
                                    /\ op(j)'.bt = IF j = i THEN m.num ELSE op(j).bt
               /\ m_listMemoryOperationWithoutBacktrace' = m_listMemoryOperationWithoutBacktrace \ {i}
               /\ i # NULL => i \in Listed /\ op(i).num = m.origin
               /\ i = NULL => \A j \in m_listMemoryOperationWithoutBacktrace : op(j).num # m.origin
<1> DEFINE i == takeByMsgNum(m.origin)
<1>1. ListType /\ setBacktrace(m)
  BY DEF TypeInv, addBacktrace
<1>2. /\ Len(m_listMemoryOperation') = Len(m_listMemoryOperation)
      /\ \A j \in 1..Len(m_listMemoryOperation) :
            m_listMemoryOperation'[j] = IF j = i THEN [op(j) EXCEPT !.bt = m.num] ELSE op(j)
  BY <1>1, SetBacktraceList
<1>3. i # NULL => i \in Listed /\ op(i).num = m.origin
  BY <1>1, TakeByMsgNumIsIn DEF Listed
<1>4. i = NULL => \A j \in m_listMemoryOperationWithoutBacktrace : op(j).num # m.origin
  BY <1>1, TakeByMsgNumFinds
<1>5. m_listMemoryOperationWithoutBacktrace' = m_listMemoryOperationWithoutBacktrace \ {i}
  BY <1>1 DEF setBacktrace
<1> HIDE DEF i
<1>6. ASSUME NEW j \in Listed
      PROVE  /\ op(j)'.num = op(j).num /\ op(j)'.size = op(j).size
             /\ op(j)'.bt = IF j = i THEN m.num ELSE op(j).bt
  <2>1. op(j) \in OpType
    BY <1>1, LenProperties, ElementOfSeq DEF ListType, op, Listed
  <2>2. op(j)' = IF j = i THEN [op(j) EXCEPT !.bt = m.num] ELSE op(j)
    BY <1>2 DEF op, Listed
  <2>3. QED
    BY <2>1, <2>2 DEF OpType
<1>7. Listed' = Listed
  BY <1>2 DEF Listed
<1>8. QED
  BY <1>3, <1>4, <1>5, <1>6, <1>7 DEF i

\* A new connection empties the list.
LEMMA NewConnectionNumbers ==
    ASSUME TypeInv, NumbersDiffer, stream # <<>>, stream' = Tail(stream),
           UNCHANGED <<pc, msg, g_iMsgNum>>, onNewConnection
    PROVE  NumbersDiffer' /\ Listed' = {} /\ m_listMemoryOperationWithoutBacktrace' = {}
<1>1. /\ Len(stream) \in Nat /\ Len(stream) > 0 /\ Len(stream') = Len(stream) - 1
      /\ \A j \in 1..Len(stream') : /\ j + 1 \in 1..Len(stream) /\ stream'[j] = stream[j + 1]
                                    /\ Current(j)' <=> Current(j + 1)
  BY TailCurrent DEF TypeInv
<1>2. Listed' = {} /\ m_listMemoryOperationWithoutBacktrace' = {}
  BY DEF onNewConnection, clearOperations, Listed
<1>3. HandNumbers'
  BY <1>1, <1>2 DEF NumbersDiffer, HandNumbers
<1>4. ASSUME NEW j \in 1..Len(stream'), Current(j)'
      PROVE  /\ stream'[j].num \in 1..g_iMsgNum
             /\ \A k \in 1..Len(stream') : Current(k)' /\ stream'[k].num = stream'[j].num => j = k
  <2>1. stream'[j].num \in 1..g_iMsgNum
    BY <1>1, <1>4 DEF NumbersDiffer, SentNumbers
  <2>2. ASSUME NEW k \in 1..Len(stream'), Current(k)', stream'[k].num = stream'[j].num PROVE j = k
    <3>1. j + 1 = k + 1
      BY <1>1, <1>4, <2>2 DEF NumbersDiffer, SentNumbers
    <3>2. QED
      BY <3>1
  <2>3. QED
    BY <2>1, <2>2
<1>5. SentNumbers'
  BY <1>2, <1>4 DEF SentNumbers
<1>6. ListNumbers'
  BY <1>2 DEF ListNumbers
<1>7. QED
  BY <1>2, <1>3, <1>5, <1>6 DEF NumbersDiffer

\* What was coming still comes when the server takes a message in.
LEMMA TailComing ==
    ASSUME LibType, stream # <<>>, stream' = Tail(stream), UNCHANGED <<pc, msg>>
    PROVE  /\ \A x : \A k \in 1..Len(stream) : x \in Coming(k + 1) => x \in Coming(k)'
           /\ \A x : x \in Coming(1) => x \in Coming(1)' \/ (stream[1].code = "backtrace" /\ stream[1].origin = x)
<1>1. /\ Len(stream) \in Nat /\ Len(stream) > 0 /\ Len(stream') = Len(stream) - 1
      /\ \A i \in 1..Len(stream') : stream'[i] = stream[i + 1]
  BY TailCurrent
<1>2. ASSUME NEW x, NEW k \in 1..Len(stream), x \in Coming(k + 1) PROVE x \in Coming(k)'
  <2>1. ASSUME NEW j \in (k + 1)..Len(stream), stream[j].code = "backtrace", stream[j].origin = x
        PROVE  x \in Coming(k)'
    <3>1. j - 1 \in k..Len(stream') /\ stream'[j - 1] = stream[j]
      BY <1>1
    <3>2. QED
      BY <2>1, <3>1 DEF Coming
  <2>2. QED
    BY <1>2, <2>1 DEF Coming
<1>3. ASSUME NEW x, x \in Coming(1), ~(stream[1].code = "backtrace" /\ stream[1].origin = x) PROVE x \in Coming(1)'
  <2>1. 1..Len(stream) = {1} \cup (1 + 1)..Len(stream) /\ 1 \in 1..Len(stream)
    BY <1>1
  <2>2. x \in Coming(1 + 1)
    BY <1>3, <2>1 DEF Coming
  <2>3. QED
    BY <1>2, <2>1, <2>2
<1>4. QED
  BY <1>2, <1>3

\* Each message taken in keeps the invariant.
LEMMA DeliverBacktraces ==
    ASSUME TypeInv, BacktraceInv, Deliver
    PROVE  BacktraceInv'
<1> DEFINE m == stream[1]  without == m_listMemoryOperationWithoutBacktrace
<1>1. /\ stream # <<>> /\ stream' = Tail(stream) /\ doProcessMsgV1(Head(stream))
      /\ UNCHANGED <<pc, msg, g_iMsgNum>>
  BY DEF Deliver
<1>2. /\ Len(stream) \in Nat /\ Len(stream) > 0 /\ Len(stream') = Len(stream) - 1
      /\ Head(stream) = m /\ m \in MsgType
      /\ \A j \in 1..Len(stream') : /\ j + 1 \in 1..Len(stream) /\ stream'[j] = stream[j + 1]
                                    /\ Current(j)' <=> Current(j + 1)
      /\ Current(1)' <=> Current(2)
      /\ m.code # "init" => (Current(1) <=> Current(2))
  BY <1>1, TailCurrent DEF TypeInv
<1>3. /\ \A x : \A k \in 1..Len(stream) : x \in Coming(k + 1) => x \in Coming(k)'
      /\ \A x : x \in Coming(1) => x \in Coming(1)' \/ (m.code = "backtrace" /\ m.origin = x)
  BY <1>1, TailComing DEF TypeInv
<1>4. m.num \in Nat /\ NULL \notin Nat
  BY <1>2, CodeAssumption DEF MsgType, MsgRecord
<1> HIDE DEF m
<1>5. Reporting'
  BY <1>1 DEF BacktraceInv, Reporting, Reports
<1>6. ASSUME Followed, NEW j \in 1..Len(stream'), Current(j)', stream'[j].code \in MemoryCode
      PROVE  stream'[j].num \in Coming(j + 1)'
  <2>1. j + 1 \in 1..Len(stream) /\ stream'[j] = stream[j + 1] /\ Current(j + 1)
    BY <1>2, <1>6
  <2>2. stream[j + 1].num \in Coming((j + 1) + 1)
    BY <1>6, <2>1 DEF Followed
  <2>3. QED
    BY <1>3, <2>1, <2>2
<1>7. CASE m.code = "init" /\ onNewConnection
  <2>1. NumbersDiffer' /\ Listed' = {} /\ without' = {}
    BY <1>1, <1>7, NewConnectionNumbers DEF BacktraceInv
  <2>2. ASSUME Followed PROVE Followed'
    BY <1>6, <2>1, <2>2 DEF Followed
  <2>3. QED
    BY <1>1, <1>5, <2>1, <2>2 DEF BacktraceInv
<1>8. CASE m.code \in MemoryCode /\ addMemoryOperation(m)
  <2> PICK n : n = Len(m_listMemoryOperation) + 1
    OBVIOUS
  <2>1. /\ Listed' = Listed \cup {n} /\ n \notin Listed
        /\ \A i \in Listed : op(i)'.num = op(i).num /\ op(i)'.bt = op(i).bt
        /\ op(n)'.num = m.num /\ op(n)'.bt = NULL
        /\ without' = without \cup {n}
    BY <1>2, <1>8, AddedToList
  <2>2. m.code # "init" /\ m.code # "backtrace"
    BY <1>8, CodesDiffer
  <2>3. NumbersDiffer'
    <3>1. Listed' \ Listed = {n}
      BY <2>1
    <3>2. \A i, k \in Listed' \ Listed : i = k
      BY <3>1
    <3>3. QED
      BY <1>1, <2>1, <2>2, <3>1, <3>2, TakenNumbers DEF BacktraceInv, m
  <2>4. ASSUME Followed PROVE Followed'
    <3>1. ASSUME Current(1)', NEW i \in Listed', op(i)'.bt = NULL PROVE op(i)'.num \in Coming(1)'
      <4>1. CASE i \in Listed
        BY <1>2, <1>3, <2>1, <2>2, <2>4, <3>1, <4>1 DEF Followed
      <4>2. CASE i = n
        <5>1. 1 \in 1..Len(stream) /\ Current(1)
          BY <1>2, <2>2, <3>1
        <5>2. m.num \in Coming(1 + 1)
          BY <1>8, <2>4, <5>1 DEF Followed, m
        <5>3. QED
          BY <1>3, <2>1, <4>2, <5>1, <5>2
      <4>3. QED
        BY <2>1, <3>1, <4>1, <4>2
    <3>2. \A i \in Listed' : op(i)'.bt = NULL <=> i \in without'
      BY <2>1, <2>4 DEF Followed
    <3>3. QED
      BY <1>6, <2>4, <3>1, <3>2 DEF Followed
  <2>5. QED
    BY <1>1, <1>5, <2>3, <2>4 DEF BacktraceInv
<1>9. CASE m.code \in ThreadCode /\ updateThreadInfos(m)
  <2>1. UNCHANGED <<m_listMemoryOperation, without>>
    BY <1>9 DEF updateThreadInfos, listVars
  <2>2. m.code # "init" /\ m.code # "backtrace"
    BY <1>9 DEF ThreadCode
  <2>3. Listed' = Listed /\ \A i : op(i)' = op(i)
    BY <2>1 DEF Listed, op
  <2>4. NumbersDiffer'
    BY <1>1, <2>2, <2>3, TakenNumbers DEF BacktraceInv, m
  <2>5. ASSUME Followed PROVE Followed'
    BY <1>2, <1>3, <1>6, <2>1, <2>2, <2>3, <2>5 DEF Followed
  <2>6. QED
    BY <1>1, <1>5, <2>4, <2>5 DEF BacktraceInv
<1>10. CASE m.code = "backtrace" /\ addBacktrace(m)
  <2> DEFINE i == takeByMsgNum(m.origin)
  <2>1. /\ Listed' = Listed
        /\ \A j \in Listed : /\ op(j)'.num = op(j).num
                             /\ op(j)'.bt = IF j = i THEN m.num ELSE op(j).bt
        /\ without' = without \ {i}
        /\ i # NULL => i \in Listed /\ op(i).num = m.origin
        /\ i = NULL => \A j \in without : op(j).num # m.origin
    BY <1>2, <1>10, GivenBacktrace
  <2> HIDE DEF i
  <2>2. NumbersDiffer'
    <3>1. \A j \in Listed : op(j)'.bt # op(j).bt => j = i
      BY <2>1
    <3>2. \A j, k \in Listed : op(j)'.bt # op(j).bt /\ op(k)'.bt # op(k).bt => j = k
      BY <3>1
    <3>3. QED
      BY <1>1, <1>10, <2>1, <3>2, TakenNumbers DEF BacktraceInv, m
  <2>3. ASSUME Followed PROVE Followed'
    <3>1. ASSUME Current(1)', NEW j \in Listed', op(j)'.bt = NULL PROVE op(j)'.num \in Coming(1)'
      <4>1. j # i /\ op(j).bt = NULL /\ j \in without
        BY <1>4, <2>1, <2>3, <3>1 DEF Followed
      <4>2. Current(1) /\ op(j).num \in Coming(1)
        BY <1>2, <1>10, <2>1, <2>3, <3>1, <4>1 DEF Followed
      <4>3. op(j).num # m.origin
        BY <2>1, <3>1, <4>1, <4>2 DEF BacktraceInv, NumbersDiffer, ListNumbers
      <4>4. QED
        BY <1>3, <2>1, <3>1, <4>2, <4>3
    <3>2. \A j \in Listed' : op(j)'.bt = NULL <=> j \in without'
      BY <1>4, <2>1, <2>3 DEF Followed
    <3>3. QED
      BY <1>6, <2>3, <3>1, <3>2 DEF Followed
  <2>4. QED
    BY <1>1, <1>5, <2>2, <2>3 DEF BacktraceInv
<1>11. QED
  BY <1>1, <1>2, <1>7, <1>8, <1>9, <1>10 DEF doProcessMsgV1

\* A step that leaves the stream, the list and the backtraces on their way leaves what
\* is behind each operation.
LEMMA SilentFollowed ==
    ASSUME Followed, UNCHANGED <<stream, listVars>>,
           \A u \in Thread : pc[u] \in {"stamp_bt", "send_bt"} =>
                pc'[u] \in {"stamp_bt", "send_bt"} /\ msg'[u].origin = msg[u].origin
    PROVE  Followed'
<1>1. \A j : Current(j)' <=> Current(j)
  BY DEF Current
<1>2. Listed' = Listed /\ \A i : op(i)' = op(i)
  BY DEF Listed, op, listVars
<1>3. \A k, x : x \in Coming(k) => x \in Coming(k)'
  BY DEF Coming
<1>4. QED
  BY <1>1, <1>2, <1>3 DEF Followed, listVars

\* A call starts a report, without number yet, or changes no thread.
LEMMA CallStarts ==
    ASSUME LibType, NEW t \in Thread, Call(t)
    PROVE  /\ UNCHANGED <<stream, g_iMsgNum>>
           /\ \/ UNCHANGED <<pc, msg>>
              \/ pc[t] = "idle" /\ \E m : Reports(m) /\ Goto(t, "stamp", m)
<1>1. \A code, a, size, ptr : code # "init" => Reports(Msg(t, code, a, size, ptr))
  BY DEF Reports, Msg
<1>2. \A code \in ThreadCode : \A u :
        /\ Reports([Msg(t, code, NULL, 0, NULL) EXCEPT !.tid = u])
        /\ Reports([Msg(t, code, NULL, 0, NULL) EXCEPT !.tid = u, !.born = g_iMsgNum])
  BY CodesDiffer DEF Reports, Msg, ThreadCode
<1>3. "pthread_create" \in ThreadCode /\ "pthread_set_name" \in ThreadCode
  BY DEF ThreadCode
<1>4. \A code \in scenario.codes : code # "init"
  BY CodesDiffer, EnvAssumption DEF LibType
<1>5. ASSUME AllocAny(t)
      PROVE  UNCHANGED <<stream, g_iMsgNum>> /\ pc[t] = "idle" /\ \E m : Reports(m) /\ Goto(t, "stamp", m)
  BY <1>1, <1>4, <1>5 DEF AllocAny, Alloc, Ready
<1>6. ASSUME NEW ptr, NEW a, NEW size, Realloc(t, ptr, a, size)
      PROVE  UNCHANGED <<stream, g_iMsgNum>> /\ pc[t] = "idle" /\ \E m : Reports(m) /\ Goto(t, "stamp", m)
  BY <1>1, <1>6 DEF Realloc, Ready
<1>7. ASSUME NEW ptr, ReallocZero(t, ptr) \/ Free(t, ptr)
      PROVE  /\ UNCHANGED <<stream, g_iMsgNum>>
             /\ \/ UNCHANGED <<pc, msg>>
                \/ pc[t] = "idle" /\ \E m : Reports(m) /\ Goto(t, "stamp", m)
  BY <1>1, <1>7 DEF ReallocZero, Free, Ready
<1>8. ASSUME NEW u, ThreadCreate(t, u) \/ CreateFails(t, u) \/ SetName(t, u)
      PROVE  UNCHANGED <<stream, g_iMsgNum>> /\ pc[t] = "idle" /\ \E m : Reports(m) /\ Goto(t, "stamp", m)
  BY <1>2, <1>3, <1>8 DEF ThreadCreate, CreateFails, SetName, Ready
<1>9. QED
  BY <1>5, <1>6, <1>7, <1>8 DEF Call

\* so it keeps the invariant;
LEMMA CallBacktraces ==
    ASSUME TypeInv, BacktraceInv, NEW t \in Thread, Call(t), UNCHANGED listVars
    PROVE  BacktraceInv'
<1>1. LibType /\ UNCHANGED m_listMemoryOperation
  BY DEF TypeInv, listVars
<1>2. UNCHANGED <<stream, g_iMsgNum>>
  BY <1>1, CallStarts
<1>3. CASE UNCHANGED <<pc, msg>>
  <2>1. \A u \in Thread : pc'[u] = pc[u] /\ msg'[u] = msg[u]
    BY <1>3
  <2>2. QED
    BY <1>1, <1>2, <2>1, SilentNumbers, SilentFollowed DEF BacktraceInv, Reporting, Reports
<1>4. CASE pc[t] = "idle" /\ \E m : Reports(m) /\ Goto(t, "stamp", m)
  <2>1. PICK m : Reports(m) /\ Goto(t, "stamp", m)
    BY <1>4
  <2>2. pc'[t] = "stamp" /\ msg'[t] = m /\ \A u \in Thread \ {t} : pc'[u] = pc[u] /\ msg'[u] = msg[u]
    BY <1>1, <2>1, GotoFacts
  <2>3. Reporting'
    BY <2>1, <2>2 DEF BacktraceInv, Reporting, Reports
  <2>4. NumbersDiffer'
    <3>1. \A u \in Thread : pc'[u] \in Numbered => pc[u] \in Numbered /\ msg'[u].num = msg[u].num
      BY <2>2 DEF Numbered
    <3>2. QED
      BY <1>1, <1>2, <3>1, SilentNumbers DEF BacktraceInv
  <2>5. ASSUME Followed PROVE Followed'
    <3>1. \A u \in Thread : pc[u] \in {"stamp_bt", "send_bt"} =>
                pc'[u] \in {"stamp_bt", "send_bt"} /\ msg'[u].origin = msg[u].origin
      BY <1>4, <2>2
    <3>2. QED
      BY <1>2, <2>5, <3>1, SilentFollowed
  <2>6. QED
    BY <2>3, <2>4, <2>5 DEF BacktraceInv
<1>5. QED
  BY <1>1, <1>3, <1>4, CallStarts

\* so do the end of free, the end of a thread and the time.
LEMMA SilentBacktraces ==
    ASSUME TypeInv, BacktraceInv, UNCHANGED listVars,
           \/ Tick
           \/ \E t \in Thread : ThreadExit(t) \/ RealFree(t)
    PROVE  BacktraceInv'
<1>1. LibType /\ UNCHANGED <<stream, g_iMsgNum, m_listMemoryOperation>>
  BY DEF TypeInv, listVars, Tick, ThreadExit, RealFree
<1>2. \A u \in Thread : \/ pc'[u] = pc[u] /\ msg'[u] = msg[u]
                        \/ pc[u] = "real_free" /\ pc'[u] = "idle"
  <2>1. ASSUME NEW t \in Thread, RealFree(t), NEW u \in Thread
        PROVE  \/ pc'[u] = pc[u] /\ msg'[u] = msg[u]
               \/ pc[u] = "real_free" /\ pc'[u] = "idle"
    BY <1>1, <2>1, GotoFacts DEF RealFree
  <2>2. QED
    BY <2>1 DEF Tick, ThreadExit
<1>3. Reporting'
  BY <1>2 DEF BacktraceInv, Reporting, Reports
<1>4. NumbersDiffer'
  <2>1. \A u \in Thread : pc'[u] \in Numbered => pc[u] \in Numbered /\ msg'[u].num = msg[u].num
    BY <1>2 DEF Numbered
  <2>2. QED
    BY <1>1, <2>1, SilentNumbers DEF BacktraceInv
<1>5. ASSUME Followed PROVE Followed'
  <2>1. \A u \in Thread : pc[u] \in {"stamp_bt", "send_bt"} =>
              pc'[u] \in {"stamp_bt", "send_bt"} /\ msg'[u].origin = msg[u].origin
    BY <1>2
  <2>2. QED
    BY <1>1, <1>5, <2>1, SilentFollowed
<1>6. QED
  BY <1>3, <1>4, <1>5 DEF BacktraceInv

\* A message gets the next number.
LEMMA StampBacktraces ==
    ASSUME TypeInv, BacktraceInv, NEW t \in Thread, Stamp(t), UNCHANGED listVars
    PROVE  BacktraceInv'
<1> DEFINE m == [msg[t] EXCEPT !.num = g_iMsgNum + 1, !.time = now]
           step == IF pc[t] = "stamp" THEN "send" ELSE "send_bt"
<1>1. LibType /\ UNCHANGED <<stream, m_listMemoryOperation>> /\ g_iMsgNum' = g_iMsgNum + 1 /\ Goto(t, step, m)
  BY DEF TypeInv, listVars, Stamp
<1>2. pc[t] \in {"stamp", "stamp_bt"} /\ msg[t] \in MsgType
  BY <1>1 DEF Stamp, LibType
<1>3. /\ m.num = g_iMsgNum + 1
      /\ m.code = msg[t].code /\ m.tid = msg[t].tid /\ m.origin = msg[t].origin
  BY <1>2 DEF MsgType, MsgRecord
<1>4. pc[t] = "stamp_bt" => step = "send_bt"
  OBVIOUS
<1> HIDE DEF m, step
<1>5. /\ pc'[t] = step /\ msg'[t] = m
      /\ \A u \in Thread \ {t} : pc'[u] = pc[u] /\ msg'[u] = msg[u]
  BY <1>1, GotoFacts
<1>6. Reporting'
  <2>1. pc[t] # "idle"
    BY <1>2
  <2>2. Reports(m)
    BY <1>3, <2>1 DEF BacktraceInv, Reporting, Reports
  <2>3. QED
    BY <1>5, <2>2 DEF BacktraceInv, Reporting, Reports
<1>7. NumbersDiffer'
  BY <1>1, <1>3, <1>5, StampNumbers DEF BacktraceInv
<1>8. ASSUME Followed PROVE Followed'
  <2>1. \A u \in Thread : pc[u] \in {"stamp_bt", "send_bt"} =>
              pc'[u] \in {"stamp_bt", "send_bt"} /\ msg'[u].origin = msg[u].origin
    BY <1>2, <1>3, <1>4, <1>5
  <2>2. QED
    BY <1>1, <1>8, <2>1, SilentFollowed
<1>9. QED
  BY <1>6, <1>7, <1>8 DEF BacktraceInv

\* The end of a wrapper moves its thread behind the sending.
LEMMA FinishMoves ==
    ASSUME LibType, NEW t \in Thread, Finish(t, msg[t])
    PROVE  /\ pc'[t] = "idle" \/ (pc'[t] = "real_free" /\ msg'[t] = msg[t])
           /\ \A u \in Thread \ {t} : pc'[u] = pc[u] /\ msg'[u] = msg[u]
BY GotoFacts DEF Finish, Return

\* A message sent with nothing that comes behind it, or with its backtrace behind it.
LEMMA SentFollowed ==
    ASSUME TypeInv, Followed, UNCHANGED listVars, NEW t \in Thread,
           NEW k \in MsgType, k.code # "init", stream' = Append(stream, k),
           \A u \in Thread \ {t} : pc'[u] = pc[u] /\ msg'[u] = msg[u],
           pc[t] \in {"stamp_bt", "send_bt"} => k.code = "backtrace" /\ k.origin = msg[t].origin,
           k.code \in MemoryCode => pc'[t] \in {"stamp_bt", "send_bt"} /\ msg'[t].origin = k.num
    PROVE  Followed'
<1> DEFINE n == Len(stream)
<1>1. /\ n \in Nat /\ Len(stream') = n + 1
      /\ \A j \in 1..n : stream'[j] = stream[j]
      /\ stream'[n + 1] = k
      /\ \A j \in 1..n : Current(j)' <=> Current(j)
      /\ Current(n + 1)'
      /\ Current(1)' => Current(1)
  BY AppendCurrent DEF TypeInv
<1>2. Listed' = Listed /\ \A i : op(i)' = op(i)
  BY DEF Listed, op, listVars
<1>3. 1..(n + 1) = 1..n \cup {n + 1}
  BY <1>1
<1> HIDE DEF n
<1>4. ASSUME NEW i \in 1..(n + 1), NEW x \in Coming(i) PROVE x \in Coming(i)'
  <2>1. ASSUME NEW j \in i..n, stream[j].code = "backtrace", stream[j].origin = x PROVE x \in Coming(i)'
    <3>1. j \in i..Len(stream') /\ stream'[j] = stream[j]
      BY <1>1
    <3>2. QED
      BY <2>1, <3>1 DEF Coming
  <2>2. ASSUME NEW u \in Thread, pc[u] \in {"stamp_bt", "send_bt"}, msg[u].origin = x PROVE x \in Coming(i)'
    <3>1. CASE u # t
      BY <2>2, <3>1 DEF Coming
    <3>2. CASE u = t
      <4>1. n + 1 \in i..Len(stream') /\ stream'[n + 1].code = "backtrace" /\ stream'[n + 1].origin = x
        BY <1>1, <2>2, <3>2
      <4>2. QED
        BY <4>1 DEF Coming
    <3>3. QED
      BY <3>1, <3>2
  <2>3. QED
    BY <1>4, <2>1, <2>2 DEF Coming, n
<1>5. ASSUME NEW j \in 1..(n + 1), Current(j)', stream'[j].code \in MemoryCode
      PROVE  stream'[j].num \in Coming(j + 1)'
  <2>1. CASE j \in 1..n
    <3>1. stream[j].num \in Coming(j + 1)
      BY <1>1, <1>5, <2>1 DEF Followed, n
    <3>2. j + 1 \in 1..(n + 1)
      BY <1>1, <2>1
    <3>3. QED
      BY <1>1, <1>4, <2>1, <3>1, <3>2
  <2>2. CASE j = n + 1
    BY <1>1, <1>5, <2>2 DEF Coming
  <2>3. QED
    BY <1>3, <2>1, <2>2
<1>6. ASSUME Current(1)', NEW i \in Listed, op(i).bt = NULL PROVE op(i).num \in Coming(1)'
  <2>1. op(i).num \in Coming(1)
    BY <1>1, <1>6 DEF Followed
  <2>2. 1 \in 1..(n + 1)
    BY <1>1
  <2>3. QED
    BY <1>4, <2>1, <2>2
<1>7. \A i \in Listed' : op(i)'.bt = NULL <=> i \in m_listMemoryOperationWithoutBacktrace'
  BY <1>2 DEF Followed, listVars
<1>8. QED
  BY <1>1, <1>2, <1>5, <1>6, <1>7 DEF Followed

\* The message of a thread is sent,
LEMMA SendBacktraces ==
    ASSUME TypeInv, BacktraceInv, NEW t \in Thread, Send(t), UNCHANGED listVars
    PROVE  BacktraceInv'
<1> DEFINE k == msg[t]
<1>1. LibType /\ UNCHANGED <<m_listMemoryOperation, g_iMsgNum>> /\ k \in MsgType /\ pc[t] = "send"
  BY DEF TypeInv, LibType, listVars, Send
<1>2. stream' = Append(stream, k) /\ Reports(k)
  BY <1>1 DEF Send, BacktraceInv, Reporting, Reports
<1>3. \/ /\ SendBacktrace /\ k.tid = NULL
         /\ pc'[t] = "stamp_bt" /\ msg'[t] = [k EXCEPT !.origin = k.num]
      \/ /\ ~(SendBacktrace /\ k.tid = NULL)
         /\ pc'[t] = "idle" \/ (pc'[t] = "real_free" /\ msg'[t] = k)
  BY <1>1, GotoFacts, FinishMoves DEF Send
<1>4. \A u \in Thread \ {t} : pc'[u] = pc[u] /\ msg'[u] = msg[u]
  BY <1>1, GotoFacts, FinishMoves DEF Send
<1>5. [k EXCEPT !.origin = k.num].code = k.code /\ [k EXCEPT !.origin = k.num].tid = k.tid
      /\ [k EXCEPT !.origin = k.num].origin = k.num
  BY <1>1 DEF MsgType, MsgRecord
<1> HIDE DEF k
<1>6. Reporting'
  BY <1>2, <1>3, <1>4, <1>5 DEF BacktraceInv, Reporting, Reports
<1>7. NumbersDiffer'
  <2>1. pc[t] \in Numbered /\ pc'[t] \notin Numbered
    BY <1>1, <1>3 DEF Numbered
  <2>2. QED
    BY <1>1, <1>2, <1>4, <2>1, SendNumbers DEF BacktraceInv, Reports, k
<1>8. ASSUME SendBacktrace, Followed PROVE Followed'
  <2>1. k.code \in MemoryCode => pc'[t] \in {"stamp_bt", "send_bt"} /\ msg'[t].origin = k.num
    BY <1>2, <1>3, <1>5, <1>8 DEF Reports
  <2>2. pc[t] \notin {"stamp_bt", "send_bt"}
    BY <1>1
  <2>3. QED
    BY <1>1, <1>2, <1>4, <1>8, <2>1, <2>2, SentFollowed DEF Reports
<1>9. QED
  BY <1>6, <1>7, <1>8 DEF BacktraceInv

\* and its backtrace.
LEMMA SendBacktraceBacktraces ==
    ASSUME TypeInv, BacktraceInv, NEW t \in Thread, SendBacktraceMsg(t), UNCHANGED listVars
    PROVE  BacktraceInv'
<1> DEFINE k == [Msg(t, "backtrace", NULL, 0, NULL)
                    EXCEPT !.num = msg[t].num, !.time = msg[t].time, !.origin = msg[t].origin]
<1>1. /\ LibType /\ UNCHANGED <<m_listMemoryOperation, g_iMsgNum>> /\ pc[t] = "send_bt"
      /\ stream' = Append(stream, k) /\ Finish(t, msg[t])
  BY DEF TypeInv, listVars, SendBacktraceMsg
<1>2. k \in MsgType /\ k.code = "backtrace" /\ k.num = msg[t].num /\ k.origin = msg[t].origin
  BY <1>1, ThreadMsgType DEF Msg
<1>3. k.code # "init" /\ k.code \notin MemoryCode
  BY <1>2, CodesDiffer
<1> HIDE DEF k
<1>4. /\ pc'[t] = "idle" \/ (pc'[t] = "real_free" /\ msg'[t] = msg[t])
      /\ \A u \in Thread \ {t} : pc'[u] = pc[u] /\ msg'[u] = msg[u]
  BY <1>1, FinishMoves
<1>5. Reporting'
  BY <1>1, <1>4 DEF BacktraceInv, Reporting, Reports
<1>6. NumbersDiffer'
  <2>1. pc[t] \in Numbered /\ pc'[t] \notin Numbered
    BY <1>1, <1>4 DEF Numbered
  <2>2. QED
    BY <1>1, <1>2, <1>3, <1>4, <2>1, SendNumbers DEF BacktraceInv
<1>7. ASSUME Followed PROVE Followed'
  BY <1>1, <1>2, <1>3, <1>4, <1>7, SentFollowed
<1>8. QED
  BY <1>5, <1>6, <1>7 DEF BacktraceInv

\* Of the process traced next nothing is known yet.
LEMMA RestartBacktraces ==
    ASSUME TypeInv, BacktraceInv, Restart, UNCHANGED listVars
    PROVE  BacktraceInv'
<1>1. PICK k \in 0..Len(stream) :
        /\ Len(stream') = k + 1
        /\ \A i \in 1..k : stream'[i] = stream[i]
        /\ stream'[k + 1] = AppMsg
  BY RestartStream DEF TypeInv
<1>2. k \in Nat
  BY <1>1, LenProperties DEF TypeInv, LibType
<1>3. AppMsg.code = "init"
  BY DEF AppMsg, NoMsg, Msg
<1>4. \A j \in 1..Len(stream') : ~Current(j)'
  <2>1. ASSUME NEW j \in 1..Len(stream') PROVE ~Current(j)'
    <3>1. k + 1 \in j..Len(stream')
      BY <1>1, <1>2
    <3>2. QED
      BY <1>1, <1>3, <3>1 DEF Current
  <2>2. QED
    BY <2>1
<1>5. ~Current(1)'
  <2>1. 1 \in 1..Len(stream')
    BY <1>1, <1>2
  <2>2. QED
    BY <1>4, <2>1
<1>6. \A t \in Thread : pc'[t] = "idle"
  BY DEF Restart
<1>7. Reporting'
  BY <1>6 DEF Reporting, Reports
<1>8. NumbersDiffer'
  BY <1>4, <1>5, <1>6 DEF NumbersDiffer, HandNumbers, SentNumbers, ListNumbers, Numbered
<1>9. ASSUME Followed PROVE Followed'
  BY <1>4, <1>5, <1>9 DEF Followed, Listed, op, listVars
<1>10. QED
  BY <1>7, <1>8, <1>9 DEF BacktraceInv

\* At the start nothing has a number but the first message.
LEMMA InitBacktraces == Init => BacktraceInv
<1> SUFFICES ASSUME Init PROVE BacktraceInv
  OBVIOUS
<1>1. stream = <<AppMsg>> /\ Len(stream) = 1 /\ stream[1] = AppMsg /\ \A t \in Thread : pc[t] = "idle"
  BY DEF Init, LibInit
<1>2. Listed = {} /\ m_listMemoryOperationWithoutBacktrace = {}
  BY DEF Init, ControllerInit, Listed
<1>3. \A j \in 1..Len(stream) : ~Current(j)
  <2>1. AppMsg.code = "init"
    BY DEF AppMsg, NoMsg, Msg
  <2>2. 1..1 = {1} /\ 1 \in 1..1
    OBVIOUS
  <2>3. QED
    BY <1>1, <2>1, <2>2 DEF Current
<1>4. Reporting /\ NumbersDiffer
  BY <1>1, <1>2, <1>3 DEF Reporting, Reports, NumbersDiffer, HandNumbers, SentNumbers, ListNumbers, Numbered
<1>5. Followed
  BY <1>2, <1>3 DEF Followed
<1>6. QED
  BY <1>4, <1>5 DEF BacktraceInv

\* Every step keeps the invariant,
LEMMA NextBacktraces == TypeInv /\ BacktraceInv /\ [Next]_vars => BacktraceInv'
<1> SUFFICES ASSUME TypeInv, BacktraceInv, [Next]_vars PROVE BacktraceInv'
  OBVIOUS
<1>1. CASE LibNext /\ UNCHANGED <<scenario, controllerVars>>
  <2>1. UNCHANGED listVars
    BY <1>1 DEF controllerVars, listVars
  <2>2. ASSUME NEW t \in Thread, Call(t) \/ Report(t) \/ ThreadExit(t) PROVE BacktraceInv'
    BY <2>1, <2>2, CallBacktraces, StampBacktraces, SendBacktraces, SendBacktraceBacktraces, SilentBacktraces
       DEF Report
  <2>3. QED
    BY <1>1, <2>1, <2>2, SilentBacktraces, RestartBacktraces DEF LibNext
<1>2. CASE Deliver
  BY <1>2, DeliverBacktraces
<1>3. CASE UNCHANGED vars
  <2>1. UNCHANGED <<stream, listVars, m_listMemoryOperation, pc, msg, g_iMsgNum>>
    BY <1>3 DEF vars, libVars, controllerVars, listVars
  <2>2. \A u \in Thread : pc'[u] = pc[u] /\ msg'[u] = msg[u]
    BY <2>1
  <2>3. QED
    BY <2>1, <2>2, SilentNumbers, SilentFollowed DEF BacktraceInv, Reporting, Reports
<1>4. QED
  BY <1>1, <1>2, <1>3 DEF Next

\* so it holds in every reachable state.
LEMMA SpecBacktraces == Spec => [](TypeInv /\ BacktraceInv)
<1>1. Init => TypeInv /\ BacktraceInv
  BY InitType, InitBacktraces
<1>2. TypeInv /\ BacktraceInv /\ [Next]_vars => TypeInv' /\ BacktraceInv'
  BY NextType, NextBacktraces
<1>3. QED
  BY <1>1, <1>2, PTL DEF Spec

\* Once all is taken in, every operation of the session has a backtrace, and no two have
\* the same: the backtrace follows its operation in the stream, names it by its number,
\* and no number is given twice (LeakDetector.BacktracesComplete).
THEOREM SpecBacktracesComplete == Spec => []BacktracesComplete
<1>1. TypeInv /\ BacktraceInv => BacktracesComplete
  <2>1. SUFFICES ASSUME TypeInv, BacktraceInv, Quiet, SendBacktrace
                 PROVE  /\ m_listMemoryOperationWithoutBacktrace = {}
                        /\ \A i, j \in Listed : op(i).bt # NULL /\ (op(i).bt = op(j).bt => i = j)
    BY DEF BacktracesComplete, Listed
  <2>2. 1..Len(stream) = {} /\ \A t \in Thread : pc[t] = "idle"
    BY <2>1, EmptySeq DEF Quiet
  <2>3. Current(1) /\ Coming(1) = {}
    BY <2>2 DEF Current, Coming
  <2>4. ASSUME NEW i \in Listed PROVE op(i).bt # NULL /\ i \notin m_listMemoryOperationWithoutBacktrace
    BY <2>1, <2>3, <2>4 DEF BacktraceInv, Followed
  <2>5. m_listMemoryOperationWithoutBacktrace \subseteq Listed
    BY <2>1 DEF TypeInv, ListType, Listed
  <2>6. \A i, j \in Listed : op(i).bt = op(j).bt => i = j
    BY <2>1, <2>3, <2>4 DEF BacktraceInv, NumbersDiffer, ListNumbers
  <2>7. QED
    BY <2>4, <2>5, <2>6
<1>2. QED
  BY <1>1, SpecBacktraces, PTL
=============================================================================

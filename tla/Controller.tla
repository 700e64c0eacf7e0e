----------------------------- MODULE Controller -----------------------------
(***************************************************************************)
(* The server's view of the traced process: the lists, the statistics and  *)
(* the thread table that QApplicationWindowController keeps, with one      *)
(* action per handler the receiving thread calls.                          *)
(*                                                                         *)
(* The objects are shared pointers.  Operations are numbered by arrival    *)
(* and thread entries by creation; a list that is only appended to and     *)
(* erased from is the set of the numbers it holds, so "the last match" of  *)
(* a backward search is a maximum and "the first" is a minimum.            *)
(***************************************************************************)
EXTENDS ServerMsg, Sequences, FiniteSets, FiniteSetsExt, MemoryUsage

CONSTANT CountRange     \* 2^32: values of a uint32_t counter

ASSUME CountAssumption == CountRange \in Nat /\ 0 < CountRange

VARIABLES
    m_listMemoryOperation,                  \* every operation of the session
    m_listMemoryOperationNonFreed,          \* numbers of those not marked as freed
    m_listMemoryOperationWithoutBacktrace,  \* numbers of those without backtrace
    threadInfos,                            \* every ThreadInfos ever created
    m_listThreadInfos,                      \* numbers of those the window lists
    m_listThreadInfosAlive,                 \* numbers of those taken to be alive
    m_globalStats

listVars == <<m_listMemoryOperation, m_listMemoryOperationNonFreed,
              m_listMemoryOperationWithoutBacktrace>>
threadVars == <<threadInfos, m_listThreadInfos, m_listThreadInfosAlive>>
controllerVars == <<listVars, threadVars, m_globalStats>>

-----------------------------------------------------------------------------
(* Statistics *)

\* MemoryStats::MemoryStats
NewStats ==
    [messages |-> 0, start |-> 0, last |-> 0, ops |-> 0,
     allocCount |-> 0, allocSize |-> 0, freeCount |-> 0, freeSize |-> 0,
     remainingCount |-> 0, remainingSize |-> 0, peak |-> 0,
     byCode |-> [c \in MemoryCode |-> 0], usage |-> EmptyUsage]

\* MemoryStats::reset, which keeps m_iPeakRemainingSize
ResetStats(s) == [NewStats EXCEPT !.peak = s.peak]

CountMessage(s) == [s EXCEPT !.messages = @ + 1]

\* the remaining size with what an operation allocates, before what it frees is
\* taken off.  freedSize is the size of the block it frees as the list knows it,
\* NULL when the list knows no such block
Grown(s, op) == ToWord(s.remainingSize + op.size)

\* Mutant: a free takes off the size its own message gives.
RemainingByMessage(s, op, freedSize) == ToWord(Grown(s, op) - op.size)

Remaining(s, op, freedSize) ==
    IF freedSize = NULL THEN Grown(s, op) ELSE ToWord(Grown(s, op) - freedSize)

Allocs(s, op) == s.allocCount + (IF op.code = "free" THEN 0 ELSE 1)

Frees(s, op) == s.freeCount + (IF op.free # NULL THEN 1 ELSE 0)

\* the statistics of one operation
CountOperation(s, op, freedSize) ==
    [messages |-> s.messages + 1,
     start |-> IF s.start = 0 THEN op.time ELSE s.start,
     last |-> op.time,
     ops |-> s.ops + 1,
     allocCount |-> Allocs(s, op),
     allocSize |-> ToWord(s.allocSize + op.size),
     freeCount |-> Frees(s, op),
     freeSize |-> ToWord(s.freeSize + (IF freedSize = NULL THEN 0 ELSE freedSize)),
     remainingCount |-> Allocs(s, op) - Frees(s, op),
     remainingSize |-> Remaining(s, op, freedSize),
     peak |-> IF Grown(s, op) > s.peak THEN Grown(s, op) ELSE s.peak,
     byCode |-> [s.byCode EXCEPT ![op.code] = @ + 1],
     usage |-> update(s.usage, op.time, Remaining(s, op, freedSize))]

-----------------------------------------------------------------------------
(* Threads: a table is [infos, listed, alive] *)

\* ThreadInfos::ThreadInfos
NewThreadInfos(tid, name) ==
    [tid |-> tid, name |-> name, creation |-> 0, last |-> 0, terminated |-> FALSE,
     count |-> 0, size |-> 0, total |-> 0, peak |-> 0]

FirstOf(ids) == IF ids = {} THEN NULL ELSE Min(ids)

\* ThreadInfosList::getById
getById(T, ids, tid) == FirstOf({e \in ids : T.infos[e].tid = tid})

\* ThreadInfosList::getByIdAndMsgNum
getByIdAndMsgNum(T, ids, tid, num) ==
    FirstOf({e \in ids : /\ T.infos[e].tid = tid
                         /\ T.infos[e].creation <= num
                         /\ num <= T.infos[e].last})

\* ThreadInfosList::removeById
removeById(T, ids, tid) == {e \in ids : T.infos[e].tid # tid}

\* a new entry joins both lists; the first one listed is called main
AddEntry(T, tid) ==
    LET e == Len(T.infos) + 1
    IN  [infos |-> Append(T.infos, NewThreadInfos(tid, IF T.listed = {} THEN "main" ELSE "")),
         listed |-> T.listed \cup {e},
         alive |-> T.alive \cup {e}]

\* the entry is given up for a new thread with the same identifier
Retire(T, tid) ==
    [T EXCEPT !.infos[getById(T, T.alive, tid)].terminated = TRUE,
              !.alive = removeById(T, T.alive, tid)]

\* getThreadInfos: the table after it, in which tid has an alive entry
withThreadInfos(T, tid, bThreadCreation) ==
    IF getById(T, T.alive, tid) = NULL THEN AddEntry(T, tid)
    ELSE IF bThreadCreation THEN AddEntry(Retire(T, tid), tid)
    ELSE T

\* Mutant: the thread that has the identifier now, whoever had it before.
getThreadInfosAlive(T, tid, num) == getById(T, T.alive, tid)

\* getThreadInfosForMsgNum: alive entries first, then all listed ones
getThreadInfosForMsgNum(T, tid, num) ==
    LET alive == getByIdAndMsgNum(T, T.alive, tid, num)
    IN  IF alive # NULL THEN alive ELSE getByIdAndMsgNum(T, T.listed, tid, num)

\* the entry of a thread after it allocated, and after one of its blocks is freed
Allocated(info, op) ==
    LET size == ToWord(info.size + op.size)
    IN  [info EXCEPT !.creation = IF @ = 0 THEN op.num ELSE @,
                     !.last = op.num,
                     !.size = size,
                     !.count = (@ + 1) % CountRange,
                     !.total = (@ + 1) % CountRange,
                     !.peak = IF size > @ THEN size ELSE @]

Released(info, op) ==
    [info EXCEPT !.size = ToWord(@ - op.size), !.count = (@ - 1) % CountRange]

\* updateThreadInfosAddAlloc
AddAlloc(T, op) ==
    LET U == withThreadInfos(T, op.thread, FALSE)
        e == getById(U, U.alive, op.thread)
    IN  [U EXCEPT !.infos[e] = Allocated(@, op)]

\* Mutant: when no entry covers the operation nothing is taken off.
AddFreeIfCovered(T, op) ==
    LET known == getThreadInfosForMsgNum(T, op.thread, op.num)
    IN  IF known = NULL THEN T ELSE [T EXCEPT !.infos[known] = Released(@, op)]

\* updateThreadInfosAddFree, for the operation that allocated the freed block
AddFree(T, op) ==
    LET known == getThreadInfosForMsgNum(T, op.thread, op.num)
        U == IF known = NULL THEN withThreadInfos(T, op.thread, FALSE) ELSE T
        e == IF known = NULL THEN getById(U, U.alive, op.thread) ELSE known
    IN  [U EXCEPT !.infos[e] = Released(@, op)]

Table == [infos |-> threadInfos, listed |-> m_listThreadInfos, alive |-> m_listThreadInfosAlive]

SetTable(T) ==
    /\ threadInfos' = T.infos
    /\ m_listThreadInfos' = T.listed
    /\ m_listThreadInfosAlive' = T.alive

-----------------------------------------------------------------------------
(* The handlers *)

ControllerInit ==
    /\ m_listMemoryOperation = <<>>
    /\ m_listMemoryOperationNonFreed = {}
    /\ m_listMemoryOperationWithoutBacktrace = {}
    /\ threadInfos = <<>>
    /\ m_listThreadInfos = {}
    /\ m_listThreadInfosAlive = {}
    /\ m_globalStats = NewStats

\* QMemoryOperationModel::data: the colour of the row of an operation, grey for a
\* free, red for what is not freed, green for what is
Colour(op) == IF op.code = "free" THEN "grey" ELSE IF op.freed THEN "green" ELSE "red"

\* Mutant: the operations of the process before stay.
clearNoOperations == UNCHANGED listVars

\* what clearData does under the lock of the lists
clearOperations ==
    /\ m_listMemoryOperation' = <<>>
    /\ m_listMemoryOperationNonFreed' = {}
    /\ m_listMemoryOperationWithoutBacktrace' = {}

\* and to the threads under that of the statistics; those alive are not cleared
clearThreads ==
    /\ m_listThreadInfos' = {}
    /\ UNCHANGED <<threadInfos, m_listThreadInfosAlive>>

onNewConnection ==
    /\ clearOperations
    /\ clearThreads
    /\ m_globalStats' = CountMessage(ResetStats(m_globalStats))

\* MemoryOperationList::takeByPtrNotFreed: the last operation not freed that
\* allocated the block
takeByPtrNotFreed(ptr) ==
    LET found == {i \in m_listMemoryOperationNonFreed :
                    m_listMemoryOperation[i].ptr = ptr /\ ~m_listMemoryOperation[i].freed}
    IN  IF ptr = NULL \/ found = {} THEN NULL ELSE Max(found)

\* onMemoryOperationReceived: addMemoryOperation
addMemoryOperation(op) ==
    LET freed == takeByPtrNotFreed(op.free)
        n == Len(m_listMemoryOperation) + 1
        freedOp == m_listMemoryOperation[freed]
        marked == IF freed = NULL THEN m_listMemoryOperation
                  ELSE [m_listMemoryOperation EXCEPT ![freed].freed = TRUE]
        afterFree == IF freed = NULL THEN Table ELSE AddFree(Table, freedOp)
    IN  /\ m_listMemoryOperation' =
               Append(marked, [num |-> op.num, code |-> op.code, thread |-> op.thread,
                               ptr |-> op.ptr, size |-> op.size, free |-> op.free,
                               freed |-> FALSE, bt |-> NULL])
        /\ m_listMemoryOperationNonFreed' = (m_listMemoryOperationNonFreed \ {freed}) \cup {n}
        /\ m_listMemoryOperationWithoutBacktrace' = m_listMemoryOperationWithoutBacktrace \cup {n}
        /\ m_globalStats' = CountOperation(m_globalStats, op,
                                           IF freed = NULL THEN NULL ELSE freedOp.size)
        /\ SetTable(IF op.ptr = NULL THEN afterFree ELSE AddAlloc(afterFree, op))

\* onThreadOperationReceived: updateThreadInfos
updateThreadInfos(op) ==
    LET T == withThreadInfos(Table, op.tid, op.code = "pthread_create")
        e == getById(T, T.alive, op.tid)
    IN  /\ SetTable(IF op.code = "pthread_create"
                    THEN [T EXCEPT !.infos[e].creation = op.num, !.infos[e].last = op.num]
                    ELSE [T EXCEPT !.infos[e].name = "set"])
        /\ m_globalStats' = CountMessage(m_globalStats)
        /\ UNCHANGED listVars

\* MemoryOperationList::takeByMsgNum, on the operations without backtrace
takeByMsgNum(num) ==
    LET found == {i \in m_listMemoryOperationWithoutBacktrace : m_listMemoryOperation[i].num = num}
    IN  IF found = {} THEN NULL ELSE Max(found)

\* what addBacktrace does under the lock of the lists
setBacktrace(msg) ==
    LET i == takeByMsgNum(msg.origin)
    IN  /\ m_listMemoryOperation' = IF i = NULL THEN m_listMemoryOperation
                                    ELSE [m_listMemoryOperation EXCEPT ![i].bt = msg.num]
        /\ m_listMemoryOperationWithoutBacktrace' = m_listMemoryOperationWithoutBacktrace \ {i}
        /\ UNCHANGED m_listMemoryOperationNonFreed

\* onBacktraceReceived: addBacktrace
addBacktrace(msg) ==
    /\ setBacktrace(msg)
    /\ m_globalStats' = CountMessage(m_globalStats)
    /\ UNCHANGED threadVars

\* doProcessMsgV1: the handler of each kind of message
doProcessMsgV1(msg) ==
    \/ msg.code = "init" /\ onNewConnection
    \/ msg.code \in MemoryCode /\ addMemoryOperation(msg)
    \/ msg.code \in ThreadCode /\ updateThreadInfos(msg)
    \/ msg.code = "backtrace" /\ addBacktrace(msg)
=============================================================================

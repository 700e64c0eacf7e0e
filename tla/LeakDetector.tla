---------------------------- MODULE LeakDetector ----------------------------
(***************************************************************************)
(* The traced process and the server together: the library reports what    *)
(* the threads do to the heap (AleakdLib), the receiving thread of the     *)
(* server takes the reports one by one and calls the handlers of the       *)
(* controller (Controller).  What the window shows must be what happened.  *)
(***************************************************************************)
EXTENDS AleakdLib, Controller

vars == <<scenario, libVars, controllerVars>>

Init == LibInit /\ ControllerInit

\* Mutant: the last message of the stream waits for another.
DeliverAllButLast ==
    /\ Len(stream) > 1
    /\ doProcessMsgV1(Head(stream))
    /\ stream' = Tail(stream)
    /\ UNCHANGED <<scenario, heap, held, running, pc, msg, g_iMsgNum, now, restarts>>

\* the first message of the stream reaches its handler
Deliver ==
    /\ stream # <<>>
    /\ doProcessMsgV1(Head(stream))
    /\ stream' = Tail(stream)
    /\ UNCHANGED <<scenario, heap, held, running, pc, msg, g_iMsgNum, now, restarts>>

Next ==
    \/ LibNext /\ UNCHANGED <<scenario, controllerVars>>
    \/ Deliver

Spec == Init /\ [][Next]_vars

\* threads in a wrapper run on, and the server reads what there is to read
FairSpec == Spec /\ (\A t \in Thread : WF_vars(Report(t) /\ UNCHANGED <<scenario, controllerVars>>)) /\ WF_vars(Deliver)

-----------------------------------------------------------------------------
(* Properties *)

\* The type of every variable.
TypeOK ==
    /\ scenario \in Scenarios
    /\ heap \in [Addr -> Nat \cup {NULL}]
    /\ held \subseteq Addr
    /\ running \subseteq Thread
    /\ pc \in [Thread -> {"idle", "stamp", "send", "stamp_bt", "send_bt", "real_free"}]
    /\ g_iMsgNum \in Nat /\ now \in Nat /\ restarts \in Nat
    /\ \A i \in 1..Len(stream) : stream[i].num \in Nat
    /\ m_listMemoryOperationNonFreed \subseteq 1..Len(m_listMemoryOperation)
    /\ m_listMemoryOperationWithoutBacktrace \subseteq 1..Len(m_listMemoryOperation)
    /\ m_listThreadInfos \subseteq 1..Len(threadInfos)
    /\ m_listThreadInfosAlive \subseteq 1..Len(threadInfos)

op(i) == m_listMemoryOperation[i]

\* the red rows: operations that allocated a block and are shown as not free
Shown == {i \in 1..Len(m_listMemoryOperation) : Colour(op(i)) = "red"}

SizeOfOps(S) == MapThenSumSet(LAMBDA i : op(i).size, S)

Quiet == stream = <<>> /\ \A t \in Thread : pc[t] = "idle"

\* the behaviours of a scenario under which the code does not report every block
\* given up, in the order in which addresses are given out again
Misreported == Env \cap {"realloc_overlap", "realloc_zero"}

\* and those under which an entry of the thread table is not of one thread
MisreportedThreads == Env \cap {"early_child", "create_fails", "restart"}

\* When everything is reported, what is shown as not free is what the heap
\* holds: one operation per live block, at its address.
LeaksAreReal ==
    Misreported = {} /\ Quiet =>
        /\ {op(i).ptr : i \in Shown} = Live
        /\ \A i, j \in Shown : op(i).ptr = op(j).ptr => i = j

\* And the sizes are those the program was given: "Colored view for each memory
\* allocation to view directly the state (free or not free)" (README.md:27).
SizesAlwaysReal == Quiet => \A i \in Shown : heap[op(i).ptr] = op(i).size

\* They are, unless reports of realloc overlap with others, or are left out, or
\* calloc is asked for several elements.
SizesAreReal == Misreported = {} /\ "calloc_many" \notin Env => SizesAlwaysReal

\* A report that frees a block finds the one operation that allocated it: the
\* free is reported before the block can be given out again.
FreeFindsAlloc ==
    Misreported = {} /\ stream # <<>> /\ Head(stream).code # "init" /\ Head(stream).free # NULL =>
        Cardinality({i \in Shown : op(i).ptr = Head(stream).free}) = 1

\* The statistics add up to the list.  The sizes do whatever was received, in
\* whatever order and with whatever lost: what is allocated and not freed is what is
\* shown.  The counts do as long as every free finds what it frees.
StatisticsMatchList ==
    /\ m_globalStats.remainingSize = ToWord(SizeOfOps(Shown))
    /\ ToWord(m_globalStats.allocSize - m_globalStats.freeSize) = m_globalStats.remainingSize
    /\ Misreported = {} =>
            /\ m_globalStats.remainingCount = Cardinality(Shown)
            /\ m_globalStats.ops = Len(m_listMemoryOperation)

\* the operations an entry of the thread table stands for
OpsOf(e) ==
    {i \in Shown : /\ op(i).thread = threadInfos[e].tid
                   /\ threadInfos[e].creation <= op(i).num
                   /\ op(i).num <= threadInfos[e].last}

\* "View real time per thread usage" (README.md:24): what is shown as not free is
\* spread over the listed threads without overlap and without rest, and the usage
\* of a thread is that of its own operations, also when others freed them or the
\* thread is gone and its identifier reused.
ThreadUsageAlwaysExact ==
    /\ \A i \in Shown : \E e \in m_listThreadInfos :
            i \in OpsOf(e) /\ \A f \in m_listThreadInfos \ {e} : i \notin OpsOf(f)
    /\ \A e \in m_listThreadInfos :
            /\ threadInfos[e].count = Cardinality(OpsOf(e)) % CountRange
            /\ threadInfos[e].size = ToWord(SizeOfOps(OpsOf(e)))

\* It is, in the first process traced and with creations reported in time; so what
\* is "Not supposed to occurs" (QApplicationWindowController.cpp:304) does not: a
\* freed block has an entry that covers the operation that allocated it.
ThreadUsageExact == MisreportedThreads = {} => ThreadUsageAlwaysExact

\* the entries of an identifier, of every thread that had it
EntriesOf(t) == {e \in m_listThreadInfos : threadInfos[e].tid = t}

\* the red rows of the threads that had it
ShownOf(t) == {i \in Shown : op(i).thread = t}

\* What a free takes off falls back on the entry that is alive when none covers the
\* operation, "Not supposed to occurs" (QApplicationWindowController.cpp:304).  It
\* does occur: a thread that runs before its creation is reported, a creation that
\* failed, and reports that overtake each other move the bounds of an entry.  Which
\* entry is charged may then be wrong, but nothing is lost or charged twice: in the
\* first process the entries of an identifier add up to what is shown for it.
ThreadUsageAddsUp ==
    "restart" \notin Env => \A t \in Thread :
        /\ MapThenSumSet(LAMBDA e : threadInfos[e].count, EntriesOf(t)) % CountRange
               = Cardinality(ShownOf(t)) % CountRange
        /\ ToWord(MapThenSumSet(LAMBDA e : threadInfos[e].size, EntriesOf(t)))
               = ToWord(SizeOfOps(ShownOf(t)))

\* Every operation of the session got its own backtrace once all is received.
BacktracesComplete ==
    Quiet /\ SendBacktrace =>
        /\ m_listMemoryOperationWithoutBacktrace = {}
        /\ \A i, j \in 1..Len(m_listMemoryOperation) :
                op(i).bt # NULL /\ (op(i).bt = op(j).bt => i = j)

\* "View real time per thread usage and memory peak" (README.md:24).  The value of
\* the second of the last operation is at least the remaining size, no value exceeds
\* the peak, and the peak is one of this process, which allocated at least that much.
ChartConsistent ==
    LET s == m_globalStats IN
        /\ s.ops > 0 => value(s.usage, s.last) >= s.remainingSize
        /\ \A t \in DOMAIN s.usage.sizes : s.usage.sizes[t] <= s.peak
        /\ "restart" \notin Env => s.peak <= s.allocSize

\* Every report is taken in: once the program stops calling, the window comes to
\* show the blocks the heap holds, and stays so.
ViewCatchesUp == <>[](Quiet /\ {op(i).ptr : i \in Shown} = Live)
=============================================================================

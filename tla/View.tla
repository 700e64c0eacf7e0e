-------------------------------- MODULE View --------------------------------
(***************************************************************************)
(* The two threads of the server and the locks between them.  The receiving*)
(* thread runs the handlers of Controller; the GUI thread filters the list,*)
(* refreshes the window every second and answers double clicks             *)
(* (QApplicationWindowController.cpp, the item models, main.cpp).          *)
(*                                                                         *)
(* A handler is a script: what it locks, unlocks and does, in the order of *)
(* the code.  What it does under a lock is one step; what it does without  *)
(* one is as many steps as there are fields, and a search has one step for *)
(* each operation.  The other thread may come between any two.             *)
(*                                                                         *)
(* Rows and points carry the number of the session they are from, as the   *)
(* shared pointers in the lists outlive it.                                *)
(***************************************************************************)
EXTENDS Controller

CONSTANTS
    Addr,           \* addresses of blocks
    Main,           \* the thread of the traced process
    Filters,        \* settings of the filter: records [notFreed, thread]
    MaxReceived,    \* BOUND: messages received
    MaxSession,     \* BOUND: new connections after the first
    MaxTime         \* BOUND: seconds

Gui == "gui"
Receiver == "receiver"
ServerThread == {Gui, Receiver}

\* NULL is no thread
ASSUME ViewAssumption ==
    MaxReceived \in Nat /\ MaxSession \in Nat /\ MaxTime \in Nat /\ NULL \notin ServerThread

Lock == {"List", "Symbols", "Stats"}    \* m_lockListMemoryOperation, ...

VARIABLES
    todo,           \* the rest of the script of each thread
    writing,        \* who holds each lock for writing, NULL for nobody
    reading,        \* who holds it for reading
    msg,            \* the message being handled
    received,       \* how many there were
    opsSession,     \* the session m_listMemoryOperation is of
    statsSession,   \* ... m_globalStats and m_listThreadInfos are of
    filter,         \* the settings of the search under way, NULL for none
    searched,       \* how many operations it has gone through
    m_searchStats,
    m_listFilterMemoryOperation,
    rowCount,       \* the argument of fetchTo
    m_iLoadedCount,
    m_listFilterThreadInfos,
    memoryUsageUpdate,      \* points the timer has still to draw
    chart,                  \* points drawn
    m_iLastUpdateTime,
    m_iLastUpdateValue,
    late,           \* history: drawn or fetched what was computed before a session
    stopping        \* quit() was called

controlVars == <<todo, msg, received, stopping>>
lockVars == <<writing, reading>>
sourceVars == <<listVars, threadVars, m_globalStats, opsSession, statsSession>>
searchVars == <<searched, m_searchStats, m_listFilterMemoryOperation>>
rowVars == <<filter, rowCount, m_iLoadedCount, m_listFilterThreadInfos>>
chartVars == <<memoryUsageUpdate, chart, m_iLastUpdateTime, m_iLastUpdateValue>>
vars == <<controlVars, lockVars, sourceVars, searchVars, rowVars, chartVars, late>>

NoSearch == [ops |-> 0, allocCount |-> 0, freeCount |-> 0, allocSize |-> 0, freeSize |-> 0,
             remainingSize |-> 0]

-----------------------------------------------------------------------------
(* Scripts *)

Write(l) == <<"write", l>>
Read(l) == <<"read", l>>
Unlock(l) == <<"unlock", l>>
Do(what) == <<"do", what>>
Written(l, what) == <<Write(l), Do(what), Unlock(l)>>

\* Mutant: what is shown is cleared before what it is made of.
ClearViewsFirst ==
    <<Do("resetSearch"), Do("clearFilter"), Do("clearRows"), Do("clearThreadRows"),
      Do("clearChart"), Do("resetLastTime"), Do("resetLastValue")>>
    \o Written("List", "clearOperations") \o Written("Symbols", "nothing")
    \o Written("Stats", "clearStats")

\* Mutant: the statistics are cleared while the symbols are locked.
ClearNested ==
    Written("List", "clearOperations")
    \o <<Write("Symbols")>> \o Written("Stats", "clearStats") \o <<Unlock("Symbols")>>
    \o <<Do("resetSearch"), Do("clearFilter"), Do("clearRows"), Do("clearThreadRows"),
         Do("clearChart"), Do("resetLastTime"), Do("resetLastValue")>>

\* clearData
ClearScript ==
    Written("List", "clearOperations") \o Written("Symbols", "nothing")
    \o <<Do("resetSearch")>>
    \o Written("Stats", "clearStats")
    \o <<Do("clearFilter"), Do("clearRows"), Do("clearThreadRows"),
         Do("clearChart"), Do("resetLastTime"), Do("resetLastValue")>>

\* the handlers of the receiving thread
Handler(m) ==
    IF m.code = "init" THEN ClearScript \o Written("Stats", "count")
    ELSE IF m.code = "backtrace" THEN Written("List", "backtrace") \o Written("Stats", "count")
    ELSE IF m.code = "symbol" THEN Written("Symbols", "nothing") \o Written("Stats", "count")
    ELSE IF m.code \in ThreadCode THEN Written("Stats", "thread")
    ELSE <<Write("List")>> \o Written("Stats", "operation") \o <<Unlock("List")>>

\* onFilterButtonClicked
FilterScript ==
    <<Do("resetSearch"), Do("clearFilter"), Read("List"), Do("search"), Unlock("List"),
      Do("clearRows"), Do("countRows"), Do("fetchTo")>>

\* onTimerUpdate
TimerScript ==
    <<Read("Stats"), Read("Symbols"), Unlock("Symbols"), Do("threadRows"), Do("usage"),
      Unlock("Stats"), Do("draw")>>

\* onMemoryOperationDoubleClicked, for an operation with a backtrace
DoubleClickScript == <<Read("Symbols"), Unlock("Symbols")>>

Init ==
    /\ ControllerInit
    /\ todo = [t \in ServerThread |-> <<>>]
    /\ writing = [l \in Lock |-> NULL]
    /\ reading = [l \in Lock |-> {}]
    /\ msg = NoMsg /\ received = 0
    /\ opsSession = 0 /\ statsSession = 0
    /\ filter = NULL
    /\ searched = 0
    /\ m_searchStats = NoSearch
    /\ m_listFilterMemoryOperation = <<>>
    /\ rowCount = 0 /\ m_iLoadedCount = 0
    /\ m_listFilterThreadInfos = {}
    /\ memoryUsageUpdate = <<>> /\ chart = <<>>
    /\ m_iLastUpdateTime = 0 /\ m_iLastUpdateValue = 0
    /\ late = FALSE /\ stopping = FALSE

-----------------------------------------------------------------------------
(* What the scripts do to the lists and the statistics *)

DoSources(what) ==
    \/ /\ what = "clearOperations"
       /\ clearOperations
       /\ opsSession' = opsSession + 1
       /\ UNCHANGED <<threadVars, m_globalStats, statsSession>>
    \/ /\ what = "clearStats"
       /\ clearThreads
       /\ m_globalStats' = ResetStats(m_globalStats)
       /\ statsSession' = statsSession + 1
       /\ UNCHANGED <<listVars, opsSession>>
    \/ /\ what = "count"
       /\ m_globalStats' = CountMessage(m_globalStats)
       /\ UNCHANGED <<listVars, threadVars, opsSession, statsSession>>
    \/ /\ what = "backtrace"
       /\ setBacktrace(msg)
       /\ UNCHANGED <<threadVars, m_globalStats, opsSession, statsSession>>
    \/ /\ what = "thread"
       /\ updateThreadInfos(msg)
       /\ UNCHANGED <<opsSession, statsSession>>
    \/ /\ what = "operation"
       /\ addMemoryOperation(msg)
       /\ UNCHANGED <<opsSession, statsSession>>

(* What they do to the search *)

\* Mutant: a report of free is not taken to be freed.
AcceptsFree(op) ==
    /\ filter.notFreed => ~op.freed
    /\ filter.thread # NULL => op.thread = filter.thread

\* bAccept; the limits in time work as the thread does
Accepts(op) ==
    /\ filter.notFreed => op.code # "free" /\ ~op.freed
    /\ filter.thread # NULL => op.thread = filter.thread

\* the statistics of an operation that is accepted
CountFound(s, op) ==
    [ops |-> s.ops + 1,
     allocCount |-> Allocs(s, op),
     freeCount |-> Frees(s, op),
     allocSize |-> ToWord(s.allocSize + op.size),
     freeSize |-> ToWord(s.freeSize + (IF op.freed THEN op.size ELSE 0)),
     remainingSize |-> ToWord(s.remainingSize + (IF op.freed THEN 0 ELSE op.size))]

\* the loop of onFilterButtonClicked is at its end
SearchDone == searched = Len(m_listMemoryOperation)

DoSearch(what) ==
    \/ /\ what = "resetSearch"
       /\ m_searchStats' = NoSearch
       /\ UNCHANGED <<searched, m_listFilterMemoryOperation>>
    \/ /\ what = "clearFilter"
       /\ m_listFilterMemoryOperation' = <<>>
       /\ UNCHANGED <<searched, m_searchStats>>
    \/ /\ what = "search" /\ ~SearchDone
       /\ searched' = searched + 1
       /\ LET found == m_listMemoryOperation[searched + 1]
          IN  IF Accepts(found)
              THEN /\ m_searchStats' = CountFound(m_searchStats, found)
                   /\ m_listFilterMemoryOperation' =
                        Append(m_listFilterMemoryOperation, <<opsSession, searched + 1>>)
              ELSE UNCHANGED <<m_searchStats, m_listFilterMemoryOperation>>
    \/ /\ what = "search" /\ SearchDone
       /\ searched' = 0
       /\ UNCHANGED <<m_searchStats, m_listFilterMemoryOperation>>

(* What they do to the rows of the two item models *)

DoRows(what) ==
    \/ /\ what = "clearRows"
       /\ m_iLoadedCount' = 0
       /\ UNCHANGED <<filter, rowCount, m_listFilterThreadInfos, late>>
    \/ /\ what = "countRows"
       /\ rowCount' = Len(m_listFilterMemoryOperation)
       /\ UNCHANGED <<filter, m_iLoadedCount, m_listFilterThreadInfos, late>>
    \/ /\ what = "fetchTo"
       /\ m_iLoadedCount' = rowCount
       /\ filter' = NULL /\ rowCount' = 0     \* the locals of onFilterButtonClicked
       /\ late' = (late \/ rowCount # Len(m_listFilterMemoryOperation))
       /\ UNCHANGED m_listFilterThreadInfos
    \/ /\ what = "clearThreadRows"
       /\ m_listFilterThreadInfos' = {}
       /\ UNCHANGED <<filter, rowCount, m_iLoadedCount, late>>
    \/ /\ what = "threadRows"
       /\ m_listFilterThreadInfos' = {<<statsSession, e>> : e \in m_listThreadInfos}
       /\ UNCHANGED <<filter, rowCount, m_iLoadedCount, late>>

(* What they do to the chart *)

\* Mutant: the last second drawn is never drawn again.
UpdatedOnce(t) == t # m_iLastUpdateTime

\* a second is drawn unless it was drawn last with the value it has
Updated(t) == t = m_iLastUpdateTime => value(m_globalStats.usage, t) # m_iLastUpdateValue

\* the seconds the timer looks at, and those it draws
Looked ==
    LET u == m_globalStats.usage
        iStartTime == IF m_iLastUpdateTime = 0 THEN u.first ELSE m_iLastUpdateTime
    IN  {t \in DOMAIN u.sizes : iStartTime # 0 /\ iStartTime <= t /\ t <= u.last}

ToDraw == {t \in Looked : Updated(t)}

Point(t) == [session |-> statsSession, time |-> t, size |-> value(m_globalStats.usage, t)]

\* memoryUsageUpdate, in the order of the seconds
InOrder(S) ==
    LET N == 1..Cardinality(S)
    IN  CHOOSE s \in [N -> S] : \A i, j \in N : i < j => s[i] < s[j]
Points == [i \in 1..Cardinality(ToDraw) |-> Point(InOrder(ToDraw)[i])]

DoChart(what) ==
    \/ /\ what = "usage"
       /\ memoryUsageUpdate' = Points
       /\ IF ToDraw = {} THEN UNCHANGED <<m_iLastUpdateTime, m_iLastUpdateValue>>
          ELSE /\ m_iLastUpdateTime' = Max(ToDraw)
               /\ m_iLastUpdateValue' = value(m_globalStats.usage, Max(Looked))
       /\ UNCHANGED <<chart, late>>
    \/ /\ what = "draw" /\ memoryUsageUpdate # <<>>
       /\ chart' = Append(chart, Head(memoryUsageUpdate))
       /\ memoryUsageUpdate' = Tail(memoryUsageUpdate)
       /\ late' = (late \/ Head(memoryUsageUpdate).session # statsSession)
       /\ UNCHANGED <<m_iLastUpdateTime, m_iLastUpdateValue>>
    \/ /\ what = "draw" /\ memoryUsageUpdate = <<>>
       /\ UNCHANGED <<chartVars, late>>
    \/ /\ what = "clearChart"
       /\ chart' = <<>>
       /\ UNCHANGED <<memoryUsageUpdate, m_iLastUpdateTime, m_iLastUpdateValue, late>>
    \/ /\ what = "resetLastTime"
       /\ m_iLastUpdateTime' = 0
       /\ UNCHANGED <<memoryUsageUpdate, chart, m_iLastUpdateValue, late>>
    \/ /\ what = "resetLastValue"
       /\ m_iLastUpdateValue' = 0
       /\ UNCHANGED <<memoryUsageUpdate, chart, m_iLastUpdateTime, late>>

-----------------------------------------------------------------------------
(* The threads *)

Busy(t) == todo[t] # <<>>
At(t) == IF Busy(t) THEN Head(todo[t]) ELSE <<"none", "none">>

Advance(t) == todo' = [todo EXCEPT ![t] = Tail(@)]

\* Mutant: who reads does not look for who writes.
FreeToReadAlways(l) == TRUE

FreeToRead(l) == writing[l] = NULL
FreeToWrite(l) == writing[l] = NULL /\ reading[l] = {}

\* lockForWrite, lockForRead, unlock
Locking(t) ==
    /\ \/ /\ At(t)[1] = "write"
          /\ FreeToWrite(At(t)[2])
          /\ writing' = [writing EXCEPT ![At(t)[2]] = t]
          /\ UNCHANGED reading
       \/ /\ At(t)[1] = "read"
          /\ FreeToRead(At(t)[2])
          /\ reading' = [reading EXCEPT ![At(t)[2]] = @ \cup {t}]
          /\ UNCHANGED writing
       \/ /\ At(t)[1] = "unlock"
          /\ writing' = [writing EXCEPT ![At(t)[2]] = NULL]
          /\ reading' = [reading EXCEPT ![At(t)[2]] = @ \ {t}]
    /\ Advance(t)
    /\ UNCHANGED <<msg, received, stopping, sourceVars, searchVars, rowVars,
                   chartVars, late>>

\* a loop stays where it is until it is done
Looping(t) ==
    \/ At(t)[2] = "search" /\ ~SearchDone
    \/ At(t)[2] = "draw" /\ memoryUsageUpdate # <<>>

Doing(t) ==
    /\ At(t)[1] = "do"
    /\ \/ DoSources(At(t)[2]) /\ UNCHANGED <<searchVars, rowVars, chartVars, late>>
       \/ DoSearch(At(t)[2]) /\ UNCHANGED <<sourceVars, rowVars, chartVars, late>>
       \/ DoRows(At(t)[2]) /\ UNCHANGED <<sourceVars, searchVars, chartVars>>
       \/ DoChart(At(t)[2]) /\ UNCHANGED <<sourceVars, searchVars, rowVars>>
       \/ At(t)[2] = "nothing" /\ UNCHANGED <<sourceVars, searchVars, rowVars, chartVars, late>>
    /\ IF Looping(t) THEN UNCHANGED todo ELSE Advance(t)
    /\ UNCHANGED <<msg, received, stopping, lockVars>>

Step(t) == Locking(t) \/ Doing(t)

\* the messages a process may send
Time == IF m_globalStats.last = 0 THEN {1} ELSE {m_globalStats.last, m_globalStats.last + 1}
Blocks == {m_listMemoryOperation[i].ptr : i \in {j \in m_listMemoryOperationNonFreed : ~m_listMemoryOperation[j].freed}}

\* one of a set; the addresses are all alike
OneOf(S) == IF S = {} THEN {} ELSE {CHOOSE a \in S : TRUE}

\* m as the next message, sent in a second
Numbered(m, time) == [m EXCEPT !.num = received + 1, !.time = time]

Messages ==
    {[NoMsg EXCEPT !.code = c] : c \in {"symbol"} \cup {x \in {"init"} : opsSession < MaxSession}}
    \cup {[NoMsg EXCEPT !.code = "backtrace", !.num = received + 1, !.origin = received]}
    \cup {[Numbered(Msg(Main, "pthread_create", NULL, 0, NULL), 1) EXCEPT !.tid = Main]}
    \cup {Numbered(Msg(Main, "malloc", a, 1, NULL), s) :
                a \in OneOf(Addr \ Blocks), s \in {x \in Time : x <= MaxTime}}
    \cup {Numbered(Msg(Main, "free", NULL, 0, a), s) :
                a \in OneOf(Blocks \ {NULL}), s \in {x \in Time : x <= MaxTime}}

\* the receiving thread has read a message
Receive(m) ==
    /\ ~Busy(Receiver)
    /\ ~stopping
    /\ received < MaxReceived
    /\ received' = received + 1
    /\ msg' = m
    /\ todo' = [todo EXCEPT ![Receiver] = Handler(m)]
    /\ UNCHANGED <<stopping, lockVars, sourceVars, searchVars, rowVars, chartVars, late>>

GuiStarts(script) ==
    /\ ~Busy(Gui) /\ ~stopping
    /\ todo' = [todo EXCEPT ![Gui] = script]
    /\ UNCHANGED <<msg, received, stopping, lockVars, sourceVars, searchVars, chartVars, late>>

\* the button is clicked with some settings of the filter
FilterClicked == \E f \in Filters :
    /\ GuiStarts(FilterScript)
    /\ filter' = f
    /\ UNCHANGED <<rowCount, m_iLoadedCount, m_listFilterThreadInfos>>

Timeout == GuiStarts(TimerScript) /\ UNCHANGED rowVars

DoubleClicked ==
    /\ m_listFilterMemoryOperation # <<>>
    /\ GuiStarts(DoubleClickScript) /\ UNCHANGED rowVars

\* the window is closed: quit() ends the event loop of a socket build, and wait()
\* waits for the handler under way.  (The loop of the pipe build takes no notice.)
WindowClosed ==
    /\ ~Busy(Gui) /\ ~stopping
    /\ stopping' = TRUE
    /\ UNCHANGED <<todo, msg, received, lockVars, sourceVars, searchVars, rowVars,
                   chartVars, late>>

Next ==
    \/ \E t \in ServerThread : Step(t)
    \/ \E m \in Messages : Receive(m)
    \/ FilterClicked \/ Timeout \/ DoubleClicked \/ WindowClosed

Spec == Init /\ [][Next]_vars

\* a thread in a handler runs on; a lock that is free again and again is given
\* to who waits for it, a QReadWriteLock to who waits to write first
FairSpec == Spec /\ WF_vars(Step(Gui)) /\ SF_vars(Step(Receiver))

-----------------------------------------------------------------------------
(* Properties *)

\* The type of every variable.  A lock that is held for writing is not held for
\* reading.
TypeOK ==
    /\ stopping \in BOOLEAN /\ late \in BOOLEAN
    /\ \A l \in Lock :
            /\ writing[l] \in ServerThread \cup {NULL} /\ reading[l] \subseteq ServerThread
            /\ writing[l] # NULL => reading[l] = {}
    /\ received \in 0..MaxReceived
    /\ opsSession \in Nat /\ statsSession \in Nat
    /\ filter \in Filters \cup {NULL} /\ searched \in 0..Len(m_listMemoryOperation)
    /\ rowCount \in Nat /\ m_iLoadedCount \in Nat
    /\ \A r \in m_listFilterThreadInfos : r \in Nat \X Nat
    /\ \A i \in 1..Len(m_listFilterMemoryOperation) : m_listFilterMemoryOperation[i] \in Nat \X Nat
    /\ m_iLastUpdateTime \in 0..MaxTime /\ m_iLastUpdateValue \in Nat

\* Every handler comes to its end, whichever locks the other thread holds: the
\* threads do not wait for each other for ever, nor does wait() when the window of
\* a socket build is closed.
HandlersEnd == \A t \in ServerThread : []<>~Busy(t)

\* Once a new connection is handled everything the window shows is of it: the
\* rows, the threads and, unless the timer was drawing or a search was counting
\* its rows meanwhile, the chart and the number of rows.
ViewOfSession ==
    ~Busy(Receiver) =>
        /\ opsSession = statsSession
        /\ \A i \in 1..Len(m_listFilterMemoryOperation) : m_listFilterMemoryOperation[i][1] = opsSession
        /\ \A r \in m_listFilterThreadInfos : r[1] = statsSession
        /\ ~late => /\ \A i \in 1..Len(chart) : chart[i].session = statsSession
                    /\ ~Busy(Gui) => m_iLoadedCount = Len(m_listFilterMemoryOperation)

SizeOfOps(S) == MapThenSumSet(LAMBDA i : m_listMemoryOperation[i].size, S)

\* the search is done, and still has the list
SearchEnds == At(Gui) = Unlock("List") /\ Gui \in reading["List"]

\* What a search shows and counts agrees with what the statistics counted as the
\* operations came, although a new connection resets both without the lock the
\* search holds: everything if everything is asked for, what remains if only that.
FilterAgrees ==
    SearchEnds /\ filter.thread = NULL =>
        LET ops == m_listMemoryOperation
            kept == {i \in 1..Len(ops) : Colour(ops[i]) = "red"}
            shown == IF filter.notFreed THEN kept ELSE 1..Len(ops)
        IN  /\ m_searchStats.ops = Cardinality(shown)
            /\ Len(m_listFilterMemoryOperation) = Cardinality(shown)
            /\ m_searchStats.remainingSize = SizeOfOps(kept)
            /\ opsSession = statsSession =>
                    /\ m_searchStats.remainingSize = m_globalStats.remainingSize
                    /\ ~filter.notFreed =>
                            /\ m_searchStats.allocCount = m_globalStats.allocCount
                            /\ m_searchStats.freeCount = m_globalStats.freeCount
                            /\ m_searchStats.freeSize = m_globalStats.freeSize

\* the value the chart shows for a second: points are only added
Drawn(t) ==
    LET at == {i \in 1..Len(chart) : chart[i].time = t}
    IN  IF at = {} THEN NULL ELSE chart[Max(at)].size

\* "View real time ... usage" (README.md:24): when times come in order, every second
\* the timer has left behind is drawn with the value it ended with, and the last
\* one with the value last seen, also after a new connection, and even when the
\* timer was drawing while it came.
ChartDrawn ==
    ~Busy(Gui) /\ ~Busy(Receiver) =>
        /\ \A t \in DOMAIN m_globalStats.usage.sizes :
                t < m_iLastUpdateTime => Drawn(t) = value(m_globalStats.usage, t)
        /\ m_iLastUpdateTime # 0 => Drawn(m_iLastUpdateTime) = m_iLastUpdateValue
=============================================================================

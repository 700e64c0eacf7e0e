------------------------------ MODULE Symbols -------------------------------
(***************************************************************************)
(* lib/backtrace.c, backtrace_send of lib/wrapper.c and the symbol table   *)
(* of the server.  A backtrace is a list of addresses; the library sends   *)
(* the name of an address only when it is not in its cache, which holds    *)
(* the addresses seen most.  The stream is the FIFO that Channel promises. *)
(*                                                                         *)
(* A thread is cut where others can come between: the backtrace message,   *)
(* each look into the cache (under g_lockAddrCount) and each symbol        *)
(* message.  An address is in the cache before its symbol is sent.         *)
(*                                                                         *)
(* A name is the number of the process it is from: the same address has    *)
(* another name in another process.                                        *)
(***************************************************************************)
EXTENDS Integers, Sequences, FiniteSets

CONSTANTS
    Thread,
    Address,
    NULL,           \* the address a free cell holds
    CELLS,          \* BACKTRACE_ADDR_CACHE_COUNT
    INT_MAX,        \* INT32_MAX
    Backtraces,     \* what backtrace() may return: sequences of addresses
    MaxBacktrace,   \* BOUND: backtraces of all processes
    MaxProcess      \* BOUND: processes traced, one after the other

ASSUME SymbolsAssumption ==
    /\ NULL \notin Address
    /\ CELLS \in Nat \ {0} /\ INT_MAX \in Nat \ {0}
    /\ \A addrs \in Backtraces : addrs \in Seq(Address)
    /\ MaxBacktrace \in Nat /\ MaxProcess \in Nat

VARIABLES
    g_listAddr,         \* the address in each cell
    g_listAddrCount,    \* how often it was seen
    todo,               \* the addresses each thread has still to go through
    sending,            \* the address whose symbol each thread is about to send
    stream,             \* messages sent and not yet received
    m_listSymbolInfos,  \* the name the server has for each address, 0 for none
    process,            \* the number of the traced process
    session,            \* history: the process the server shows
    received,           \* history: addresses of its backtraces
    symbols,            \* history: symbols the process sent, in order
    backtraces,         \* how many backtraces were sent
    overflowed          \* history: a count went beyond INT_MAX

cacheVars == <<g_listAddr, g_listAddrCount, overflowed>>
threadVars == <<todo, sending>>
serverVars == <<m_listSymbolInfos, session, received>>
sentVars == <<symbols, backtraces>>
vars == <<cacheVars, threadVars, stream, serverVars, process, sentVars>>

Cell == 1..CELLS
Count == (-INT_MAX - 1)..INT_MAX

\* the messages; every process knows its number
InitMsg(n) == [code |-> "init", addr |-> <<>>, process |-> n]
BacktraceMsg(addrs) == [code |-> "backtrace", addr |-> addrs, process |-> process]
SymbolMsg(a) == [code |-> "symbol", addr |-> <<a>>, process |-> process]

Addresses(s) == {s[i] : i \in 1..Len(s)}

Unnamed == [a \in Address |-> 0]

Init ==
    /\ g_listAddr = [c \in Cell |-> NULL]
    /\ g_listAddrCount = [c \in Cell |-> 0]
    /\ overflowed = FALSE
    /\ todo = [t \in Thread |-> <<>>]
    /\ sending = [t \in Thread |-> NULL]
    /\ stream = <<InitMsg(1)>>
    /\ m_listSymbolInfos = Unnamed /\ session = 0 /\ received = {}
    /\ process = 1 /\ symbols = <<>> /\ backtraces = 0

-----------------------------------------------------------------------------
(* The cache *)

\* Mutant: a count is not held in an int.
IncrUnbounded(n) == n + 1

\* the addition of an int as the compiled code does it
Incr(n) == IF n = INT_MAX THEN -INT_MAX - 1 ELSE n + 1

\* the scan of backtrace_check_addr ends at the first cell with the address
Hit(a) == \E c \in Cell : g_listAddr[c] = a
CellOf(a) == CHOOSE c \in Cell : g_listAddr[c] = a /\ \A d \in 1..(c - 1) : g_listAddr[d] # a

\* Mutant: a new address always takes the first cell.
FirstCell == 1

\* the first of the cells seen least; a count of INT_MAX is not below iValMin
PosMin ==
    IF \A c \in Cell : g_listAddrCount[c] = INT_MAX THEN 1
    ELSE CHOOSE c \in Cell :
            /\ \A d \in Cell : g_listAddrCount[c] <= g_listAddrCount[d]
            /\ \A d \in 1..(c - 1) : g_listAddrCount[c] < g_listAddrCount[d]

\* backtrace_check_addr
backtrace_check_addr(a) ==
    IF Hit(a)
    THEN /\ g_listAddrCount' = [g_listAddrCount EXCEPT ![CellOf(a)] = Incr(@)]
         /\ overflowed' = (overflowed \/ g_listAddrCount[CellOf(a)] = INT_MAX)
         /\ UNCHANGED g_listAddr
    ELSE /\ g_listAddr' = [g_listAddr EXCEPT ![PosMin] = a]
         /\ g_listAddrCount' = [g_listAddrCount EXCEPT ![PosMin] = 1]
         /\ UNCHANGED overflowed

-----------------------------------------------------------------------------
(* backtrace_send *)

Idle(t) == todo[t] = <<>> /\ sending[t] = NULL

\* the backtrace message goes first
SendBacktrace(t, addrs) ==
    /\ Idle(t)
    /\ backtraces < MaxBacktrace
    /\ backtraces' = backtraces + 1
    /\ stream' = Append(stream, BacktraceMsg(addrs))
    /\ todo' = [todo EXCEPT ![t] = addrs]
    /\ UNCHANGED <<cacheVars, sending, serverVars, process, symbols>>

\* Mutant: a symbol is sent for the first address of a backtrace only.
CheckAddrOfFirst(t) ==
    /\ todo[t] # <<>> /\ sending[t] = NULL
    /\ backtrace_check_addr(Head(todo[t]))
    /\ todo' = [todo EXCEPT ![t] = Tail(@)]
    /\ sending' = [sending EXCEPT ![t] =
                    IF Hit(Head(todo[t])) \/ Len(todo[t]) = 1 THEN NULL ELSE Head(todo[t])]
    /\ UNCHANGED <<stream, serverVars, process, sentVars>>

\* the next address is looked up
CheckAddr(t) ==
    /\ todo[t] # <<>> /\ sending[t] = NULL
    /\ backtrace_check_addr(Head(todo[t]))
    /\ todo' = [todo EXCEPT ![t] = Tail(@)]
    /\ sending' = [sending EXCEPT ![t] = IF Hit(Head(todo[t])) THEN NULL ELSE Head(todo[t])]
    /\ UNCHANGED <<stream, serverVars, process, sentVars>>

\* its symbol is sent
SendSymbol(t) ==
    /\ sending[t] # NULL
    /\ stream' = Append(stream, SymbolMsg(sending[t]))
    /\ symbols' = Append(symbols, sending[t])
    /\ sending' = [sending EXCEPT ![t] = NULL]
    /\ UNCHANGED <<cacheVars, todo, serverVars, process, backtraces>>

-----------------------------------------------------------------------------
(* The server, and the end of a process *)

\* Mutant: the names of the process before stay.
ClearAllButNames == UNCHANGED m_listSymbolInfos

\* clearData
ClearNames == m_listSymbolInfos' = Unnamed

\* Mutant: a name replaces nothing, and is not added either.
addKnownSymbolInfos(a, name) ==
    m_listSymbolInfos' = [m_listSymbolInfos EXCEPT ![a] = IF @ = 0 THEN @ ELSE name]

\* addSymbolInfos inserts what is not there
addSymbolInfos(a, name) ==
    m_listSymbolInfos' = [m_listSymbolInfos EXCEPT ![a] = IF @ = 0 THEN name ELSE @]

\* doProcessMsgV1 and the handlers
Deliver ==
    /\ stream # <<>>
    /\ stream' = Tail(stream)
    /\ LET msg == Head(stream)
       IN  \/ msg.code = "init" /\ ClearNames /\ session' = msg.process /\ received' = {}
           \/ /\ msg.code = "backtrace"
              /\ received' = received \cup Addresses(msg.addr)
              /\ UNCHANGED <<m_listSymbolInfos, session>>
           \/ /\ msg.code = "symbol"
              /\ addSymbolInfos(Head(msg.addr), msg.process)
              /\ UNCHANGED <<session, received>>
    /\ UNCHANGED <<cacheVars, threadVars, process, sentVars>>

\* the process dies with what it had not written, another starts with an empty
\* cache (backtrace_init)
Restart ==
    /\ process < MaxProcess
    /\ process' = process + 1
    /\ g_listAddr' = [c \in Cell |-> NULL]
    /\ g_listAddrCount' = [c \in Cell |-> 0]
    /\ overflowed' = FALSE
    /\ todo' = [t \in Thread |-> <<>>]
    /\ sending' = [t \in Thread |-> NULL]
    /\ \E n \in 0..Len(stream) : stream' = Append(SubSeq(stream, 1, n), InitMsg(process + 1))
    /\ symbols' = <<>>
    /\ UNCHANGED <<serverVars, backtraces>>

Step(t) == CheckAddr(t) \/ SendSymbol(t)

Next ==
    \/ \E t \in Thread : Step(t) \/ \E addrs \in Backtraces : SendBacktrace(t, addrs)
    \/ Deliver
    \/ Restart

Spec == Init /\ [][Next]_vars

\* threads in backtrace_send run on, and the server reads
FairSpec == Spec /\ (\A t \in Thread : WF_vars(Step(t))) /\ WF_vars(Deliver)

-----------------------------------------------------------------------------
(* Properties *)

\* The type of every variable.
TypeOK ==
    /\ g_listAddr \in [Cell -> Address \cup {NULL}]
    /\ g_listAddrCount \in [Cell -> Count]
    /\ overflowed \in BOOLEAN
    /\ todo \in [Thread -> Seq(Address)]
    /\ sending \in [Thread -> Address \cup {NULL}]
    /\ stream \in Seq([code : {"init", "backtrace", "symbol"}, addr : Seq(Address), process : Nat])
    /\ m_listSymbolInfos \in [Address -> Nat]
    /\ process \in Nat /\ session \in Nat
    /\ received \subseteq Address
    /\ symbols \in Seq(Address) /\ backtraces \in Nat

\* symbols of the running process that the server has not read
InStream == {a \in Address : \E i \in 1..Len(stream) : stream[i] = SymbolMsg(a)}

Known == {a \in Address : session = process /\ m_listSymbolInfos[a] # 0}

\* The cache is right to say that nothing need be sent: the symbol of every
\* address in it is known, in the stream or about to be sent, whatever was
\* replaced and whichever process was traced before.
SymbolOnItsWay ==
    \A c \in Cell : g_listAddr[c] # NULL =>
        g_listAddr[c] \in Known \cup InStream \cup {sending[t] : t \in Thread}

\* A name in the table is one of the process that is shown, although a name that
\* is there is never replaced.
NamesAreOwn == \A a \in Address : m_listSymbolInfos[a] \in {0, session}

\* addresses whose symbol was sent or is about to be
Looked == Addresses(symbols) \cup ({sending[t] : t \in Thread} \ {NULL})

\* "Optimize the number of symbol infos sent" (wrapper.c:165): as long as the
\* cache is large enough, no symbol is sent twice, unless a count overflowed.
SentOnce ==
    Cardinality(Looked) <= CELLS /\ ~overflowed =>
        /\ \A i, j \in 1..Len(symbols) : symbols[i] = symbols[j] => i = j
        /\ \A t, u \in Thread : sending[t] # NULL /\ sending[t] = sending[u] => t = u

\* "Get backtrace for every memory operation" (README.md:28): the name of every
\* address of a backtrace arrives, unless the window is emptied before.
NamesArrive ==
    \A a \in Address : a \in received ~> (m_listSymbolInfos[a] # 0 \/ a \notin received)
=============================================================================

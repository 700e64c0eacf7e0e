--------------------------- MODULE SymbolsProofs ---------------------------
(***************************************************************************)
(* What Symbols guarantees for every number of threads, every cache size,  *)
(* every width of its counts and any number of processes traced one after  *)
(* the other.                                                              *)
(***************************************************************************)
EXTENDS Symbols, SequenceTheorems, FiniteSums

Message == [code : {"init", "backtrace", "symbol"}, addr : Seq(Address), process : Nat]

\* The messages of the code are messages.
LEMMA MessageType ==
    ASSUME process \in Nat
    PROVE  /\ \A n \in Nat : InitMsg(n) \in Message
           /\ \A addrs \in Seq(Address) : BacktraceMsg(addrs) \in Message
           /\ \A a \in Address : SymbolMsg(a) \in Message
<1>1. <<>> \in Seq(Address) /\ \A a \in Address : <<a>> \in Seq(Address)
  OBVIOUS
<1>2. QED
  BY <1>1 DEF Message, InitMsg, BacktraceMsg, SymbolMsg

-----------------------------------------------------------------------------
(* Types *)

\* Every count stays one of an int, also across the overflow.
LEMMA IncrType == ASSUME NEW n \in Count PROVE Incr(n) \in Count
BY SymbolsAssumption DEF Count, Incr

\* A look into the cache keeps its type.
LEMMA CacheType ==
    ASSUME TypeOK, NEW a \in Address, backtrace_check_addr(a)
    PROVE  /\ g_listAddr' \in [Cell -> Address \cup {NULL}]
           /\ g_listAddrCount' \in [Cell -> Count]
           /\ overflowed' \in BOOLEAN
<1>0. g_listAddr \in [Cell -> Address \cup {NULL}] /\ g_listAddrCount \in [Cell -> Count]
      /\ overflowed \in BOOLEAN
  BY DEF TypeOK
<1>1. CASE Hit(a)
  <2>1. \A c \in Cell : Incr(g_listAddrCount[c]) \in Count
    BY <1>0, IncrType
  <2>2. QED
    BY <1>0, <1>1, <2>1 DEF backtrace_check_addr
<1>2. CASE ~Hit(a)
  <2>1. 1 \in Count
    BY SymbolsAssumption DEF Count
  <2>2. QED
    BY <1>0, <1>2, <2>1 DEF backtrace_check_addr
<1>3. QED
  BY <1>1, <1>2

LEMMA TypeInit == Init => TypeOK
<1> SUFFICES ASSUME Init PROVE TypeOK
  OBVIOUS
<1>1. InitMsg(1) \in Message
  BY MessageType DEF Init
<1>2. 0 \in Count
  BY SymbolsAssumption DEF Count
<1>3. stream \in Seq(Message)
  BY <1>1 DEF Init
<1>4. todo \in [Thread -> Seq(Address)] /\ symbols \in Seq(Address)
  BY DEF Init
<1>5. m_listSymbolInfos \in [Address -> Nat] /\ received \subseteq Address
  BY DEF Init, Unnamed
<1>6. QED
  BY <1>2, <1>3, <1>4, <1>5 DEF Init, TypeOK, Message

LEMMA TypeStep == TypeOK /\ [Next]_vars => TypeOK'
<1> SUFFICES ASSUME TypeOK, [Next]_vars PROVE TypeOK'
  OBVIOUS
<1>0. stream \in Seq(Message) /\ process \in Nat
  BY DEF TypeOK, Message
<1>1. ASSUME NEW t \in Thread, NEW addrs \in Backtraces, SendBacktrace(t, addrs)
      PROVE  TypeOK'
  <2>1. addrs \in Seq(Address)
    BY SymbolsAssumption
  <2>2. BacktraceMsg(addrs) \in Message
    BY <1>0, <2>1, MessageType
  <2>3. stream' \in Seq(Message)
    BY <1>0, <1>1, <2>2, AppendProperties DEF SendBacktrace
  <2>4. QED
    BY <1>1, <2>1, <2>3 DEF SendBacktrace, TypeOK, cacheVars, serverVars, Message
<1>2. ASSUME NEW t \in Thread, CheckAddr(t)
      PROVE  TypeOK'
  <2>1. Head(todo[t]) \in Address /\ Tail(todo[t]) \in Seq(Address)
    BY <1>2, HeadTailProperties DEF CheckAddr, TypeOK
  <2>2. backtrace_check_addr(Head(todo[t]))
    BY <1>2 DEF CheckAddr
  <2>3. /\ g_listAddr' \in [Cell -> Address \cup {NULL}]
        /\ g_listAddrCount' \in [Cell -> Count]
        /\ overflowed' \in BOOLEAN
    BY <2>1, <2>2, CacheType
  <2>4. QED
    BY <1>2, <2>1, <2>3 DEF CheckAddr, TypeOK, serverVars, sentVars
<1>3. ASSUME NEW t \in Thread, SendSymbol(t)
      PROVE  TypeOK'
  <2>1. sending[t] \in Address
    BY <1>3 DEF SendSymbol, TypeOK
  <2>2. SymbolMsg(sending[t]) \in Message
    BY <1>0, <2>1, MessageType
  <2>3. stream' \in Seq(Message)
    BY <1>0, <1>3, <2>2, AppendProperties DEF SendSymbol
  <2>4. symbols' \in Seq(Address)
    BY <1>3, <2>1, AppendProperties DEF SendSymbol, TypeOK
  <2>5. QED
    BY <1>3, <2>3, <2>4 DEF SendSymbol, TypeOK, cacheVars, serverVars, Message
<1>4. CASE Deliver
  <2> DEFINE msg == Head(stream)
  <2>1. msg \in Message /\ stream' \in Seq(Message)
    BY <1>0, <1>4, HeadTailProperties DEF Deliver
  <2>2. /\ m_listSymbolInfos' \in [Address -> Nat] /\ session' \in Nat
        /\ received' \subseteq Address
    <3>1. CASE msg.code = "init"
      BY <1>4, <2>1, <3>1 DEF Deliver, ClearNames, Unnamed, Message
    <3>2. CASE msg.code = "backtrace"
      <4>1. /\ received' = received \cup Addresses(msg.addr)
            /\ UNCHANGED <<m_listSymbolInfos, session>>
        BY <1>4, <3>2 DEF Deliver
      <4>2. Addresses(msg.addr) \subseteq Address
        BY <2>1, ElementOfSeq DEF Message, Addresses
      <4>3. QED
        BY <4>1, <4>2 DEF TypeOK
    <3>3. CASE msg.code = "symbol"
      <4>1. addSymbolInfos(Head(msg.addr), msg.process) /\ UNCHANGED <<session, received>>
        BY <1>4, <3>3 DEF Deliver
      <4>2. msg.process \in Nat
        BY <2>1 DEF Message
      <4>3. QED
        BY <4>1, <4>2 DEF addSymbolInfos, TypeOK
    <3>4. QED
      BY <2>1, <3>1, <3>2, <3>3 DEF Message
  <2>3. QED
    BY <1>4, <2>1, <2>2 DEF Deliver, TypeOK, cacheVars, threadVars, sentVars, Message
<1>5. CASE Restart
  <2>1. InitMsg(process + 1) \in Message
    BY <1>0, MessageType
  <2>2. PICK n \in 0..Len(stream) : stream' = Append(SubSeq(stream, 1, n), InitMsg(process + 1))
    BY <1>5 DEF Restart
  <2>3. SubSeq(stream, 1, n) \in Seq(Message)
    BY <1>0, SubSeqProperties
  <2>4. stream' \in Seq(Message)
    BY <2>1, <2>2, <2>3, AppendProperties
  <2>5. 0 \in Count
    BY SymbolsAssumption DEF Count
  <2>6. todo' \in [Thread -> Seq(Address)] /\ symbols' \in Seq(Address)
    BY <1>5 DEF Restart
  <2>7. g_listAddr' \in [Cell -> Address \cup {NULL}] /\ g_listAddrCount' \in [Cell -> Count]
        /\ overflowed' \in BOOLEAN
    BY <1>5, <2>5 DEF Restart
  <2>8. sending' \in [Thread -> Address \cup {NULL}] /\ process' \in Nat
    BY <1>0, <1>5 DEF Restart
  <2>9. QED
    BY <1>5, <2>4, <2>6, <2>7, <2>8 DEF Restart, TypeOK, serverVars, Message
<1>6. CASE UNCHANGED vars
  BY <1>6 DEF vars, cacheVars, threadVars, serverVars, sentVars, TypeOK
<1>7. QED
  BY <1>1, <1>2, <1>3, <1>4, <1>5, <1>6 DEF Next, Step

\* Every variable keeps its type; no count leaves the range of an int.
THEOREM TypeCorrect == Spec => []TypeOK
<1>1. QED
  BY TypeInit, TypeStep, PTL DEF Spec

-----------------------------------------------------------------------------
(* The stream *)

\* where the processes begin in the stream: messages are of processes the server
\* has not seen the end of, an init message opens each process that is not shown
\* yet, and the running process is shown or begins in the stream
Bounds == 1 <= process /\ session <= process

OfLiveProcess(m) == session <= m.process /\ m.process <= process

Opens(m, n) == m.code = "init" /\ m.process = n

MessagesInPlace ==
    \A i \in 1..Len(stream) :
        /\ OfLiveProcess(stream[i])
        /\ stream[i].code = "symbol" => \E a \in Address : stream[i].addr = <<a>>
        /\ stream[i].code = "init" => session < stream[i].process
        /\ \/ stream[i].process = session
           \/ \E j \in 1..i : Opens(stream[j], stream[i].process)

Ordered ==
    \A i, j \in 1..Len(stream) : i < j =>
        /\ stream[i].process <= stream[j].process
        /\ stream[j].code = "init" => stream[i].process < stream[j].process

RunningOpened ==
    session = process \/ \E i \in 1..Len(stream) : Opens(stream[i], process)

StreamInv == Bounds /\ MessagesInPlace /\ Ordered /\ RunningOpened

LEMMA StreamInit == Init => StreamInv
<1> SUFFICES ASSUME Init PROVE StreamInv
  OBVIOUS
<1>1. Len(stream) = 1 /\ stream[1] = InitMsg(1) /\ process = 1 /\ session = 0
  BY DEF Init
<1>2. QED
  BY <1>1 DEF StreamInv, Bounds, MessagesInPlace, OfLiveProcess, Opens, Ordered,
              RunningOpened, InitMsg

\* What the running process sends joins its messages.
LEMMA StreamAppend ==
    ASSUME TypeOK, StreamInv, NEW m \in Message,
           m.process = process, m.code # "init",
           m.code = "symbol" => \E a \in Address : m.addr = <<a>>,
           stream' = Append(stream, m), UNCHANGED <<session, process>>
    PROVE  StreamInv'
<1>1. stream \in Seq(Message) /\ session \in Nat /\ process \in Nat
  BY DEF TypeOK, Message
<1>2. /\ Len(stream') = Len(stream) + 1 /\ Len(stream) \in Nat
      /\ \A i \in 1..Len(stream) : stream'[i] = stream[i]
      /\ stream'[Len(stream) + 1] = m
  BY <1>1, AppendProperties
<1>3. MessagesInPlace'
  <2>1. ASSUME NEW i \in 1..Len(stream)
        PROVE  /\ OfLiveProcess(stream[i])'
               /\ stream'[i].code = "symbol" => \E a \in Address : stream'[i].addr = <<a>>
               /\ stream'[i].code = "init" => session' < stream'[i].process
               /\ \/ stream'[i].process = session'
                  \/ \E j \in 1..i : Opens(stream'[j], stream'[i].process)
    BY <1>1, <1>2 DEF StreamInv, MessagesInPlace, OfLiveProcess, Opens
  <2>2. session' = process' \/ \E j \in 1..Len(stream) : Opens(stream'[j], process')
    BY <1>1, <1>2 DEF StreamInv, RunningOpened, Opens
  <2>3. QED
    BY <1>1, <1>2, <2>1, <2>2 DEF StreamInv, Bounds, MessagesInPlace, OfLiveProcess, Opens
<1>4. Ordered'
  <2>1. \A i \in 1..Len(stream) : stream[i].process <= process
    BY DEF StreamInv, MessagesInPlace, OfLiveProcess
  <2>2. QED
    BY SMTT(30), <1>1, <1>2, <2>1 DEF StreamInv, Ordered
<1>5. QED
  BY <1>1, <1>2, <1>3, <1>4 DEF StreamInv, Bounds, RunningOpened, Opens

\* Taking the first message off keeps the others in place; the server now shows
\* the process it is of.
LEMMA StreamDeliver ==
    ASSUME TypeOK, StreamInv, Deliver
    PROVE  StreamInv' /\ session' = Head(stream).process
<1>1. stream \in Seq(Message) /\ session \in Nat /\ process \in Nat /\ stream # <<>>
      /\ process' = process
  BY DEF TypeOK, Message, Deliver
<1>2. /\ Len(stream) \in Nat /\ Len(stream) >= 1 /\ Len(stream') = Len(stream) - 1
      /\ \A i \in 1..Len(stream') : stream'[i] = stream[i + 1]
      /\ Head(stream) = stream[1]
      /\ \A i \in 1..Len(stream) : stream[i] \in Message
  BY <1>1, HeadTailProperties, ElementOfSeq DEF Deliver
<1>3. session' = stream[1].process
  <2>1. stream[1].process = session \/ Opens(stream[1], stream[1].process)
    BY <1>2 DEF StreamInv, MessagesInPlace, Opens
  <2>2. stream[1].code = "init" \/ session' = session
    BY <1>2 DEF Deliver
  <2>3. stream[1].code = "init" => session' = stream[1].process
    BY <1>2 DEF Deliver
  <2>4. QED
    BY <2>1, <2>2, <2>3 DEF Opens
<1>4. Bounds'
  BY <1>1, <1>2, <1>3 DEF StreamInv, Bounds, MessagesInPlace, OfLiveProcess
<1>5. MessagesInPlace'
  <2> SUFFICES ASSUME NEW i \in 1..Len(stream')
               PROVE  /\ OfLiveProcess(stream[i])'
                      /\ stream'[i].code = "symbol" => \E a \in Address : stream'[i].addr = <<a>>
                      /\ stream'[i].code = "init" => session' < stream'[i].process
                      /\ \/ stream'[i].process = session'
                         \/ \E j \in 1..i : Opens(stream'[j], stream'[i].process)
    BY DEF MessagesInPlace, Opens
  <2>1. i + 1 \in 1..Len(stream) /\ stream'[i] = stream[i + 1] /\ 1 \in 1..Len(stream)
    BY <1>2
  <2>2. stream[1].process <= stream[i + 1].process
        /\ (stream[i + 1].code = "init" => stream[1].process < stream[i + 1].process)
    BY <2>1 DEF StreamInv, Ordered
  <2>3. CASE stream[i + 1].process = session
    <3>1. session <= stream[1].process
      BY <2>1 DEF StreamInv, MessagesInPlace, OfLiveProcess
    <3>2. stream[1].process \in Nat /\ stream[i + 1].process \in Nat
      BY <1>2, <2>1 DEF Message
    <3>3. stream[i + 1].process = stream[1].process
      BY <1>1, <2>2, <2>3, <3>1, <3>2
    <3>4. QED
      BY <1>1, <1>3, <2>1, <2>2, <3>2, <3>3 DEF StreamInv, MessagesInPlace, OfLiveProcess
  <2>4. CASE \E j \in 1..(i + 1) : Opens(stream[j], stream[i + 1].process)
    <3>1. PICK j \in 1..(i + 1) : Opens(stream[j], stream[i + 1].process)
      BY <2>4
    <3>2. j = 1 => stream'[i].process = session'
      BY <1>3, <2>1, <3>1 DEF Opens
    <3>3. ASSUME j # 1
          PROVE  j - 1 \in 1..i /\ Opens(stream'[j - 1], stream'[i].process)
      <4>1. j - 1 \in 1..i /\ j - 1 \in 1..Len(stream') /\ (j - 1) + 1 = j
        BY <1>2, <3>3
      <4>2. stream'[j - 1] = stream[(j - 1) + 1]
        BY <1>2, <4>1
      <4>3. QED
        BY <2>1, <3>1, <4>1, <4>2
    <3>4. QED
      BY <1>1, <1>3, <2>1, <2>2, <3>2, <3>3 DEF StreamInv, MessagesInPlace, OfLiveProcess
  <2>5. QED
    BY <2>1, <2>3, <2>4 DEF StreamInv, MessagesInPlace
<1>6. Ordered'
  <2> SUFFICES ASSUME NEW i \in 1..Len(stream'), NEW j \in 1..Len(stream'), i < j
               PROVE  /\ stream'[i].process <= stream'[j].process
                      /\ stream'[j].code = "init" => stream'[i].process < stream'[j].process
    BY DEF Ordered
  <2>1. i + 1 \in 1..Len(stream) /\ j + 1 \in 1..Len(stream) /\ i + 1 < j + 1
    BY <1>2
  <2>2. stream'[i] = stream[i + 1] /\ stream'[j] = stream[j + 1]
    BY <1>2
  <2>3. QED
    BY <2>1, <2>2 DEF StreamInv, Ordered
<1>7. RunningOpened'
  <2>1. CASE session = process
    <3>1. stream[1].process = process
      BY <1>1, <1>2, <2>1 DEF StreamInv, MessagesInPlace, OfLiveProcess, Message
    <3>2. QED
      BY <1>1, <1>3, <3>1 DEF RunningOpened
  <2>2. CASE \E i \in 1..Len(stream) : Opens(stream[i], process)
    <3>1. PICK i \in 1..Len(stream) : Opens(stream[i], process)
      BY <2>2
    <3>2. i = 1 => session' = process'
      BY <1>1, <1>3, <3>1 DEF Opens
    <3>3. i # 1 => i - 1 \in 1..Len(stream') /\ Opens(stream'[i - 1], process')
      BY <1>1, <1>2, <3>1
    <3>4. QED
      BY <3>2, <3>3 DEF RunningOpened, Opens
  <2>3. QED
    BY <2>1, <2>2 DEF StreamInv, RunningOpened
<1>8. QED
  BY <1>2, <1>3, <1>4, <1>5, <1>6, <1>7 DEF StreamInv

\* A process that dies takes the end of the stream along, the next one opens its own.
LEMMA StreamRestart ==
    ASSUME TypeOK, StreamInv, Restart
    PROVE  StreamInv'
<1>1. stream \in Seq(Message) /\ session \in Nat /\ process \in Nat
      /\ process' = process + 1 /\ session' = session
  BY DEF TypeOK, Message, Restart, serverVars
<1>2. PICK n \in 0..Len(stream) : stream' = Append(SubSeq(stream, 1, n), InitMsg(process + 1))
  BY DEF Restart
<1>3. /\ n \in Nat /\ Len(stream) \in Nat /\ n <= Len(stream)
      /\ SubSeq(stream, 1, n) \in Seq(Message) /\ Len(SubSeq(stream, 1, n)) = n
      /\ \A i \in 1..n : SubSeq(stream, 1, n)[i] = stream[i]
  BY <1>1, SubSeqProperties
<1>4. /\ Len(stream') = n + 1
      /\ \A i \in 1..n : stream'[i] = stream[i] /\ i \in 1..Len(stream)
      /\ stream'[n + 1] = InitMsg(process + 1)
  BY <1>2, <1>3, AppendProperties
<1>5. \A i \in 1..n : stream[i] \in Message
  BY <1>1, <1>3, ElementOfSeq
<1>6. \A i \in 1..n : session <= stream[i].process /\ stream[i].process <= process
  BY <1>4 DEF StreamInv, MessagesInPlace, OfLiveProcess
<1>7. session <= process
  BY DEF StreamInv, Bounds
<1>8. MessagesInPlace'
  <2>1. ASSUME NEW i \in 1..n
        PROVE  /\ OfLiveProcess(stream[i])'
               /\ stream'[i].code = "symbol" => \E a \in Address : stream'[i].addr = <<a>>
               /\ stream'[i].code = "init" => session' < stream'[i].process
               /\ \/ stream'[i].process = session'
                  \/ \E j \in 1..i : Opens(stream'[j], stream'[i].process)
    <3>1. stream'[i] = stream[i] /\ \A j \in 1..i : stream'[j] = stream[j]
      BY <1>3, <1>4
    <3>2. stream[i].process \in Nat
      BY <1>5 DEF Message
    <3>3. OfLiveProcess(stream[i])'
      BY <1>1, <1>6, <3>1, <3>2 DEF OfLiveProcess
    <3>4. /\ stream[i].code = "symbol" => \E a \in Address : stream[i].addr = <<a>>
          /\ stream[i].code = "init" => session < stream[i].process
          /\ \/ stream[i].process = session
             \/ \E j \in 1..i : Opens(stream[j], stream[i].process)
      BY <1>4 DEF StreamInv, MessagesInPlace
    <3>5. QED
      BY <1>1, <3>1, <3>3, <3>4
  <2>2. stream'[n + 1].process = process' /\ Opens(stream'[n + 1], process')
        /\ stream'[n + 1].code = "init"
    BY <1>1, <1>4 DEF InitMsg, Opens
  <2>3. session' < process'
    BY <1>1, <1>7
  <2>4. OfLiveProcess(stream[n + 1])'
    BY <1>1, <2>2, <2>3 DEF OfLiveProcess
  <2>5. QED
    BY <1>3, <1>4, <2>1, <2>2, <2>3, <2>4 DEF MessagesInPlace
<1>9. Ordered'
  <2>1. \A i, j \in 1..n : i < j =>
            /\ stream'[i].process <= stream'[j].process
            /\ stream'[j].code = "init" => stream'[i].process < stream'[j].process
    BY <1>4 DEF StreamInv, Ordered
  <2> DEFINE last == stream'[n + 1].process
  <2>2. last = process + 1
    BY <1>4 DEF InitMsg
  <2>3. ASSUME NEW i \in 1..n
        PROVE  stream'[i].process < last /\ stream'[i].process <= last
    <3>1. stream'[i] = stream[i] /\ stream[i].process <= process
      BY <1>4, <1>6
    <3>2. stream[i].process \in Nat
      BY <1>5 DEF Message
    <3>3. QED
      BY <1>1, <2>2, <3>1, <3>2
  <2>4. QED
    BY <1>3, <1>4, <2>1, <2>3 DEF Ordered
<1>10. Bounds'
  BY <1>1, <1>7 DEF Bounds
<1>11. RunningOpened'
  BY <1>1, <1>3, <1>4 DEF RunningOpened, Opens, InitMsg
<1>12. QED
  BY <1>8, <1>9, <1>10, <1>11 DEF StreamInv

LEMMA StreamStep == TypeOK /\ StreamInv /\ [Next]_vars => StreamInv'
<1> SUFFICES ASSUME TypeOK, StreamInv, [Next]_vars PROVE StreamInv'
  OBVIOUS
<1>0. process \in Nat
  BY DEF TypeOK
<1>1. ASSUME NEW t \in Thread, NEW addrs \in Backtraces, SendBacktrace(t, addrs)
      PROVE  StreamInv'
  <2>1. BacktraceMsg(addrs) \in Message
    BY <1>0, SymbolsAssumption, MessageType
  <2>2. QED
    BY <1>1, <2>1, StreamAppend DEF SendBacktrace, BacktraceMsg, serverVars
<1>2. ASSUME NEW t \in Thread, SendSymbol(t)
      PROVE  StreamInv'
  <2>1. sending[t] \in Address
    BY <1>2 DEF SendSymbol, TypeOK
  <2>2. SymbolMsg(sending[t]) \in Message
    BY <1>0, <2>1, MessageType
  <2>3. QED
    BY <1>2, <2>1, <2>2, StreamAppend DEF SendSymbol, SymbolMsg, serverVars
<1>3. ASSUME UNCHANGED <<stream, session, process>> PROVE StreamInv'
  BY <1>3 DEF StreamInv, Bounds, MessagesInPlace, OfLiveProcess, Ordered, RunningOpened, Opens
<1>4. ASSUME NEW t \in Thread, CheckAddr(t) PROVE StreamInv'
  BY <1>3, <1>4 DEF CheckAddr, serverVars
<1>5. CASE UNCHANGED vars
  BY <1>3, <1>5 DEF vars, serverVars
<1>6. QED
  BY <1>1, <1>2, <1>4, <1>5, StreamDeliver, StreamRestart DEF Next, Step

-----------------------------------------------------------------------------
(* The names *)

LEMMA NamesStep == TypeOK /\ StreamInv /\ NamesAreOwn /\ [Next]_vars => NamesAreOwn'
<1> SUFFICES ASSUME TypeOK, StreamInv, NamesAreOwn, [Next]_vars PROVE NamesAreOwn'
  OBVIOUS
<1>1. CASE Deliver
  <2>1. session' = Head(stream).process
    BY <1>1, StreamDeliver
  <2>2. CASE ClearNames
    BY <2>2 DEF ClearNames, Unnamed, NamesAreOwn
  <2>3. CASE UNCHANGED <<m_listSymbolInfos, session>>
    BY <2>3 DEF NamesAreOwn
  <2>4. CASE addSymbolInfos(Head(Head(stream).addr), Head(stream).process)
             /\ UNCHANGED session
    BY <2>1, <2>4 DEF addSymbolInfos, NamesAreOwn, TypeOK
  <2>5. QED
    BY <1>1, <2>2, <2>3, <2>4 DEF Deliver
<1>2. ASSUME UNCHANGED <<m_listSymbolInfos, session>> PROVE NamesAreOwn'
  BY <1>2 DEF NamesAreOwn
<1>3. QED
  BY <1>1, <1>2 DEF Next, Step, SendBacktrace, CheckAddr, SendSymbol, Restart, vars, serverVars

\* A name in the server's table is one of the process it shows, whatever was lost
\* with the processes before: between two processes an init message clears it.
THEOREM NamesOfSession == Spec => []NamesAreOwn
<1>1. Init => NamesAreOwn
  BY DEF Init, Unnamed, NamesAreOwn
<1>2. QED
  BY <1>1, TypeInit, TypeStep, StreamInit, StreamStep, NamesStep, PTL DEF Spec

-----------------------------------------------------------------------------
(* The cache *)

\* What the server does not learn from a message it keeps in mind.
LEMMA DeliverKeepsSymbols ==
    ASSUME TypeOK, StreamInv, Deliver
    PROVE  Known \cup InStream \subseteq Known' \cup InStream'
<1>1. stream \in Seq(Message) /\ stream # <<>> /\ process \in Nat /\ process' = process
      /\ session \in Nat
  BY DEF TypeOK, Message, Deliver
<1>2. /\ Len(stream) \in Nat /\ Len(stream) >= 1 /\ Len(stream') = Len(stream) - 1
      /\ \A i \in 1..Len(stream') : stream'[i] = stream[i + 1]
      /\ Head(stream) = stream[1] /\ stream[1] \in Message /\ 1 \in 1..Len(stream)
  BY <1>1, HeadTailProperties, ElementOfSeq DEF Deliver
<1>3. session' = stream[1].process
  BY <1>2, StreamDeliver
<1>4. ASSUME NEW a \in Known PROVE a \in Known'
  <2>1. session = process /\ m_listSymbolInfos[a] # 0 /\ a \in Address
    BY <1>4 DEF Known
  <2>2. stream[1].process <= process /\ (stream[1].code = "init" => session < stream[1].process)
    BY <1>2 DEF StreamInv, MessagesInPlace, OfLiveProcess
  <2>3. stream[1].code # "init"
    BY <1>1, <1>2, <2>1, <2>2 DEF Message
  <2>4. session' = session
    BY <1>2, <2>3 DEF Deliver
  <2>5. m_listSymbolInfos'[a] = m_listSymbolInfos[a]
    BY <1>2, <2>1, <2>3 DEF Deliver, addSymbolInfos, TypeOK
  <2>6. QED
    BY <1>1, <2>1, <2>4, <2>5 DEF Known
<1>5. ASSUME NEW a \in InStream PROVE a \in Known' \cup InStream'
  <2>1. PICK i \in 1..Len(stream) : stream[i] = SymbolMsg(a)
    BY <1>5 DEF InStream
  <2>2. a \in Address
    BY <1>5 DEF InStream
  <2>3. CASE i = 1
    <3>1. stream[1].code = "symbol" /\ stream[1].addr = <<a>> /\ stream[1].process = process
      BY <2>1, <2>3 DEF SymbolMsg
    <3>2. addSymbolInfos(a, process)
      BY <1>2, <3>1 DEF Deliver
    <3>3. process # 0
      BY <1>1 DEF StreamInv, Bounds
    <3>4. m_listSymbolInfos'[a] # 0
      BY <2>2, <3>2, <3>3 DEF addSymbolInfos, TypeOK
    <3>5. QED
      BY <1>1, <1>3, <2>2, <3>1, <3>4 DEF Known
  <2>4. CASE i # 1
    <3>1. i - 1 \in 1..Len(stream') /\ (i - 1) + 1 = i
      BY <1>2, <2>4
    <3>2. stream'[i - 1] = stream[(i - 1) + 1]
      BY <1>2, <3>1
    <3>3. stream'[i - 1] = SymbolMsg(a)'
      BY <1>1, <2>1, <3>1, <3>2 DEF SymbolMsg
    <3>4. QED
      BY <2>2, <3>1, <3>3 DEF InStream
  <2>5. QED
    BY <2>3, <2>4
<1>6. QED
  BY <1>4, <1>5

LEMMA SymbolsStep == TypeOK /\ StreamInv /\ SymbolOnItsWay /\ [Next]_vars => SymbolOnItsWay'
<1> SUFFICES ASSUME TypeOK, StreamInv, SymbolOnItsWay, [Next]_vars PROVE SymbolOnItsWay'
  OBVIOUS
<1> DEFINE Sending == {sending[t] : t \in Thread}
<1>0. stream \in Seq(Message)
  BY DEF TypeOK, Message
<1>1. ASSUME UNCHANGED g_listAddr, Sending \subseteq Sending' \cup Known' \cup InStream' \cup {NULL},
             Known \cup InStream \subseteq Known' \cup InStream'
      PROVE  SymbolOnItsWay'
  BY <1>1 DEF SymbolOnItsWay
<1>2. ASSUME NEW t \in Thread, NEW addrs \in Backtraces, SendBacktrace(t, addrs)
      PROVE  SymbolOnItsWay'
  <2>1. Len(stream') = Len(stream) + 1 /\ Len(stream) \in Nat
        /\ \A i \in 1..Len(stream) : stream'[i] = stream[i]
    <3>1. BacktraceMsg(addrs) \in Message
      BY SymbolsAssumption, MessageType DEF TypeOK
    <3>2. QED
      BY <1>0, <1>2, <3>1, AppendProperties DEF SendBacktrace
  <2>2. InStream \subseteq InStream' /\ Known' = Known
    BY <1>2, <2>1 DEF SendBacktrace, InStream, Known, SymbolMsg, serverVars
  <2>3. UNCHANGED <<g_listAddr, sending>>
    BY <1>2 DEF SendBacktrace, cacheVars
  <2>4. QED
    BY <1>1, <2>2, <2>3
<1>3. ASSUME NEW t \in Thread, CheckAddr(t)
      PROVE  SymbolOnItsWay'
  <2> DEFINE a == Head(todo[t])
  <2>1. Known' = Known /\ InStream' = InStream
    BY <1>3 DEF CheckAddr, Known, InStream, SymbolMsg, serverVars
  <2>2. sending \in [Thread -> Address \cup {NULL}] /\ g_listAddr \in [Cell -> Address \cup {NULL}]
    BY DEF TypeOK
  <2>3. CASE Hit(a)
    <3>1. UNCHANGED g_listAddr
      BY <1>3, <2>3 DEF CheckAddr, backtrace_check_addr
    <3>2. \A u \in Thread : sending'[u] = sending[u]
      BY <1>3, <2>2, <2>3 DEF CheckAddr
    <3>3. QED
      BY <2>1, <3>1, <3>2 DEF SymbolOnItsWay
  <2>4. CASE ~Hit(a)
    <3>1. g_listAddr' = [g_listAddr EXCEPT ![PosMin] = a]
      BY <1>3, <2>4 DEF CheckAddr, backtrace_check_addr
    <3>2. \A c \in Cell : g_listAddr'[c] = g_listAddr[c] \/ g_listAddr'[c] = a
      BY <2>2, <3>1
    <3>3. sending'[t] = a /\ \A u \in Thread : u # t => sending'[u] = sending[u]
      BY <1>3, <2>2, <2>4 DEF CheckAddr
    <3>4. sending[t] = NULL
      BY <1>3 DEF CheckAddr
    <3>5. \A u \in Thread : sending[u] # NULL => sending[u] \in Sending'
      BY <3>3, <3>4
    <3>6. QED
      BY <2>1, <3>2, <3>3, <3>5 DEF SymbolOnItsWay
  <2>5. QED
    BY <2>3, <2>4
<1>4. ASSUME NEW t \in Thread, SendSymbol(t)
      PROVE  SymbolOnItsWay'
  <2>1. sending[t] \in Address /\ sending \in [Thread -> Address \cup {NULL}]
    BY <1>4 DEF SendSymbol, TypeOK
  <2>2. Len(stream') = Len(stream) + 1 /\ Len(stream) \in Nat
        /\ (\A i \in 1..Len(stream) : stream'[i] = stream[i])
        /\ stream'[Len(stream) + 1] = SymbolMsg(sending[t])
    <3>1. SymbolMsg(sending[t]) \in Message
      BY <2>1, MessageType DEF TypeOK
    <3>2. QED
      BY <1>0, <1>4, <3>1, AppendProperties DEF SendSymbol
  <2>3. InStream \subseteq InStream' /\ Known' = Known /\ sending[t] \in InStream'
    BY <1>4, <2>1, <2>2 DEF SendSymbol, InStream, Known, SymbolMsg, serverVars
  <2>4. \A u \in Thread : u # t => sending'[u] = sending[u]
    BY <1>4, <2>1 DEF SendSymbol
  <2>5. UNCHANGED g_listAddr
    BY <1>4 DEF SendSymbol, cacheVars
  <2>6. QED
    BY <1>1, <2>3, <2>4, <2>5
<1>5. CASE Deliver
  <2>1. UNCHANGED <<g_listAddr, sending>>
    BY <1>5 DEF Deliver, cacheVars, threadVars
  <2>2. QED
    BY <1>1, <1>5, <2>1, DeliverKeepsSymbols
<1>6. CASE Restart
  BY <1>6 DEF Restart, SymbolOnItsWay
<1>7. CASE UNCHANGED vars
  <2>1. Known' = Known /\ InStream' = InStream /\ UNCHANGED <<g_listAddr, sending>>
    BY <1>7 DEF vars, cacheVars, threadVars, serverVars, Known, InStream, SymbolMsg
  <2>2. QED
    BY <1>1, <2>1
<1>8. QED
  BY <1>2, <1>3, <1>4, <1>5, <1>6, <1>7 DEF Next, Step

\* When the cache says that an address need not be sent, its symbol is known to
\* the server, in the stream or in the hands of a thread, for every size of the
\* cache and every order in which the threads look into it.
THEOREM SymbolsComplete == Spec => []SymbolOnItsWay
<1>1. Init => SymbolOnItsWay
  BY DEF Init, SymbolOnItsWay
<1>2. QED
  BY <1>1, TypeInit, TypeStep, StreamInit, StreamStep, SymbolsStep, PTL DEF Spec

-----------------------------------------------------------------------------
(* No symbol twice *)

Cached == {g_listAddr[c] : c \in Cell} \ {NULL}

\* Only what a thread looked up is in the cache, and each address once.
CacheOfLooked ==
    /\ IsFiniteSet(Looked)
    /\ Cached \subseteq Looked
    /\ \A c, d \in Cell : g_listAddr[c] # NULL /\ g_listAddr[c] = g_listAddr[d] => c = d

\* A cell that holds an address has been seen more often than a free one.
FreeCellsFirst ==
    ~overflowed => \A c \in Cell :
        IF g_listAddr[c] = NULL THEN g_listAddrCount[c] = 0 ELSE g_listAddrCount[c] > 0

\* While the cache is large enough it knows every address looked up so far, and
\* each of them was or will be sent once.
EachOnce ==
    Cardinality(Looked) <= CELLS /\ ~overflowed =>
        /\ Looked \subseteq Cached
        /\ \A i, j \in 1..Len(symbols) : symbols[i] = symbols[j] => i = j
        /\ \A t, u \in Thread : sending[t] # NULL /\ sending[t] = sending[u] => t = u
        /\ \A i \in 1..Len(symbols), t \in Thread : symbols[i] # sending[t]

CacheInv == CacheOfLooked /\ FreeCellsFirst /\ EachOnce

\* The first free cell is taken while there is one.
LEMMA FreeCellTaken ==
    ASSUME TypeOK, FreeCellsFirst, ~overflowed, NEW f \in Cell, g_listAddr[f] = NULL
    PROVE  PosMin \in Cell /\ g_listAddr[PosMin] = NULL
<1> DEFINE free == {c \in Cell : g_listAddr[c] = NULL}
           k == Min(free)
<1>1. Cell \subseteq Int /\ IsFiniteSet(Cell)
  BY SymbolsAssumption, FS_Interval DEF Cell
<1>2. k \in free /\ \A c \in free : k <= c
  <2>1. free \subseteq Int /\ IsFiniteSet(free) /\ free # {}
    BY <1>1, FS_Subset
  <2>2. QED
    BY <2>1, MinOfFinite
<1> HIDE DEF k
<1>3. /\ \A c \in Cell : g_listAddrCount[c] \in Int /\ g_listAddrCount[c] >= 0
      /\ \A c \in Cell : g_listAddrCount[c] = 0 <=> g_listAddr[c] = NULL
  <2>1. \A c \in Cell : g_listAddrCount[c] \in Int
    BY SymbolsAssumption DEF TypeOK, Count
  <2>2. QED
    BY <2>1 DEF FreeCellsFirst
<1>4. k \in Cell /\ g_listAddrCount[k] = 0 /\ INT_MAX # 0
  BY <1>2, <1>3, SymbolsAssumption
<1>5. \A c \in Cell : g_listAddrCount[k] <= g_listAddrCount[c]
  BY <1>3, <1>4
<1>6. \A c \in 1..(k - 1) : g_listAddrCount[k] < g_listAddrCount[c]
  <2> SUFFICES ASSUME NEW c \in 1..(k - 1) PROVE g_listAddrCount[k] < g_listAddrCount[c]
    OBVIOUS
  <2>1. c \in Cell /\ ~(k <= c)
    BY <1>4, SymbolsAssumption DEF Cell
  <2>2. g_listAddrCount[c] # 0
    BY <1>2, <1>3, <2>1
  <2>3. QED
    BY <1>3, <1>4, <2>1, <2>2
<1>7. PosMin \in Cell /\ g_listAddrCount[PosMin] <= g_listAddrCount[k]
  BY <1>4, <1>5, <1>6 DEF PosMin
<1>8. QED
  BY <1>3, <1>4, <1>7

\* The cache has a free cell while it could hold more than was looked up.
LEMMA RoomInCache ==
    ASSUME TypeOK, CacheOfLooked, Cardinality(Looked) < CELLS
    PROVE  \E f \in Cell : g_listAddr[f] = NULL
<1>1. SUFFICES ASSUME \A c \in Cell : g_listAddr[c] # NULL PROVE FALSE
  OBVIOUS
<1>2. g_listAddr \in Injection(Cell, Looked)
  <2>1. g_listAddr \in [Cell -> Looked]
    BY <1>1 DEF TypeOK, CacheOfLooked, Cached
  <2>2. \A c, d \in Cell : g_listAddr[c] = g_listAddr[d] => c = d
    BY <1>1 DEF CacheOfLooked
  <2>3. QED
    BY <2>1, <2>2 DEF Injection, IsInjective
<1>3. IsFiniteSet(Looked) /\ Cardinality(Looked) \in Nat
  BY FS_CardinalityType DEF CacheOfLooked
<1>4. Cardinality(Cell) <= Cardinality(Looked)
  BY <1>2, <1>3, FS_Injection
<1>5. Cardinality(Cell) = CELLS
  BY SymbolsAssumption, FS_Interval DEF Cell
<1>6. QED
  BY <1>3, <1>4, <1>5, SymbolsAssumption

\* What the cache does not change keeps the invariant.
LEMMA CacheKept ==
    ASSUME CacheInv, UNCHANGED <<g_listAddr, g_listAddrCount, overflowed, sending, symbols>>
    PROVE  CacheInv'
<1>1. Looked' = Looked /\ Cached' = Cached
  BY DEF Looked, Cached, Addresses
<1>2. CacheOfLooked'
  BY <1>1 DEF CacheInv, CacheOfLooked
<1>3. FreeCellsFirst'
  BY DEF CacheInv, FreeCellsFirst
<1>4. EachOnce'
  BY <1>1 DEF CacheInv, EachOnce
<1>5. QED
  BY <1>2, <1>3, <1>4 DEF CacheInv

\* An empty cache, at the start and after the end of a process.
CacheEmpty ==
    /\ g_listAddr = [c \in Cell |-> NULL] /\ g_listAddrCount = [c \in Cell |-> 0]
    /\ sending = [t \in Thread |-> NULL] /\ symbols = <<>>

LEMMA CacheOfEmpty == CacheEmpty => CacheInv
<1> SUFFICES ASSUME CacheEmpty PROVE CacheInv
  OBVIOUS
<1>1. Looked = {} /\ Cached = {} /\ Len(symbols) = 0
  BY DEF CacheEmpty, Looked, Cached, Addresses
<1>2. CacheOfLooked
  BY <1>1, FS_EmptySet DEF CacheEmpty, CacheOfLooked
<1>3. FreeCellsFirst
  BY DEF CacheEmpty, FreeCellsFirst
<1>4. EachOnce
  BY <1>1 DEF CacheEmpty, EachOnce
<1>5. QED
  BY <1>2, <1>3, <1>4 DEF CacheInv

LEMMA CacheOfNext == CacheEmpty' => CacheInv'
BY CacheOfEmpty, PTL

\* An address that is in the cache is only counted.
LEMMA CacheHit ==
    ASSUME TypeOK, CacheInv, NEW t \in Thread, CheckAddr(t), Hit(Head(todo[t]))
    PROVE  CacheInv'
<1> DEFINE a == Head(todo[t])
           k == CellOf(a)
<1>1. /\ UNCHANGED <<g_listAddr, symbols>>
      /\ g_listAddrCount' = [g_listAddrCount EXCEPT ![k] = Incr(@)]
      /\ overflowed' = (overflowed \/ g_listAddrCount[k] = INT_MAX)
  BY DEF CheckAddr, backtrace_check_addr, sentVars
<1>2. sending' = sending
  <2>1. sending \in [Thread -> Address \cup {NULL}] /\ sending[t] = NULL
    BY DEF TypeOK, CheckAddr
  <2>2. sending' = [sending EXCEPT ![t] = NULL]
    BY DEF CheckAddr
  <2>3. QED
    BY <2>1, <2>2
<1>3. Looked' = Looked /\ Cached' = Cached
  BY <1>1, <1>2 DEF Looked, Cached, Addresses
<1>4. k \in Cell /\ g_listAddr[k] = a
  <2> DEFINE hits == {c \in Cell : g_listAddr[c] = a}
             m == Min(hits)
  <2>1. Cell \subseteq Int /\ IsFiniteSet(Cell)
    BY SymbolsAssumption, FS_Interval DEF Cell
  <2>2. hits \subseteq Int /\ IsFiniteSet(hits) /\ hits # {}
    BY <2>1, FS_Subset DEF Hit
  <2>3. m \in hits /\ \A c \in hits : m <= c
    BY <2>2, MinOfFinite
  <2> HIDE DEF m
  <2>4. \A d \in 1..(m - 1) : g_listAddr[d] # a
    <3> SUFFICES ASSUME NEW d \in 1..(m - 1) PROVE g_listAddr[d] # a
      OBVIOUS
    <3>1. d \in Cell /\ ~(m <= d)
      BY <2>3, SymbolsAssumption DEF Cell
    <3>2. QED
      BY <2>3, <3>1
  <2>5. QED
    BY <2>3, <2>4 DEF CellOf
<1> HIDE DEF k
<1>5. a # NULL
  BY HeadTailProperties, SymbolsAssumption DEF CheckAddr, TypeOK
<1>6. FreeCellsFirst'
  <2> SUFFICES ASSUME ~overflowed', NEW c \in Cell
               PROVE  IF g_listAddr[c] = NULL THEN g_listAddrCount'[c] = 0
                                              ELSE g_listAddrCount'[c] > 0
    BY <1>1 DEF FreeCellsFirst
  <2>1. g_listAddrCount \in [Cell -> Count] /\ g_listAddrCount[k] \in Int
    BY <1>4, SymbolsAssumption DEF TypeOK, Count
  <2>2. IF g_listAddr[c] = NULL THEN g_listAddrCount[c] = 0 ELSE g_listAddrCount[c] > 0
    BY <1>1 DEF CacheInv, FreeCellsFirst
  <2>3. g_listAddrCount[k] > 0
    BY <1>1, <1>4, <1>5 DEF CacheInv, FreeCellsFirst
  <2>4. Incr(g_listAddrCount[k]) > 0
    <3>1. g_listAddrCount[k] # INT_MAX
      BY <1>1
    <3>2. QED
      BY <2>1, <2>3, <3>1 DEF Incr
  <2>5. g_listAddrCount'[c] = IF c = k THEN Incr(g_listAddrCount[k]) ELSE g_listAddrCount[c]
    BY <1>1, <2>1
  <2>6. QED
    BY <1>4, <1>5, <2>2, <2>4, <2>5
<1>7. CacheOfLooked'
  BY <1>1, <1>3 DEF CacheInv, CacheOfLooked
<1>8. EachOnce'
  BY <1>1, <1>2, <1>3 DEF CacheInv, EachOnce
<1>9. QED
  BY <1>6, <1>7, <1>8 DEF CacheInv

\* An address that is not in the cache enters it and goes into the hands of the
\* thread.  If the cache can hold all that was looked up, it replaces nothing,
\* so that what it does not hold was never sent.
LEMMA CacheMiss ==
    ASSUME TypeOK, CacheInv, NEW t \in Thread, CheckAddr(t), ~Hit(Head(todo[t]))
    PROVE  CacheInv'
<1> DEFINE a == Head(todo[t])
<1>1. /\ g_listAddr' = [g_listAddr EXCEPT ![PosMin] = a]
      /\ g_listAddrCount' = [g_listAddrCount EXCEPT ![PosMin] = 1]
      /\ overflowed' = overflowed /\ symbols' = symbols
      /\ sending' = [sending EXCEPT ![t] = a] /\ sending[t] = NULL
  BY DEF CheckAddr, backtrace_check_addr, sentVars
<1>2. a \in Address /\ a # NULL
  BY HeadTailProperties, SymbolsAssumption DEF CheckAddr, TypeOK
<1>3. a \notin Cached
  BY DEF Hit, Cached
<1> HIDE DEF a
<1>4. /\ \A c \in Cell : g_listAddr'[c] = IF c = PosMin THEN a ELSE g_listAddr[c]
      /\ \A c \in Cell : g_listAddrCount'[c] = IF c = PosMin THEN 1 ELSE g_listAddrCount[c]
      /\ \A u \in Thread : sending'[u] = IF u = t THEN a ELSE sending[u]
  BY <1>1 DEF TypeOK
<1>5. Looked' = Looked \cup {a}
  <2>1. {sending'[u] : u \in Thread} \ {NULL} = ({sending[u] : u \in Thread} \ {NULL}) \cup {a}
    BY <1>1, <1>2, <1>4
  <2>2. Addresses(symbols') = Addresses(symbols)
    BY <1>1
  <2>3. QED
    BY <2>1, <2>2 DEF Looked
<1>6. /\ IsFiniteSet(Looked) /\ IsFiniteSet(Looked')
      /\ Cardinality(Looked) \in Nat
      /\ Cardinality(Looked') = IF a \in Looked THEN Cardinality(Looked) ELSE Cardinality(Looked) + 1
  BY <1>5, FS_AddElement, FS_CardinalityType DEF CacheInv, CacheOfLooked
<1>7. CacheOfLooked'
  <2>1. Cached' \subseteq Looked'
    BY <1>4, <1>5 DEF CacheInv, CacheOfLooked, Cached
  <2>2. ASSUME NEW c \in Cell, NEW d \in Cell, g_listAddr'[c] # NULL,
               g_listAddr'[c] = g_listAddr'[d]
        PROVE  c = d
    <3>1. \A e \in Cell : g_listAddr[e] # a
      BY <1>2, <1>3 DEF Cached
    <3>2. QED
      BY <1>4, <2>2, <3>1 DEF CacheInv, CacheOfLooked
  <2>3. QED
    BY <1>6, <2>1, <2>2 DEF CacheOfLooked
<1>8. FreeCellsFirst'
  BY <1>1, <1>2, <1>4 DEF CacheInv, FreeCellsFirst
<1>9. EachOnce'
  <2> SUFFICES ASSUME Cardinality(Looked') <= CELLS, ~overflowed'
               PROVE  /\ Looked' \subseteq Cached'
                      /\ \A i, j \in 1..Len(symbols') : symbols'[i] = symbols'[j] => i = j
                      /\ \A u, v \in Thread :
                            sending'[u] # NULL /\ sending'[u] = sending'[v] => u = v
                      /\ \A i \in 1..Len(symbols'), u \in Thread : symbols'[i] # sending'[u]
    BY DEF EachOnce
  <2>1. Cardinality(Looked) <= CELLS /\ ~overflowed
    BY <1>1, <1>6, SymbolsAssumption
  <2>2. /\ Looked \subseteq Cached
        /\ \A i, j \in 1..Len(symbols) : symbols[i] = symbols[j] => i = j
        /\ \A u, v \in Thread : sending[u] # NULL /\ sending[u] = sending[v] => u = v
        /\ \A i \in 1..Len(symbols), u \in Thread : symbols[i] # sending[u]
    BY <2>1 DEF CacheInv, EachOnce
  <2>3. a \notin Looked /\ Cardinality(Looked) < CELLS
    BY <1>3, <1>6, <2>2, SymbolsAssumption
  <2>4. PosMin \in Cell /\ g_listAddr[PosMin] = NULL
    <3>1. PICK f \in Cell : g_listAddr[f] = NULL
      BY <2>3, RoomInCache DEF CacheInv
    <3>2. QED
      BY <2>1, <3>1, FreeCellTaken DEF CacheInv
  <2>5. Looked' \subseteq Cached'
    <3>1. a \in Cached'
      BY <1>2, <1>4, <2>4 DEF Cached
    <3>2. ASSUME NEW b \in Looked PROVE b \in Cached'
      <4>1. PICK c \in Cell : g_listAddr[c] = b /\ b # NULL
        BY <2>2 DEF Cached
      <4>2. g_listAddr'[c] = b
        BY <1>4, <2>4, <4>1
      <4>3. QED
        BY <4>1, <4>2 DEF Cached
    <3>3. QED
      BY <1>5, <3>1, <3>2
  <2>6. /\ \A u \in Thread : sending[u] # a
        /\ \A i \in 1..Len(symbols) : symbols[i] # a
    BY <1>2, <2>3 DEF Looked, Addresses
  <2>7. \A u, v \in Thread : sending'[u] # NULL /\ sending'[u] = sending'[v] => u = v
    BY <1>4, <2>2, <2>6
  <2>8. \A i \in 1..Len(symbols'), u \in Thread : symbols'[i] # sending'[u]
    BY <1>1, <1>4, <2>2, <2>6
  <2>9. QED
    BY <1>1, <2>2, <2>5, <2>7, <2>8
<1>10. QED
  BY <1>7, <1>8, <1>9 DEF CacheInv

\* A symbol goes from the hands of a thread to those that were sent.
LEMMA CacheSend ==
    ASSUME TypeOK, CacheInv, NEW t \in Thread, SendSymbol(t)
    PROVE  CacheInv'
<1> DEFINE a == sending[t]
           n == Len(symbols)
<1>1. /\ UNCHANGED <<g_listAddr, g_listAddrCount, overflowed>>
      /\ symbols' = Append(symbols, a) /\ sending' = [sending EXCEPT ![t] = NULL]
      /\ a # NULL /\ a \in Address
  BY DEF SendSymbol, cacheVars, TypeOK
<1>2. /\ n \in Nat /\ Len(symbols') = n + 1
      /\ \A i \in 1..n : symbols'[i] = symbols[i]
      /\ symbols'[n + 1] = a
  BY <1>1, AppendProperties DEF TypeOK
<1>3. \A u \in Thread : sending'[u] = IF u = t THEN NULL ELSE sending[u]
  BY <1>1 DEF TypeOK
<1> HIDE DEF n
<1>4. Looked' = Looked
  <2>1. Addresses(symbols') = Addresses(symbols) \cup {a}
    <3>1. 1..(n + 1) = 1..n \cup {n + 1}
      BY <1>2
    <3>2. QED
      BY <1>2, <3>1 DEF Addresses, n
  <2>2. ({sending'[u] : u \in Thread} \ {NULL}) \cup {a} = {sending[u] : u \in Thread} \ {NULL}
    BY <1>1, <1>3
  <2>3. QED
    BY <2>1, <2>2 DEF Looked
<1>5. Cached' = Cached
  BY <1>1 DEF Cached
<1>6. CacheOfLooked'
  BY <1>1, <1>4, <1>5 DEF CacheInv, CacheOfLooked
<1>7. FreeCellsFirst'
  BY <1>1 DEF CacheInv, FreeCellsFirst
<1>8. EachOnce'
  <2> SUFFICES ASSUME Cardinality(Looked) <= CELLS, ~overflowed
               PROVE  /\ Looked \subseteq Cached
                      /\ \A i, j \in 1..(n + 1) : symbols'[i] = symbols'[j] => i = j
                      /\ \A u, v \in Thread :
                            sending'[u] # NULL /\ sending'[u] = sending'[v] => u = v
                      /\ \A i \in 1..(n + 1), u \in Thread : symbols'[i] # sending'[u]
    BY <1>1, <1>2, <1>4, <1>5 DEF EachOnce
  <2>1. /\ Looked \subseteq Cached
        /\ \A i, j \in 1..n : symbols[i] = symbols[j] => i = j
        /\ \A u, v \in Thread : sending[u] # NULL /\ sending[u] = sending[v] => u = v
        /\ \A i \in 1..n, u \in Thread : symbols[i] # sending[u]
    BY DEF CacheInv, EachOnce, n
  <2>2. \A i \in 1..(n + 1) : i \in 1..n \/ i = n + 1
    BY <1>2
  <2>3. \A i \in 1..n : symbols'[i] # symbols'[n + 1]
    BY <1>2, <2>1
  <2>4. \A i, j \in 1..(n + 1) : symbols'[i] = symbols'[j] => i = j
    BY <1>2, <2>1, <2>2, <2>3
  <2>5. \A u, v \in Thread : sending'[u] # NULL /\ sending'[u] = sending'[v] => u = v
    BY <1>3, <2>1
  <2>6. \A i \in 1..(n + 1), u \in Thread : symbols'[i] # sending'[u]
    <3>1. \A i \in 1..(n + 1) : symbols'[i] # NULL
      BY <1>1, <1>2, <2>2, SymbolsAssumption DEF TypeOK, n
    <3>2. \A u \in Thread : sending'[u] # a
      BY <1>1, <1>3, <2>1
    <3>3. QED
      BY <1>2, <1>3, <2>1, <2>2, <3>1, <3>2
  <2>7. QED
    BY <2>1, <2>4, <2>5, <2>6
<1>9. QED
  BY <1>6, <1>7, <1>8 DEF CacheInv

LEMMA CacheStep == TypeOK /\ CacheInv /\ [Next]_vars => CacheInv'
<1> SUFFICES ASSUME TypeOK, CacheInv, [Next]_vars PROVE CacheInv'
  OBVIOUS
<1>1. ASSUME NEW t \in Thread, NEW addrs \in Backtraces, SendBacktrace(t, addrs)
      PROVE  CacheInv'
  BY <1>1, CacheKept DEF SendBacktrace, cacheVars
<1>2. ASSUME NEW t \in Thread, CheckAddr(t) PROVE CacheInv'
  BY <1>2, CacheHit, CacheMiss
<1>3. ASSUME NEW t \in Thread, SendSymbol(t) PROVE CacheInv'
  BY <1>3, CacheSend
<1>4. CASE Deliver
  BY <1>4, CacheKept DEF Deliver, cacheVars, threadVars, sentVars
<1>5. CASE Restart
  <2>1. CacheEmpty'
    BY <1>5 DEF Restart, CacheEmpty
  <2>2. QED
    BY <2>1, CacheOfNext
<1>6. CASE UNCHANGED vars
  BY <1>6, CacheKept DEF vars, cacheVars, threadVars, sentVars
<1>7. QED
  BY <1>1, <1>2, <1>3, <1>4, <1>5, <1>6 DEF Next, Step

\* As long as the cache has a cell for every address looked up, and no count
\* overflowed, no thread sends a symbol that it or another one sent or is about
\* to send, for every size of the cache and any number of threads.
THEOREM SymbolsOnce == Spec => []SentOnce
<1>1. Init => CacheInv
  BY CacheOfEmpty DEF Init, CacheEmpty
<1>2. CacheInv => SentOnce
  BY DEF CacheInv, EachOnce, SentOnce
<1>3. QED
  BY <1>1, <1>2, TypeInit, TypeStep, CacheStep, PTL DEF Spec
=============================================================================

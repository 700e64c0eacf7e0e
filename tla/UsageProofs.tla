---------------------------- MODULE UsageProofs ----------------------------
(***************************************************************************)
(* Usage by second and by thread.                                          *)
(*                                                                         *)
(* MemoryUsage::update against the largest size of a second, for every     *)
(* width of an int and of a quint64: below half of the range of an int it  *)
(* is the maximum; from there on it is not, the second is stuck, or        *)
(* forgets its size.  Then the chart made of the seconds, against the      *)
(* statistics and the list of operations.                                  *)
(*                                                                         *)
(* The table of threads, for every number of threads, identifiers that are *)
(* reused, and operations: what is shown as not free is spread over its    *)
(* entries without overlap and without rest.  Its first part is about the  *)
(* operations on a table, the second about the order in which a thread and *)
(* its creation are reported, the third joins them.  The last part needs   *)
(* no order of the reports: however they mislead the bounds of the         *)
(* entries, those of an identifier add up to what is shown for it.         *)
(***************************************************************************)
EXTENDS LeakDetectorProofs

-----------------------------------------------------------------------------
(* One second *)

Half == IntRange \div 2

\* sizes an int holds, and those it takes for negative numbers
Small == 0..(Half - 1)
Wide == Half..(IntRange - 1)

\* the larger of two sizes
Larger(a, b) == IF a < b THEN b ELSE a

\* Arithmetic of %, which the code's conversions are made of.
LEMMA ModBelow == \A n \in Nat \ {0} : \A x \in 0..(n - 1) : x % n = x
OBVIOUS

LEMMA ModAbove == \A n \in Nat \ {0} : \A x \in n..(2 * n - 1) : x % n = x - n
OBVIOUS

LEMMA ModNegative == \A n \in Nat \ {0} : \A x \in (-n)..(-1) : x % n = x + n
OBVIOUS

\* An int has at least two values, as many of either sign, and fits a quint64.
LEMMA Ranges ==
    /\ Half \in Nat \ {0}
    /\ IntRange = 2 * Half
    /\ WordRange \in Nat \ {0}
    /\ IntRange <= WordRange
<1>1. Half \in Nat \ {0} /\ IntRange = 2 * Half
  BY RangeAssumption DEF Half
<1>2. WordRange \in Nat \ {0}
  BY RangeAssumption
<1>3. IntRange <= WordRange
  <2>1. SUFFICES ASSUME WordRange < IntRange PROVE FALSE
    BY <1>1, <1>2
  <2>2. WordRange \in 0..(IntRange - 1) /\ IntRange \in Nat \ {0}
    BY <2>1, <1>1, <1>2
  <2>3. WordRange % IntRange = WordRange
    BY <2>2, ModBelow
  <2>4. QED
    BY <2>3, <1>2, RangeAssumption
<1>4. QED
  BY <1>1, <1>2, <1>3

\* A small size is the same as an int, and comes back the same as a quint64.
LEMMA SmallIsExact ==
    ASSUME NEW x \in Small
    PROVE  ToInt(x) = x /\ ToWord(x) = x
<1>1. x + Half \in 0..(IntRange - 1) /\ IntRange \in Nat \ {0}
  BY Ranges DEF Small
<1>2. (x + Half) % IntRange = x + Half
  BY <1>1, ModBelow
<1>3. ToInt(x) = x
  <2>1. ToInt(x) = (x + Half) - Half
    BY <1>2 DEF ToInt, Half
  <2>2. QED
    BY <2>1, Ranges DEF Small
<1>4. x \in 0..(WordRange - 1) /\ WordRange \in Nat \ {0}
  BY Ranges DEF Small
<1>5. ToWord(x) = x
  BY <1>4, ModBelow DEF ToWord
<1>6. QED
  BY <1>3, <1>5

\* A wide size is negative as an int, and at the upper end of a quint64.
LEMMA WideIsHuge ==
    ASSUME NEW x \in Wide
    PROVE  /\ ToInt(x) = x - IntRange
           /\ ToInt(x) # 0
           /\ ToWord(ToInt(x)) = x - IntRange + WordRange
<1>1. x + Half \in IntRange..(2 * IntRange - 1) /\ IntRange \in Nat \ {0}
  BY Ranges DEF Wide
<1>2. (x + Half) % IntRange = x + Half - IntRange
  <2>1. \A y \in IntRange..(2 * IntRange - 1) : y % IntRange = y - IntRange
    BY <1>1, ModAbove
  <2>2. QED
    BY <2>1, <1>1, Ranges DEF Wide
<1>3. ToInt(x) = x - IntRange
  <2>1. ToInt(x) = (x + Half - IntRange) - Half
    BY <1>2 DEF ToInt, Half
  <2>2. QED
    BY <2>1, Ranges DEF Wide
<1>4. x - IntRange \in (-WordRange)..(-1) /\ WordRange \in Nat \ {0}
  BY Ranges DEF Wide
<1>5. (x - IntRange) % WordRange = x - IntRange + WordRange
  BY <1>4, ModNegative
<1>6. QED
  BY <1>3, <1>4, <1>5 DEF ToWord

\* As long as less than half of the range of an int is allocated, a second
\* shows the largest size it was updated with (MemoryUsage.cpp:33-47), and an
\* update leaves the other seconds alone.
THEOREM UsageIsMaximum ==
    ASSUME NEW u, NEW t, NEW size \in Small,
           value(u, t) \in Small
    PROVE  /\ value(update(u, t, size), t) = Larger(value(u, t), size)
           /\ \A s : s # t => value(update(u, t, size), s) = value(u, s)
<1> DEFINE old == value(u, t)
<1>1. ToInt(old) = old /\ ToWord(ToInt(old)) = old
  BY SmallIsExact
<1>2. value(Insert(u, t, size), t) = size
  BY DEF value, Insert
<1>3. \A s : s # t => value(Insert(u, t, size), s) = value(u, s)
  BY DEF value, Insert
<1>4. CASE old = 0 \/ old < size
  <2>1. update(u, t, size) = Insert(u, t, size)
    BY <1>1, <1>4 DEF update
  <2>2. Larger(old, size) = size
    BY <1>4 DEF Larger, Small
  <2>3. QED
    BY <2>1, <2>2, <1>2, <1>3
<1>5. CASE ~(old = 0 \/ old < size)
  <2>1. update(u, t, size) = u
    BY <1>1, <1>5 DEF update
  <2>2. Larger(old, size) = old
    BY <1>5 DEF Larger
  <2>3. QED
    BY <2>1, <2>2
<1>6. QED
  BY <1>4, <1>5

\* Once a second shows a wide size (on the machine: from 2 GiB to 4 GiB) no
\* size a program reaches is shown any more: the comparison at
\* MemoryUsage.cpp:39 is against the top of the range of a quint64.
THEOREM UsageIsStuck ==
    ASSUME NEW u, NEW t, NEW size \in 0..(WordRange - Half),
           value(u, t) \in Wide
    PROVE  update(u, t, size) = u
<1> DEFINE old == value(u, t)
<1>1. ToInt(old) # 0 /\ ToWord(ToInt(old)) = old - IntRange + WordRange
  BY WideIsHuge
<1>2. ~(old - IntRange + WordRange < size)
  BY Ranges DEF Wide
<1>3. QED
  BY <1>1, <1>2 DEF update

\* A second that shows exactly the range of an int (4 GiB) takes it for "no
\* size yet" (MemoryUsage.cpp:37-39): any later size replaces it, a smaller
\* one too.
THEOREM UsageForgets ==
    ASSUME NEW u, NEW t, NEW size,
           value(u, t) = IntRange
    PROVE  value(update(u, t, size), t) = size
<1>1. IntRange + Half \in IntRange..(2 * IntRange - 1) /\ IntRange \in Nat \ {0}
  BY Ranges
<1>2. (IntRange + Half) % IntRange = IntRange + Half - IntRange
  <2>1. \A y \in IntRange..(2 * IntRange - 1) : y % IntRange = y - IntRange
    BY <1>1, ModAbove
  <2>2. QED
    BY <2>1, <1>1, Ranges
<1>3. ToInt(IntRange) = 0
  <2>1. ToInt(IntRange) = (IntRange + Half - IntRange) - Half
    BY <1>2 DEF ToInt, Half
  <2>2. QED
    BY <2>1, Ranges
<1>4. update(u, t, size) = Insert(u, t, size)
  BY <1>3 DEF update
<1>5. QED
  BY <1>4 DEF value, Insert

-----------------------------------------------------------------------------
(* The chart *)

Total == SizeSum(m_listMemoryOperation, Listed)

\* what an int and a quint64 can count: less than half the range of an int in use at
\* any time, and less than that of a quint64 allocated in the session
Moderate == m_globalStats.peak < Half /\ Total < WordRange

\* the chart against the statistics,
ChartMatches ==
    LET s == m_globalStats IN
        /\ s.ops > 0 => value(s.usage, s.last) >= s.remainingSize
        /\ \A t : value(s.usage, t) <= s.peak
        /\ "restart" \notin Env => s.peak <= Total

\* of a process that is the only one: its first message finds the peak at 0 and no thread
FirstProcess ==
    "restart" \notin Env =>
        \A j \in 1..Len(stream) : stream[j].code = "init" =>
            j = 1 /\ m_globalStats.peak = 0 /\ threadInfos = <<>>

ChartInv ==
    /\ m_globalStats.allocSize = ToWord(Total)
    /\ Moderate => ChartMatches
    /\ FirstProcess

\* a word that fits
LEMMA SmallWord == \A x \in Nat : x < WordRange => ToWord(x) = x
<1>1. SUFFICES ASSUME NEW x \in Nat, x < WordRange PROVE ToWord(x) = x
  OBVIOUS
<1>2. WordRange \in Nat \ {0} /\ x \in 0..(WordRange - 1)
  BY <1>1, RangeAssumption
<1>3. QED
  BY <1>2, ModBelow DEF ToWord

\* The sizes in the list add up to a number, no less than those shown.
LEMMA TotalIsNat ==
    ASSUME ListType
    PROVE  /\ IsFiniteSet(Listed) /\ \A i \in Listed : m_listMemoryOperation[i].size \in Nat
           /\ Total \in Nat /\ SizeSum(m_listMemoryOperation, Shown) <= Total
<1>1. Len(m_listMemoryOperation) \in Nat
  BY LenProperties DEF ListType
<1>2. IsFiniteSet(Listed)
  BY <1>1, FS_Interval DEF Listed
<1>3. \A i \in Listed : m_listMemoryOperation[i].size \in Nat
  <2>1. \A i \in Listed : m_listMemoryOperation[i] \in OpType
    BY ElementOfSeq DEF ListType, Listed
  <2>2. QED
    BY <2>1 DEF OpType
<1>4. Shown \subseteq Listed
  BY DEF Shown, Listed
<1>5. Total \in Nat
  BY <1>2, <1>3, SizeSumNat DEF Total
<1>6. SizeSum(m_listMemoryOperation, Shown) <= Total
  BY <1>2, <1>3, <1>4, SizeSumLess DEF Total
<1>7. QED
  BY <1>2, <1>3, <1>5, <1>6

\* what a second shows is a size
LEMMA ValueIsNat ==
    ASSUME m_globalStats \in StatsType
    PROVE  \A t : value(m_globalStats.usage, t) \in Nat
<1>1. PICK S \in SUBSET Nat : m_globalStats.usage.sizes \in [S -> Nat]
  BY DEF StatsType, UsageType
<1>2. QED
  BY <1>1 DEF value

\* An operation adds its size to the total.
LEMMA TotalAfterAdd ==
    ASSUME TypeInv, NEW m \in MsgType, m.code \in MemoryCode, addMemoryOperation(m)
    PROVE  Total' = Total + m.size
<1>1. PICK n : n = Len(m_listMemoryOperation) + 1
  OBVIOUS
<1>2. /\ Listed' = Listed \cup {n} /\ n \notin Listed
      /\ \A i \in Listed : op(i)'.size = op(i).size
      /\ op(n)'.size = m.size
  BY <1>1, AddedToList
<1>3. /\ IsFiniteSet(Listed) /\ \A i \in Listed : m_listMemoryOperation[i].size \in Nat
      /\ Total \in Nat
  BY TotalIsNat DEF TypeInv
<1> DEFINE new == m_listMemoryOperation'
<1>4. /\ \A i \in Listed : m_listMemoryOperation[i].size = new[i].size /\ new[i].size \in Nat
      /\ new[n].size = m.size /\ m.size \in Nat
  BY <1>2, <1>3 DEF op, MsgType, MsgRecord
<1>5. Total' = SizeSum(new, Listed \cup {n})
  BY <1>2 DEF Total
<1> HIDE DEF new
<1>6. SizeSum(new, Listed \cup {n}) = new[n].size + SizeSum(new, Listed)
  BY <1>2, <1>3, <1>4, SizeSumAdd
<1>7. SizeSum(m_listMemoryOperation, Listed) = SizeSum(new, Listed)
  BY <1>3, <1>4, SizeSumSame
<1>8. QED
  BY <1>3, <1>4, <1>5, <1>6, <1>7 DEF Total

\* What CountOperation stores of the peak and of the seconds.
LEMMA CountOperationChart ==
    ASSUME NEW s \in StatsType, NEW m, NEW freedSize
    PROVE  LET u == CountOperation(s, m, freedSize) IN
           /\ u.peak = Larger(s.peak, Grown(s, m))
           /\ u.last = m.time
           /\ u.usage = update(s.usage, m.time, Remaining(s, m, freedSize))
BY DEF CountOperation, Larger

\* In moderation, an operation makes no second show less than what remains then, nor
\* any more than the peak.
LEMMA AddChart ==
    ASSUME TypeInv, ListFormed, StatsInv, ChartInv, UNCHANGED scenario,
           NEW m \in MsgType, Formed(m), m.code \in MemoryCode, addMemoryOperation(m), Moderate'
    PROVE  ChartMatches'
<1> DEFINE s == m_globalStats
           freed == takeByPtrNotFreed(m.free)
           freedSize == IF freed = NULL THEN NULL ELSE op(freed).size
           shown == SizeSum(m_listMemoryOperation, Shown)
           grown == Grown(s, m)
           left == Remaining(s, m, freedSize)
<1>1. s \in StatsType /\ ListType
  BY DEF TypeInv
<1>2. s' = CountOperation(s, m, freedSize)
  BY DEF addMemoryOperation, op
<1>3. /\ s'.peak = Larger(s.peak, grown) /\ s'.last = m.time
      /\ s'.usage = update(s.usage, m.time, left) /\ s'.remainingSize = left
  <2> HIDE DEF freedSize
  <2>1. QED
    BY <1>1, <1>2, CountOperationChart, CountOperationStats
<1>4. /\ Total \in Nat /\ Total' = Total + m.size /\ m.size \in Nat
      /\ s.peak \in Nat /\ Half \in Nat /\ WordRange \in Nat
  BY <1>1, TotalIsNat, TotalAfterAdd, Ranges DEF StatsType, MsgType, MsgRecord
<1>5. /\ shown \in Nat /\ shown <= Total
      /\ freed # NULL => op(freed).size \in Nat /\ op(freed).size <= shown /\ op(freed).size # NULL
  <2>1. IsFiniteSet(Shown) /\ \A i \in Shown : m_listMemoryOperation[i].size \in Nat
    BY <1>1, ShownIsFinite DEF op
  <2>2. shown \in Nat
    BY <2>1, SizeSumNat
  <2>3. ASSUME freed # NULL PROVE op(freed).size \in Nat /\ op(freed).size <= shown
    <3>1. freed \in Shown
      BY <1>1, <2>3, ShownAfterAdd
    <3> HIDE DEF freed
    <3>2. shown = op(freed).size + SizeSum(m_listMemoryOperation, Shown \ {freed})
      BY <2>1, <3>1, SizeSumRemove DEF op
    <3>3. SizeSum(m_listMemoryOperation, Shown \ {freed}) \in Nat
      <4>1. IsFiniteSet(Shown \ {freed}) /\ \A i \in Shown \ {freed} : m_listMemoryOperation[i].size \in Nat
        BY <2>1, FS_Subset
      <4>2. QED
        BY <4>1, SizeSumNat
    <3>4. op(freed).size \in Nat
      BY <2>1, <3>1 DEF op
    <3>5. QED
      BY <3>2, <3>3, <3>4
  <2>4. QED
    BY <1>1, <2>2, <2>3, TotalIsNat, CodeAssumption
<1>6. s'.peak < Half /\ Total + m.size < WordRange
  BY <1>4 DEF Moderate
<1>7. s.remainingSize = shown
  <2>1. s.remainingSize = ToWord(shown)
    BY DEF StatsInv, SizesMatch
  <2>2. shown < WordRange
    BY <1>4, <1>5, <1>6
  <2> HIDE DEF shown
  <2>3. QED
    BY <1>5, <2>1, <2>2, SmallWord
<1>8. grown = shown + m.size /\ grown \in Nat /\ grown <= Total'
  <2>1. shown + m.size \in Nat /\ shown + m.size < WordRange /\ shown + m.size <= Total'
    BY <1>4, <1>5, <1>6
  <2>2. grown = ToWord(shown + m.size)
    BY <1>7 DEF Grown
  <2> HIDE DEF shown, grown
  <2>3. QED
    BY <2>1, <2>2, SmallWord
<1>9. left \in Nat /\ left <= grown
  <2> HIDE DEF shown
  <2>1. CASE freed = NULL
    BY <1>8, <2>1 DEF Remaining
  <2>2. CASE freed # NULL
    <3>1. left = ToWord(grown - op(freed).size)
      BY <1>5, <2>2 DEF Remaining
    <3>2. /\ grown - op(freed).size \in Nat /\ grown - op(freed).size < WordRange
          /\ grown - op(freed).size <= grown
      BY <1>4, <1>5, <1>6, <1>8, <2>2
    <3> HIDE DEF left, freed, grown
    <3>3. QED
      BY <3>1, <3>2, SmallWord
  <2>3. QED
    BY <2>1, <2>2
<1> HIDE DEF freed, freedSize, shown, grown, left
<1>10. s'.peak \in Nat /\ s.peak <= s'.peak /\ grown <= s'.peak /\ s.peak < Half /\ Total < WordRange
  BY <1>3, <1>4, <1>6, <1>8 DEF Larger
<1>11. ChartMatches
  BY <1>10 DEF ChartInv, Moderate
<1>12. \A t : value(s.usage, t) \in Nat /\ value(s.usage, t) <= s.peak
  BY <1>1, <1>11, ValueIsNat DEF ChartMatches
<1>13. left \in Small /\ value(s.usage, m.time) \in Small
  BY <1>4, <1>6, <1>8, <1>9, <1>10, <1>12 DEF Small
<1>14. /\ value(s'.usage, m.time) = Larger(value(s.usage, m.time), left)
       /\ \A t : t # m.time => value(s'.usage, t) = value(s.usage, t)
  BY <1>3, <1>13, UsageIsMaximum
<1>15. value(s'.usage, s'.last) >= s'.remainingSize
  BY <1>3, <1>9, <1>12, <1>14 DEF Larger
<1>16. ASSUME NEW t PROVE value(s'.usage, t) <= s'.peak
  <2>1. s'.peak \in Nat /\ value(s.usage, t) \in Nat /\ value(s.usage, t) <= s.peak
    BY <1>3, <1>4, <1>8, <1>12 DEF Larger
  <2>2. value(s'.usage, t) \in {value(s.usage, t), left}
    BY <1>14 DEF Larger
  <2>3. QED
    BY <1>4, <1>8, <1>9, <1>10, <2>1, <2>2
<1>17. ASSUME "restart" \notin Env PROVE s'.peak <= Total'
  <2>1. s.peak <= Total
    BY <1>11, <1>17 DEF ChartMatches
  <2>2. QED
    BY <1>3, <1>4, <1>8, <2>1 DEF Larger
<1>18. QED
  BY <1>15, <1>16, <1>17 DEF ChartMatches, Env

\* A message that is no memory operation leaves all of it.
LEMMA OtherChart ==
    ASSUME TypeInv, ChartInv, UNCHANGED scenario, NEW m \in MsgType, updateThreadInfos(m) \/ addBacktrace(m)
    PROVE  /\ Total' = Total
           /\ m_globalStats'.peak = m_globalStats.peak /\ m_globalStats'.allocSize = m_globalStats.allocSize
           /\ Moderate' => ChartMatches'
<1>1. m_globalStats \in StatsType /\ ListType
  BY DEF TypeInv
<1>2. m_globalStats' = CountMessage(m_globalStats)
  BY DEF updateThreadInfos, addBacktrace
<1>3. /\ m_globalStats'.peak = m_globalStats.peak /\ m_globalStats'.allocSize = m_globalStats.allocSize
      /\ m_globalStats'.ops = m_globalStats.ops /\ m_globalStats'.last = m_globalStats.last
      /\ m_globalStats'.usage = m_globalStats.usage
      /\ m_globalStats'.remainingSize = m_globalStats.remainingSize
  BY <1>1, <1>2 DEF CountMessage, StatsType
<1>4. Total' = Total
  <2>1. CASE updateThreadInfos(m)
    BY <2>1 DEF updateThreadInfos, listVars, Total, Listed
  <2>2. CASE addBacktrace(m)
    <3>1. Listed' = Listed /\ \A j \in Listed : op(j)'.size = op(j).size
      BY <2>2, GivenBacktrace
    <3> DEFINE new == m_listMemoryOperation'
    <3>2. \A j \in Listed : m_listMemoryOperation[j].size = new[j].size
      BY <3>1 DEF op
    <3>3. Total' = SizeSum(new, Listed)
      BY <3>1 DEF Total
    <3> HIDE DEF new
    <3>4. SizeSum(m_listMemoryOperation, Listed) = SizeSum(new, Listed)
      BY <1>1, <3>2, TotalIsNat, SizeSumSame
    <3>5. QED
      BY <3>3, <3>4 DEF Total
  <2>3. QED
    BY <2>1, <2>2
<1>5. QED
  BY <1>3, <1>4 DEF ChartInv, Moderate, ChartMatches, Env

\* A new connection starts a chart, in a process that is the only one with no peak yet.
LEMMA ConnectionChart ==
    ASSUME TypeInv, ChartInv, UNCHANGED scenario, onNewConnection,
           "restart" \notin Env => m_globalStats.peak = 0
    PROVE  m_globalStats'.allocSize = ToWord(Total)' /\ ChartMatches' /\ m_globalStats'.peak = m_globalStats.peak
<1>1. m_globalStats' = CountMessage(ResetStats(m_globalStats))
  BY DEF onNewConnection
<1>2. /\ m_globalStats'.allocSize = 0 /\ m_globalStats'.ops = 0
      /\ m_globalStats'.peak = m_globalStats.peak /\ m_globalStats'.usage = EmptyUsage
  BY <1>1 DEF CountMessage, ResetStats, NewStats
<1>3. Total' = 0
  <2>1. Listed' = {}
    BY DEF onNewConnection, clearOperations, Listed
  <2>2. \A L : SizeSum(L, {}) = 0
    BY SizeSumEmpty
  <2>3. QED
    BY <2>1, <2>2 DEF Total
<1>4. ToWord(0) = 0 /\ m_globalStats.peak \in Nat
  BY RangeAssumption DEF ToWord, TypeInv, StatsType
<1>5. \A t : value(EmptyUsage, t) = 0
  BY DEF value, EmptyUsage
<1>6. QED
  BY <1>2, <1>3, <1>4, <1>5 DEF ChartMatches, Env

\* Each message taken in keeps the chart with the statistics.
LEMMA DeliverChart ==
    ASSUME Inv, StatsInv, ChartInv, Deliver
    PROVE  ChartInv'
<1> DEFINE k == stream[1]
<1>1. TypeInv /\ ListType /\ LibType /\ ListFormed /\ SentFormed /\ m_globalStats \in StatsType
  BY DEF Inv, TypeInv, FormedInv
<1>2. /\ Len(stream) \in Nat /\ Len(stream) > 0 /\ Head(stream) = k /\ k \in MsgType
      /\ stream' = Tail(stream) /\ Len(Tail(stream)) = Len(stream) - 1
      /\ \A i \in 1..(Len(stream) - 1) : Tail(stream)[i] = stream[i + 1]
  BY <1>1, HeadIsFirst DEF Deliver
<1>3. Formed(k) /\ UNCHANGED scenario /\ doProcessMsgV1(k)
  BY <1>1, <1>2 DEF SentFormed, Deliver
<1>4. "restart" \notin Env => \A j \in 1..Len(stream') : stream'[j].code # "init"
  <2>1. ASSUME "restart" \notin Env, NEW j \in 1..Len(stream') PROVE stream'[j].code # "init"
    <3>1. j + 1 \in 1..Len(stream) /\ stream'[j] = stream[j + 1] /\ j + 1 # 1
      BY <1>2
    <3>2. QED
      BY <2>1, <3>1 DEF ChartInv, FirstProcess
  <2>2. QED
    BY <2>1
<1>5. FirstProcess'
  BY <1>3, <1>4 DEF FirstProcess, Env
<1>6. k.code = "init" /\ "restart" \notin Env => m_globalStats.peak = 0
  <2>1. 1 \in 1..Len(stream)
    BY <1>2
  <2>2. QED
    BY <2>1 DEF ChartInv, FirstProcess
<1> HIDE DEF k
<1>7. CASE k.code = "init" /\ onNewConnection
  BY <1>1, <1>3, <1>5, <1>6, <1>7, ConnectionChart DEF ChartInv
<1>8. CASE k.code \in MemoryCode /\ addMemoryOperation(k)
  <2>1. m_globalStats'.allocSize = ToWord(m_globalStats.allocSize + k.size)
    <3>1. PICK f : m_globalStats' = CountOperation(m_globalStats, k, f)
      BY <1>8 DEF addMemoryOperation
    <3>2. QED
      BY <1>1, <3>1, CountOperationStats
  <2>2. Total' = Total + k.size /\ Total \in Int /\ k.size \in Int
    BY <1>1, <1>2, <1>8, TotalAfterAdd, TotalIsNat DEF MsgType, MsgRecord
  <2>3. m_globalStats'.allocSize = ToWord(Total')
    <3>1. ToWord(ToWord(Total) + k.size) = ToWord(Total + k.size)
      BY <2>2, WordArithmetic
    <3>2. QED
      BY <2>1, <2>2, <3>1 DEF ChartInv
  <2>4. Moderate' => ChartMatches'
    BY <1>1, <1>2, <1>3, <1>8, AddChart
  <2>5. QED
    BY <1>5, <2>3, <2>4 DEF ChartInv, ToWord
<1>9. CASE updateThreadInfos(k) \/ addBacktrace(k)
  <2>1. /\ Total' = Total
        /\ m_globalStats'.allocSize = m_globalStats.allocSize
        /\ Moderate' => ChartMatches'
    BY <1>1, <1>2, <1>3, <1>9, OtherChart
  <2>2. QED
    BY <1>5, <2>1 DEF ChartInv, ToWord
<1>10. QED
  BY <1>3, <1>7, <1>8, <1>9 DEF doProcessMsgV1

\* The library sends no first message but that of the process, unless there are more.
LEMMA LibChart ==
    ASSUME TypeInv, Reporting, ChartInv, LibNext, UNCHANGED <<scenario, controllerVars>>
    PROVE  ChartInv'
<1>1. LibType /\ UNCHANGED <<scenario, m_listMemoryOperation, m_globalStats, threadInfos>>
  BY DEF TypeInv, controllerVars, listVars, threadVars
<1>2. (m_globalStats.allocSize = ToWord(Total))' /\ (Moderate' => ChartMatches')
  BY <1>1 DEF ChartInv, Total, Listed, Moderate, ChartMatches, Env
<1>3. ASSUME "restart" \notin Env, NEW k \in MsgType, k.code # "init", stream' = Append(stream, k)
      PROVE  \A j \in 1..Len(stream') : stream'[j].code = "init" =>
                j = 1 /\ m_globalStats.peak = 0 /\ threadInfos = <<>>
  <2>1. /\ Len(stream) \in Nat /\ Len(stream') = Len(stream) + 1
        /\ \A j \in 1..Len(stream) : stream'[j] = stream[j]
        /\ stream'[Len(stream) + 1] = k
    BY <1>1, <1>3, AppendCurrent
  <2>2. \A j \in 1..Len(stream') : j \in 1..Len(stream) \/ j = Len(stream) + 1
    BY <2>1
  <2>3. QED
    BY <1>3, <2>1, <2>2 DEF ChartInv, FirstProcess
<1>4. ASSUME "restart" \notin Env
      PROVE  UNCHANGED stream \/ \E k \in MsgType : k.code # "init" /\ stream' = Append(stream, k)
  <2>1. ASSUME NEW t \in Thread, Call(t) PROVE UNCHANGED stream
    BY <1>1, <2>1, CallStarts
  <2>2. ASSUME NEW t \in Thread, Send(t) PROVE \E k \in MsgType : k.code # "init" /\ stream' = Append(stream, k)
    BY <1>1, <2>2 DEF Send, Reporting, Reports, LibType
  <2>3. ASSUME NEW t \in Thread, SendBacktraceMsg(t)
        PROVE  \E k \in MsgType : k.code # "init" /\ stream' = Append(stream, k)
    <3> DEFINE k == [Msg(t, "backtrace", NULL, 0, NULL)
                        EXCEPT !.num = msg[t].num, !.time = msg[t].time, !.origin = msg[t].origin]
    <3>1. k \in MsgType /\ k.code = "backtrace"
      BY <1>1, ThreadMsgType DEF Msg
    <3>2. stream' = Append(stream, k)
      BY <2>3 DEF SendBacktraceMsg
    <3> HIDE DEF k
    <3>3. QED
      BY <3>1, <3>2
  <2>4. ASSUME NEW t \in Thread, Stamp(t) \/ RealFree(t) \/ ThreadExit(t) PROVE UNCHANGED stream
    BY <2>4 DEF Stamp, RealFree, ThreadExit
  <2>5. ~Restart /\ (Tick => UNCHANGED stream)
    BY <1>4 DEF Restart, Tick
  <2>6. QED
    BY <2>1, <2>2, <2>3, <2>4, <2>5 DEF LibNext, Report
<1>5. FirstProcess'
  BY <1>1, <1>3, <1>4 DEF ChartInv, FirstProcess, Env
<1>6. QED
  BY <1>2, <1>5 DEF ChartInv

\* At the start nothing is counted.
LEMMA InitChart == Init => ChartInv
<1> SUFFICES ASSUME Init PROVE ChartInv
  OBVIOUS
<1>1. m_globalStats = NewStats /\ Listed = {} /\ stream = <<AppMsg>> /\ Len(stream) = 1 /\ threadInfos = <<>>
  BY DEF Init, LibInit, ControllerInit, Listed
<1>2. /\ m_globalStats.allocSize = 0 /\ m_globalStats.ops = 0 /\ m_globalStats.peak = 0
      /\ m_globalStats.usage = EmptyUsage
  BY <1>1 DEF NewStats
<1>3. Total = 0
  BY <1>1, SizeSumEmpty DEF Total
<1>4. ToWord(0) = 0
  BY RangeAssumption DEF ToWord
<1>5. \A t : value(EmptyUsage, t) = 0
  BY DEF value, EmptyUsage
<1>6. ChartMatches
  BY <1>2, <1>3, <1>5 DEF ChartMatches
<1>7. FirstProcess
  BY <1>1, <1>2 DEF FirstProcess
<1>8. QED
  BY <1>2, <1>3, <1>4, <1>6, <1>7 DEF ChartInv

\* The chart's invariant holds in every reachable state.
LEMMA SpecChart == Spec => []ChartInv
<1>1. Inv /\ StatsInv /\ BacktraceInv /\ ChartInv /\ [Next]_vars => ChartInv'
  <2>1. SUFFICES ASSUME Inv, StatsInv, BacktraceInv, ChartInv, [Next]_vars PROVE ChartInv'
    OBVIOUS
  <2>2. CASE LibNext /\ UNCHANGED <<scenario, controllerVars>>
    BY <2>1, <2>2, LibChart DEF Inv, BacktraceInv
  <2>3. CASE Deliver
    BY <2>1, <2>3, DeliverChart
  <2>4. CASE UNCHANGED vars
    BY <2>1, <2>4 DEF vars, libVars, controllerVars, listVars, threadVars,
                      ChartInv, Total, Listed, Moderate, ChartMatches, FirstProcess, Env, ToWord
  <2>5. QED
    BY <2>1, <2>2, <2>3, <2>4 DEF Next
<1>2. QED
  BY <1>1, InitChart, SpecInv, SpecStats, SpecBacktraces, PTL DEF Inv, Spec

\* As long as less than half the range of an int is in use, and less than that of a
\* quint64 was allocated, the chart agrees with the statistics: the second of the last
\* operation shows no less than what remains, no second more than the peak, and the peak
\* of a process that is the only one no more than it allocated
\* (LeakDetector.ChartConsistent).  Beyond, UsageIsStuck and UsageForgets hold.
THEOREM SpecChartConsistent == Spec => [](Moderate => ChartConsistent)
<1>1. TypeInv /\ ChartInv => (Moderate => ChartConsistent)
  <2>1. SUFFICES ASSUME TypeInv, ChartInv, Moderate PROVE ChartConsistent
    OBVIOUS
  <2>2. ChartMatches
    BY <2>1 DEF ChartInv
  <2>3. \A t \in DOMAIN m_globalStats.usage.sizes : m_globalStats.usage.sizes[t] <= m_globalStats.peak
    BY <2>2 DEF ChartMatches, value
  <2>4. m_globalStats.allocSize = Total
    BY <2>1, SmallWord, TotalIsNat DEF ChartInv, Moderate, TypeInv
  <2>5. QED
    BY <2>2, <2>3, <2>4 DEF ChartConsistent, ChartMatches
<1>2. QED
  BY <1>1, SpecInv, SpecChart, PTL DEF Inv

-----------------------------------------------------------------------------
(* Usage by thread *)

\* the program's threads are reported as such
Regular == MisreportedThreads = {}

-----------------------------------------------------------------------------
(* What a table should be *)

\* Every entry ever made is listed.  Those of one identifier follow each other
\* without overlap, and the last one, only, is alive.
Tidy(T) ==
    LET N == Len(T.infos) IN
    /\ T.listed = 1..N
    /\ \A e \in 1..N : /\ T.infos[e].creation <= T.infos[e].last
                       /\ T.infos[e].creation = 0 => T.infos[e].last = 0
                       /\ \E f \in T.alive : T.infos[f].tid = T.infos[e].tid
    /\ \A e, f \in 1..N : T.infos[e].tid = T.infos[f].tid /\ e < f =>
            T.infos[e].last < T.infos[f].creation /\ e \notin T.alive

\* the operation o is of the thread and the time an entry stands for
Covers(info, o) == o.thread = info.tid /\ info.creation <= o.num /\ o.num <= info.last

\* those of the operations S in the list ops that an entry stands for
Part(info, ops, S) == {i \in S : Covers(info, ops[i])}

Counted(info, ops, S) ==
    /\ info.count = Cardinality(Part(info, ops, S)) % CountRange
    /\ info.size = ToWord(SizeSum(ops, Part(info, ops, S)))

\* Every operation of S has an entry, every entry the count and the size of its own.
Exact(T, ops, S) ==
    /\ \A i \in S : \E e \in 1..Len(T.infos) : Covers(T.infos[e], ops[i])
    /\ \A e \in 1..Len(T.infos) : Counted(T.infos[e], ops, S)

-----------------------------------------------------------------------------
(* What is reported of a thread, and in which order *)

Starts(m) == m.code = "pthread_create"

\* the messages that change an entry of the identifier t
Concerns(m, t) ==
    \/ m.code \in MemoryCode /\ m.thread = t
    \/ Starts(m) /\ m.tid = t

\* what the lists ops and infos know of t, and the first n messages of the stream
\* str, have numbers up to x
UpTo(ops, infos, str, t, n, x) ==
    /\ \A k \in 1..Len(ops) : ops[k].thread = t => ops[k].num <= x
    /\ \A e \in 1..Len(infos) : infos[e].tid = t => infos[e].last <= x
    /\ \A j \in 1..n : Concerns(str[j], t) => str[j].num <= x

Reported(t, n, x) == UpTo(m_listMemoryOperation, threadInfos, stream, t, n, x)

\* t is one of run and is at a step of a wrapper with the message m; the thread it starts does
\* not run yet
Proper(run, t, step, m) ==
    /\ t \in run /\ m.thread = t /\ m.code # "init"
    /\ ~Starts(m) => m.born = NULL
    /\ Starts(m) => /\ step \in {"stamp", "send"}
                    /\ m.tid \in Thread \ run /\ m.born \in Nat

\* No two threads start one under the same identifier.
StartersInv ==
    /\ \A t \in Thread : pc[t] # "idle" => Proper(running, t, pc[t], msg[t])
    /\ \A t, u \in Thread : pc[t] # "idle" /\ pc[u] # "idle" /\ Starts(msg[t]) /\ Starts(msg[u])
                            /\ msg[t].tid = msg[u].tid => t = u

\* Numbers are given from 1 on.
NumbersInv ==
    /\ \A t \in TidType : Reported(t, Len(stream), g_iMsgNum)
    /\ \A t \in Thread : pc[t] \in {"send", "send_bt"} => msg[t].num \in 1..g_iMsgNum
    /\ \A i \in 1..Len(stream) : stream[i].num >= 1
    /\ \A k \in 1..Len(m_listMemoryOperation) : op(k).num >= 1

\* The App message comes first, and there is one.
OpeningInv == \A i \in 1..Len(stream) : stream[i].code = "init" => i = 1 /\ threadInfos = <<>>

\* The messages about an identifier come in the order of their numbers.
OrderInv ==
    \A t \in TidType :
        /\ \A j \in 1..Len(stream) : Concerns(stream[j], t) => Reported(t, j - 1, stream[j].num - 1)
        /\ \A u \in Thread : pc[u] = "send" /\ Concerns(msg[u], t) =>
                Reported(t, Len(stream), msg[u].num - 1)

ReportsInv == StartersInv /\ NumbersInv /\ OpeningInv /\ OrderInv

TableInv == Tidy(Table) /\ Exact(Table, m_listMemoryOperation, Shown)

ThreadInv == Regular => ReportsInv /\ TableInv

-----------------------------------------------------------------------------
(* Operations on a table *)

\* The entries of a table are entries.
LEMMA EntryFacts ==
    ASSUME NEW T \in TableType
    PROVE  /\ Len(T.infos) \in Nat
           /\ T.alive \subseteq 1..Len(T.infos)
           /\ \A e \in 1..Len(T.infos) :
                /\ T.infos[e] \in InfoType
                /\ T.infos[e].creation \in Nat /\ T.infos[e].last \in Nat
                /\ T.infos[e].count \in Nat /\ T.infos[e].size \in Nat
<1>1. T.infos \in Seq(InfoType) /\ T.alive \subseteq 1..Len(T.infos)
  BY DEF TableType
<1>2. Len(T.infos) \in Nat /\ \A e \in 1..Len(T.infos) : T.infos[e] \in InfoType
  BY <1>1, LenProperties, ElementOfSeq
<1>3. \A info \in InfoType : /\ info.creation \in Nat /\ info.last \in Nat
                             /\ info.count \in Nat /\ info.size \in Nat
  BY DEF InfoType
<1>4. QED
  BY <1>1, <1>2, <1>3

\* An operation belongs to one entry at most.
LEMMA OneCovers ==
    ASSUME NEW T \in TableType, Tidy(T), NEW o, o.num \in Nat,
           NEW e \in 1..Len(T.infos), NEW f \in 1..Len(T.infos),
           Covers(T.infos[e], o), Covers(T.infos[f], o)
    PROVE  e = f
<1>1. \A j \in 1..Len(T.infos) : T.infos[j].creation \in Nat /\ T.infos[j].last \in Nat
  BY EntryFacts
<1>2. ASSUME NEW g \in 1..Len(T.infos), NEW h \in 1..Len(T.infos), g < h,
             Covers(T.infos[g], o), Covers(T.infos[h], o)
      PROVE  FALSE
  <2>1. T.infos[g].last < T.infos[h].creation
    BY <1>2 DEF Tidy, Covers
  <2>2. o.num <= T.infos[g].last /\ T.infos[h].creation <= o.num
    BY <1>2 DEF Covers
  <2>3. T.infos[g].last \in Nat /\ T.infos[h].creation \in Nat
    BY <1>1
  <2>4. QED
    BY <2>1, <2>2, <2>3
<1>3. Len(T.infos) \in Nat
  BY EntryFacts
<1>4. e < f \/ f < e \/ e = f
  BY <1>3
<1>5. QED
  BY <1>2, <1>4

\* A new entry is the last and the one found for its identifier.
LEMMA AddEntryIs ==
    ASSUME NEW T \in TableType, NEW tid \in TidType, \A f \in T.alive : T.infos[f].tid # tid
    PROVE  LET U == AddEntry(T, tid)
               N == Len(T.infos)
           IN  /\ U \in TableType /\ Len(U.infos) = N + 1
               /\ \A j \in 1..N : U.infos[j] = T.infos[j]
               /\ U.infos[N + 1].tid = tid
               /\ U.infos[N + 1].creation = 0 /\ U.infos[N + 1].last = 0
               /\ U.infos[N + 1].count = 0 /\ U.infos[N + 1].size = 0
               /\ U.listed = T.listed \cup {N + 1} /\ U.alive = T.alive \cup {N + 1}
               /\ getById(U, U.alive, tid) = N + 1
<1> DEFINE U == AddEntry(T, tid)
           N == Len(T.infos)
           info == NewThreadInfos(tid, IF T.listed = {} THEN "main" ELSE "")
           e == getById(U, U.alive, tid)
<1>1. T.infos \in Seq(InfoType) /\ N \in Nat /\ T.alive \subseteq 1..N
  BY EntryFacts DEF TableType
<1>2. /\ info \in InfoType /\ info.tid = tid /\ info.creation = 0 /\ info.last = 0
      /\ info.count = 0 /\ info.size = 0
  BY DEF NewThreadInfos, InfoType, TidType, ThreadName
<1>3. U \in TableType /\ e # NULL
  BY AddEntryType
<1>4. U.infos = Append(T.infos, info) /\ U.listed = T.listed \cup {N + 1} /\ U.alive = T.alive \cup {N + 1}
  BY DEF AddEntry
<1> HIDE DEF info
<1>5. Len(U.infos) = N + 1 /\ U.infos[N + 1] = info /\ \A j \in 1..N : U.infos[j] = T.infos[j]
  BY <1>1, <1>2, <1>4, AppendProperties
<1>6. e = N + 1
  <2>1. U.alive \subseteq 1..(N + 1) /\ N + 1 \in Nat
    BY <1>1, <1>4
  <2> HIDE DEF U
  <2>2. e \in U.alive /\ U.infos[e].tid = tid
    BY <1>3, <2>1, GetByIdIsIn
  <2>3. e \notin T.alive
    <3>1. SUFFICES ASSUME e \in T.alive PROVE FALSE
      OBVIOUS
    <3>2. U.infos[e] = T.infos[e]
      BY <1>1, <1>5, <3>1
    <3>3. QED
      BY <2>2, <3>1, <3>2
  <2>4. QED
    BY <1>4, <2>2, <2>3
<1>7. QED
  BY <1>2, <1>3, <1>4, <1>5, <1>6

\* what the properties see of an entry
Agree(x, y) ==
    /\ x.tid = y.tid /\ x.creation = y.creation /\ x.last = y.last
    /\ x.count = y.count /\ x.size = y.size

\* Retiring takes an entry from those alive and changes nothing the properties see.
LEMMA RetireIs ==
    ASSUME NEW T \in TableType, NEW tid \in TidType, getById(T, T.alive, tid) # NULL
    PROVE  LET U == Retire(T, tid)
           IN  /\ U \in TableType /\ Len(U.infos) = Len(T.infos)
               /\ \A j \in 1..Len(T.infos) : Agree(U.infos[j], T.infos[j])
               /\ U.listed = T.listed
               /\ U.alive = {f \in T.alive : T.infos[f].tid # tid}
<1> DEFINE e == getById(T, T.alive, tid)
           U == Retire(T, tid)
           info == [T.infos[e] EXCEPT !.terminated = TRUE]
<1>1. T.infos \in Seq(InfoType) /\ Len(T.infos) \in Nat /\ T.alive \subseteq 1..Len(T.infos)
  BY EntryFacts DEF TableType
<1>2. e \in 1..Len(T.infos)
  BY <1>1, GetByIdIsIn
<1>3. T.infos[e] \in InfoType
  BY <1>2, EntryFacts
<1>4. U \in TableType
  BY RetireType
<1>5. U.infos = [T.infos EXCEPT ![e] = info] /\ U.listed = T.listed /\ U.alive = removeById(T, T.alive, tid)
  BY DEF Retire, TableType
<1>6. Agree(info, T.infos[e])
  <2>1. \A x \in InfoType : Agree([x EXCEPT !.terminated = TRUE], x)
    BY DEF InfoType, Agree
  <2>2. QED
    BY <1>3, <2>1
<1> HIDE DEF e, U, info
<1>7. Len(U.infos) = Len(T.infos) /\ \A j \in 1..Len(T.infos) : U.infos[j] = IF j = e THEN info ELSE T.infos[j]
  BY <1>1, <1>2, <1>5, ExceptSeq
<1>8. \A j \in 1..Len(T.infos) : Agree(U.infos[j], T.infos[j])
  BY <1>6, <1>7 DEF Agree
<1>9. QED
  BY <1>4, <1>5, <1>7, <1>8 DEF U, removeById

\* An entry found among those alive is the last of its identifier.
LEMMA AliveIsLast ==
    ASSUME NEW T \in TableType, Tidy(T), NEW e \in T.alive, NEW f \in 1..Len(T.infos),
           T.infos[f].tid = T.infos[e].tid
    PROVE  f <= e
<1>1. e \in 1..Len(T.infos) /\ Len(T.infos) \in Nat
  BY EntryFacts
<1>2. ~(e < f)
  BY <1>1 DEF Tidy
<1>3. QED
  BY <1>1, <1>2

-----------------------------------------------------------------------------
(* Counts *)

\* Counting up and down in a uint32_t.
LEMMA CountArithmetic ==
    ASSUME NEW c \in Nat
    PROVE  /\ ((c % CountRange) + 1) % CountRange = (c + 1) % CountRange
           /\ ((c % CountRange) - 1) % CountRange = (c - 1) % CountRange
<1>1. CountRange \in Nat \ {0} /\ c \in Int /\ 1 \in Int /\ -1 \in Int
  BY CountAssumption
<1>2. ((c % CountRange) + 1) % CountRange = (c + 1) % CountRange
  BY <1>1, ModAdd
<1>3. ((c % CountRange) + (-1)) % CountRange = (c + (-1)) % CountRange
  BY <1>1, ModAdd
<1>4. (c % CountRange) + (-1) = (c % CountRange) - 1 /\ c + (-1) = c - 1
  <2>1. (c % CountRange) \in Int
    BY <1>1
  <2>2. QED
    BY <2>1
<1>5. QED
  BY <1>2, <1>3, <1>4

\* An entry that stands for the same operations keeps its count and size.
LEMMA CountedSame ==
    ASSUME NEW x, NEW y, NEW ops, NEW new, NEW S, NEW R, IsFiniteSet(S), Counted(x, ops, S),
           y.count = x.count, y.size = x.size, Part(y, new, R) = Part(x, ops, S),
           \A i \in Part(x, ops, S) : new[i].size = ops[i].size
    PROVE  Counted(y, new, R)
<1> DEFINE P == Part(x, ops, S)
<1>1. IsFiniteSet(P)
  <2>1. P \subseteq S
    BY DEF Part
  <2>2. QED
    BY <2>1, FS_Subset
<1> HIDE DEF P
<1>2. \A i \in P : ops[i].size = new[i].size
  BY DEF P
<1>3. SizeSum(ops, P) = SizeSum(new, P)
  BY <1>1, <1>2, SizeSumSame
<1>4. QED
  BY <1>3 DEF Counted, P

\* It grows by the operation that joins them,
LEMMA CountedMore ==
    ASSUME NEW x, NEW y, NEW ops, NEW new, NEW S, NEW R, NEW n, IsFiniteSet(S), Counted(x, ops, S),
           y.count = (x.count + 1) % CountRange, y.size = ToWord(x.size + new[n].size),
           Part(y, new, R) = Part(x, ops, S) \cup {n}, n \notin Part(x, ops, S), new[n].size \in Nat,
           \A i \in Part(x, ops, S) : new[i].size = ops[i].size /\ ops[i].size \in Nat
    PROVE  Counted(y, new, R)
<1> DEFINE P == Part(x, ops, S)
           c == Cardinality(P)
           z == SizeSum(ops, P)
<1>1. IsFiniteSet(P) /\ c \in Nat
  <2>1. P \subseteq S
    BY DEF Part
  <2>2. IsFiniteSet(P)
    BY <2>1, FS_Subset
  <2> HIDE DEF P
  <2>3. QED
    BY <2>2, FS_CardinalityType
<1> HIDE DEF P
<1>2. \A i \in P : ops[i].size = new[i].size /\ ops[i].size \in Nat /\ new[i].size \in Nat
  BY DEF P
<1>3. SizeSum(new, P) = z /\ z \in Nat
  BY <1>1, <1>2, SizeSumSame, SizeSumNat
<1>4. n \notin P
  BY DEF P
<1>5. SizeSum(new, P \cup {n}) = new[n].size + z
  BY <1>1, <1>2, <1>3, <1>4, SizeSumAdd
<1>6. Cardinality(P \cup {n}) = c + 1
  BY <1>1, <1>4, FS_AddElement
<1> HIDE DEF c, z
<1>7. ((c % CountRange) + 1) % CountRange = (c + 1) % CountRange
  BY <1>1, CountArithmetic
<1>8. ToWord(ToWord(z) + new[n].size) = ToWord(new[n].size + z)
  <2>1. z \in Int /\ new[n].size \in Int
    BY <1>3
  <2>2. ToWord(ToWord(z) + new[n].size) = ToWord(z + new[n].size)
    BY <2>1, WordArithmetic
  <2>3. z + new[n].size = new[n].size + z
    BY <2>1
  <2>4. QED
    BY <2>2, <2>3
<1>9. x.count = c % CountRange /\ x.size = ToWord(z)
  BY DEF Counted, P, c, z
<1>10. QED
  BY <1>5, <1>6, <1>7, <1>8, <1>9 DEF Counted, P

\* and shrinks by the one that leaves them.
LEMMA CountedLess ==
    ASSUME NEW x, NEW y, NEW ops, NEW S, NEW R, NEW n, IsFiniteSet(S), Counted(x, ops, S),
           y.count = (x.count - 1) % CountRange, y.size = ToWord(x.size - ops[n].size),
           Part(y, ops, R) = Part(x, ops, S) \ {n}, n \in Part(x, ops, S),
           \A i \in Part(x, ops, S) : ops[i].size \in Nat
    PROVE  Counted(y, ops, R)
<1> DEFINE P == Part(x, ops, S)
           c == Cardinality(P)
           z == SizeSum(ops, P)
           s == ops[n].size
           rest == SizeSum(ops, P \ {n})
<1>1. IsFiniteSet(P) /\ c \in Nat
  <2>1. P \subseteq S
    BY DEF Part
  <2>2. IsFiniteSet(P)
    BY <2>1, FS_Subset
  <2> HIDE DEF P
  <2>3. QED
    BY <2>2, FS_CardinalityType
<1> HIDE DEF P
<1>2. n \in P /\ (\A i \in P : ops[i].size \in Nat) /\ s \in Nat
  BY DEF P
<1>3. z = s + rest
  <2>1. \A i \in P : SizeSum(ops, P) = ops[i].size + SizeSum(ops, P \ {i})
    BY <1>1, <1>2, SizeSumRemove
  <2>2. QED
    BY <1>2, <2>1
<1>4. z \in Nat /\ rest \in Nat
  <2>1. IsFiniteSet(P \ {n})
    BY <1>1, FS_Subset
  <2>2. \A i \in P \ {n} : ops[i].size \in Nat
    BY <1>2
  <2>3. QED
    BY <1>1, <1>2, <2>1, <2>2, SizeSumNat
<1>5. Cardinality(P \ {n}) = c - 1
  BY <1>1, <1>2, FS_RemoveElement
<1>6. x.count = c % CountRange /\ x.size = ToWord(z)
  BY DEF Counted, P
<1> HIDE DEF c, z, rest, s
<1>7. ((c % CountRange) - 1) % CountRange = (c - 1) % CountRange
  BY <1>1, CountArithmetic
<1>8. ToWord(ToWord(z) - s) = ToWord(rest)
  <2>1. ToWord(ToWord(z) + (-s)) = ToWord(z + (-s))
    <3>1. z \in Int /\ -s \in Int
      BY <1>2, <1>4
    <3>2. QED
      BY <3>1, WordArithmetic
  <2>2. ToWord(z) \in Nat
    <3>1. z \in Int
      BY <1>4
    <3>2. QED
      BY <3>1, WordArithmetic
  <2>3. ToWord(z) + (-s) = ToWord(z) - s /\ z + (-s) = rest
    BY <1>2, <1>3, <1>4, <2>2
  <2>4. QED
    BY <2>1, <2>3
<1>9. QED
  BY <1>5, <1>6, <1>7, <1>8 DEF Counted, P, s, rest

-----------------------------------------------------------------------------
(* Tables stay tidy and exact *)

\* operations with numbers and sizes
Operations(ops, S) ==
    IsFiniteSet(S) /\ \A i \in S : ops[i].num \in Nat /\ ops[i].num >= 1 /\ ops[i].size \in Nat

\* Changing an entry changes nothing else.
LEMMA PutIs ==
    ASSUME NEW T \in TableType, NEW e \in 1..Len(T.infos), NEW info \in InfoType
    PROVE  LET U == [T EXCEPT !.infos[e] = info]
           IN  /\ U \in TableType /\ Len(U.infos) = Len(T.infos)
               /\ U.listed = T.listed /\ U.alive = T.alive
               /\ U.infos[e] = info /\ \A j \in 1..Len(T.infos) : j # e => U.infos[j] = T.infos[j]
<1> DEFINE U == [T EXCEPT !.infos[e] = info]
<1>1. U \in TableType /\ Len(U.infos) = Len(T.infos)
  BY PutEntry
<1>2. T.infos \in Seq(InfoType)
  BY DEF TableType
<1>3. U.infos = [T.infos EXCEPT ![e] = info] /\ U.listed = T.listed /\ U.alive = T.alive
  BY DEF TableType
<1> HIDE DEF U
<1>4. U.infos[e] = info /\ \A j \in 1..Len(T.infos) : j # e => U.infos[j] = T.infos[j]
  BY <1>2, <1>3, ExceptSeq
<1>5. QED
  BY <1>1, <1>3, <1>4 DEF U

\* Entries that agree stand for the same operations.
LEMMA AgreeCounts ==
    ASSUME NEW x, NEW y, NEW ops, NEW S, Agree(x, y)
    PROVE  /\ Counted(y, ops, S) => Counted(x, ops, S)
           /\ \A i \in S : Covers(x, ops[i]) <=> Covers(y, ops[i])
<1>1. \A i \in S : Covers(x, ops[i]) <=> Covers(y, ops[i])
  BY DEF Covers, Agree
<1>2. Part(x, ops, S) = Part(y, ops, S)
  BY <1>1 DEF Part
<1>3. QED
  BY <1>1, <1>2 DEF Counted, Agree

\* A new entry that is behind the others of its identifier, and stands for none of
\* the operations, leaves the table as it should be.
LEMMA NewEntryKeeps ==
    ASSUME NEW T \in TableType, NEW U \in TableType, NEW ops, NEW S, Tidy(T), Exact(T, ops, S),
           Len(U.infos) = Len(T.infos) + 1,
           \A j \in 1..Len(T.infos) : Agree(U.infos[j], T.infos[j]),
           NEW new, new = U.infos[Len(T.infos) + 1],
           new.count = 0, new.size = 0, new.creation <= new.last, new.creation = 0 => new.last = 0,
           U.listed = T.listed \cup {Len(T.infos) + 1},
           U.alive = {f \in T.alive : T.infos[f].tid # new.tid} \cup {Len(T.infos) + 1},
           \A j \in 1..Len(T.infos) : T.infos[j].tid = new.tid => T.infos[j].last < new.creation,
           \A i \in S : ~Covers(new, ops[i])
    PROVE  Tidy(U) /\ Exact(U, ops, S)
<1> DEFINE N == Len(T.infos)
<1>1. N \in Nat /\ T.alive \subseteq 1..N
  BY EntryFacts
<1>2. 1..(N + 1) = 1..N \cup {N + 1} /\ N + 1 \notin 1..N
  BY <1>1
<1>3. \A j \in 1..N : /\ U.infos[j].tid = T.infos[j].tid
                      /\ U.infos[j].creation = T.infos[j].creation
                      /\ U.infos[j].last = T.infos[j].last
  BY DEF Agree
<1> HIDE DEF N
<1>4. Tidy(U)
  <2>1. U.listed = 1..(N + 1)
    BY <1>2 DEF Tidy, N
  <2>2. ASSUME NEW e \in 1..(N + 1)
        PROVE  /\ U.infos[e].creation <= U.infos[e].last
               /\ U.infos[e].creation = 0 => U.infos[e].last = 0
               /\ \E f \in U.alive : U.infos[f].tid = U.infos[e].tid
    <3>1. CASE e = N + 1
      BY <3>1 DEF N
    <3>2. CASE e \in 1..N
      <4>1. /\ U.infos[e].creation <= U.infos[e].last
            /\ U.infos[e].creation = 0 => U.infos[e].last = 0
        BY <1>3, <3>2 DEF Tidy, N
      <4>2. PICK f \in T.alive : T.infos[f].tid = T.infos[e].tid
        BY <3>2 DEF Tidy, N
      <4>3. CASE T.infos[e].tid = new.tid
        <5>1. N + 1 \in U.alive /\ U.infos[N + 1].tid = new.tid
          BY DEF N
        <5>2. U.infos[e].tid = new.tid
          BY <1>3, <3>2, <4>3
        <5>3. QED
          BY <4>1, <5>1, <5>2
      <4>4. CASE T.infos[e].tid # new.tid
        <5>1. f \in U.alive /\ f \in 1..N
          BY <1>1, <4>2, <4>4
        <5>2. U.infos[f].tid = U.infos[e].tid
          BY <1>3, <3>2, <4>2, <5>1
        <5>3. QED
          BY <4>1, <5>1, <5>2
      <4>5. QED
        BY <4>1, <4>3, <4>4
    <3>3. QED
      BY <1>2, <3>1, <3>2
  <2>3. ASSUME NEW e \in 1..(N + 1), NEW f \in 1..(N + 1), U.infos[e].tid = U.infos[f].tid, e < f
        PROVE  U.infos[e].last < U.infos[f].creation /\ e \notin U.alive
    <3>1. e \in 1..N /\ (f \in 1..N \/ f = N + 1) /\ e # N + 1
      <4>1. e < f /\ e \in 1..(N + 1) /\ f \in 1..(N + 1)
        BY <2>3
      <4>2. QED
        BY <1>1, <4>1
    <3>2. CASE f = N + 1
      BY <1>3, <2>3, <3>1, <3>2 DEF N
    <3>3. CASE f \in 1..N
      <4>1. T.infos[e].tid = T.infos[f].tid
        BY <1>3, <2>3, <3>1, <3>3
      <4>2. T.infos[e].last < T.infos[f].creation /\ e \notin T.alive
        BY <2>3, <3>1, <3>3, <4>1 DEF Tidy, N
      <4>3. QED
        BY <1>3, <3>1, <3>3, <4>2 DEF N
    <3>4. QED
      BY <3>1, <3>2, <3>3
  <2>4. QED
    BY <2>1, <2>2, <2>3 DEF Tidy, N
<1>5. Exact(U, ops, S)
  <2>1. ASSUME NEW i \in S PROVE \E e \in 1..(N + 1) : Covers(U.infos[e], ops[i])
    <3>1. PICK e \in 1..N : Covers(T.infos[e], ops[i])
      BY DEF Exact, N
    <3>2. Covers(U.infos[e], ops[i])
      BY <3>1, AgreeCounts DEF N
    <3>3. QED
      BY <1>2, <3>2
  <2>2. ASSUME NEW e \in 1..N PROVE Counted(U.infos[e], ops, S)
    <3>1. Counted(T.infos[e], ops, S) /\ Agree(U.infos[e], T.infos[e])
      BY DEF Exact, N
    <3>2. QED
      BY <3>1, AgreeCounts
  <2>3. Counted(new, ops, S)
    <3>1. Part(new, ops, S) = {}
      BY DEF Part
    <3>2. SizeSum(ops, {}) = 0 /\ Cardinality({}) = 0
      BY SizeSumEmpty, FS_EmptySet
    <3>3. ToWord(0) = 0 /\ 0 % CountRange = 0
      BY RangeAssumption, CountAssumption DEF ToWord
    <3>4. QED
      BY <3>1, <3>2, <3>3 DEF Counted
  <2>4. QED
    BY <1>2, <2>1, <2>2, <2>3 DEF Exact, N
<1>6. QED
  BY <1>4, <1>5

\* The entry j of W is new or has the last number of one of T,
Came(T, W, j) ==
    \/ W.infos[j].last = 0
    \/ \E f \in 1..Len(T.infos) : T.infos[f].tid = W.infos[j].tid /\ W.infos[j].last = T.infos[f].last

\* or is of t and was last used by x.
Follows(T, W, t, x) ==
    \A j \in 1..Len(W.infos) : Came(T, W, j) \/ (W.infos[j].tid = t /\ W.infos[j].last = x)

\* Both hold along two changes.
LEMMA FollowsOn ==
    ASSUME NEW T, NEW U, NEW W, NEW t, NEW x, Follows(T, U, t, x), Follows(U, W, t, x)
    PROVE  Follows(T, W, t, x)
<1>1. ASSUME NEW j \in 1..Len(W.infos)
      PROVE  Came(T, W, j) \/ (W.infos[j].tid = t /\ W.infos[j].last = x)
  <2>1. CASE W.infos[j].last = 0 \/ (W.infos[j].tid = t /\ W.infos[j].last = x)
    BY <2>1 DEF Came
  <2>2. CASE \E f \in 1..Len(U.infos) : U.infos[f].tid = W.infos[j].tid /\ W.infos[j].last = U.infos[f].last
    <3>1. PICK f \in 1..Len(U.infos) : U.infos[f].tid = W.infos[j].tid /\ W.infos[j].last = U.infos[f].last
      BY <2>2
    <3>2. Came(T, U, f) \/ (U.infos[f].tid = t /\ U.infos[f].last = x)
      BY DEF Follows
    <3>3. QED
      BY <3>1, <3>2 DEF Came
  <2>3. QED
    BY <2>1, <2>2 DEF Follows, Came
<1>2. QED
  BY <1>1 DEF Follows

\* Looking up a thread, which may be new, leaves the table as it should be and
\* finds the entry that is alive.
LEMMA LookupKeeps ==
    ASSUME NEW T \in TableType, NEW tid \in TidType, NEW ops, NEW S, Tidy(T), Exact(T, ops, S),
           Operations(ops, S)
    PROVE  LET U == withThreadInfos(T, tid, FALSE)
               e == getById(U, U.alive, tid)
           IN  /\ U \in TableType /\ Tidy(U) /\ Exact(U, ops, S)
               /\ e \in U.alive /\ e \in 1..Len(U.infos) /\ U.infos[e].tid = tid
               /\ \A j \in 1..Len(U.infos) : Came(T, U, j)
<1> DEFINE known == getById(T, T.alive, tid)
           A == AddEntry(T, tid)
           N == Len(T.infos)
<1>1. N \in Nat /\ T.alive \subseteq 1..N
  BY EntryFacts
<1>2. CASE known # NULL
  <2>1. withThreadInfos(T, tid, FALSE) = T
    BY <1>2 DEF withThreadInfos
  <2>2. known \in T.alive /\ known \in 1..N /\ T.infos[known].tid = tid
    BY <1>1, <1>2, GetByIdIsIn
  <2>3. \A j \in 1..N : Came(T, T, j)
    BY DEF Came
  <2>4. QED
    BY <2>1, <2>2, <2>3
<1>3. CASE known = NULL
  <2>1. withThreadInfos(T, tid, FALSE) = A
    BY <1>3 DEF withThreadInfos
  <2>2. \A f \in T.alive : T.infos[f].tid # tid
    BY <1>1, <1>3, GetByIdIsIn
  <2>3. \A f \in 1..N : T.infos[f].tid # tid
    BY <2>2 DEF Tidy
  <2>4. /\ A \in TableType /\ Len(A.infos) = N + 1
        /\ \A j \in 1..N : A.infos[j] = T.infos[j]
        /\ A.infos[N + 1].tid = tid
        /\ A.infos[N + 1].creation = 0 /\ A.infos[N + 1].last = 0
        /\ A.infos[N + 1].count = 0 /\ A.infos[N + 1].size = 0
        /\ A.listed = T.listed \cup {N + 1} /\ A.alive = T.alive \cup {N + 1}
        /\ getById(A, A.alive, tid) = N + 1
    BY <2>2, AddEntryIs
  <2> HIDE DEF A
  <2>5. \A j \in 1..N : Agree(A.infos[j], T.infos[j])
    BY <2>4 DEF Agree
  <2>6. A.alive = {f \in T.alive : T.infos[f].tid # A.infos[N + 1].tid} \cup {N + 1}
    BY <2>2, <2>4
  <2>7. \A i \in S : ~Covers(A.infos[N + 1], ops[i])
    <3>1. \A i \in S : ~(ops[i].num <= 0)
      BY DEF Operations
    <3>2. QED
      BY <2>4, <3>1 DEF Covers
  <2>8. Tidy(A) /\ Exact(A, ops, S)
    <3>1. A.infos[N + 1].creation <= A.infos[N + 1].last
      BY <2>4
    <3>2. \A j \in 1..N : T.infos[j].tid = A.infos[N + 1].tid => T.infos[j].last < A.infos[N + 1].creation
      BY <2>3, <2>4
    <3>3. QED
      BY <2>4, <2>5, <2>6, <2>7, <3>1, <3>2, NewEntryKeeps
  <2>9. N + 1 \in 1..(N + 1) /\ 1..(N + 1) = 1..N \cup {N + 1}
    BY <1>1
  <2>10. \A j \in 1..(N + 1) : Came(T, A, j)
    <3>1. \A j \in 1..N : Came(T, A, j)
      BY <2>4 DEF Came
    <3>2. Came(T, A, N + 1)
      BY <2>4 DEF Came
    <3>3. QED
      BY <2>9, <3>1, <3>2
  <2>11. QED
    BY <2>1, <2>4, <2>8, <2>9, <2>10
<1>4. QED
  BY <1>2, <1>3

\* what an allocation makes of an entry
LEMMA AllocatedIs ==
    ASSUME NEW info \in InfoType, NEW o, o.num \in Nat, o.size \in Nat
    PROVE  LET x == Allocated(info, o) IN
           /\ x \in InfoType /\ x.tid = info.tid /\ x.last = o.num
           /\ x.creation = IF info.creation = 0 THEN o.num ELSE info.creation
           /\ x.count = (info.count + 1) % CountRange /\ x.size = ToWord(info.size + o.size)
<1> DEFINE size == ToWord(info.size + o.size)
           x == Allocated(info, o)
<1>1. size \in Nat
  BY WordIsNat DEF InfoType
<1>2. /\ x.tid = info.tid /\ x.last = o.num
      /\ x.creation = IF info.creation = 0 THEN o.num ELSE info.creation
      /\ x.count = (info.count + 1) % CountRange /\ x.size = size
  BY DEF Allocated, InfoType
<1>3. /\ (info.count + 1) % CountRange \in Nat /\ (info.total + 1) % CountRange \in Nat
      /\ (IF size > info.peak THEN size ELSE info.peak) \in Nat
      /\ (IF info.creation = 0 THEN o.num ELSE info.creation) \in Nat
  BY <1>1, WordIsNat DEF InfoType
<1>4. x = [info EXCEPT !.creation = IF @ = 0 THEN o.num ELSE @,
                       !.last = o.num, !.size = size,
                       !.count = (@ + 1) % CountRange, !.total = (@ + 1) % CountRange,
                       !.peak = IF size > @ THEN size ELSE @]
  BY DEF Allocated
<1> HIDE DEF size, x
<1>5. x \in InfoType
  BY <1>1, <1>3, <1>4 DEF InfoType
<1>6. QED
  BY <1>2, <1>5 DEF x, size

\* and what a release does
LEMMA ReleasedIs ==
    ASSUME NEW info \in InfoType, NEW o, o.size \in Nat
    PROVE  LET x == Released(info, o) IN
           /\ x \in InfoType /\ x.tid = info.tid /\ x.last = info.last /\ x.creation = info.creation
           /\ x.count = (info.count - 1) % CountRange /\ x.size = ToWord(info.size - o.size)
<1>1. ToWord(info.size - o.size) \in Nat /\ (info.count - 1) % CountRange \in Nat
  BY WordIsNat DEF InfoType
<1>2. QED
  BY <1>1 DEF Released, InfoType


\* the lists new and ops hold the same operations at S
SameAt(new, ops, S) ==
    \A i \in S : /\ new[i].thread = ops[i].thread /\ new[i].num = ops[i].num
                 /\ new[i].size = ops[i].size

\* A table is exact for either.
LEMMA ExactSame ==
    ASSUME NEW T, NEW ops, NEW new, NEW S, IsFiniteSet(S), SameAt(new, ops, S), Exact(T, ops, S)
    PROVE  Exact(T, new, S)
<1>1. \A e \in 1..Len(T.infos), i \in S : Covers(T.infos[e], new[i]) <=> Covers(T.infos[e], ops[i])
  BY DEF SameAt, Covers
<1>2. ASSUME NEW e \in 1..Len(T.infos) PROVE Counted(T.infos[e], new, S)
  <2> DEFINE x == T.infos[e]
  <2>1. Part(x, new, S) = Part(x, ops, S)
    BY <1>1 DEF Part
  <2>2. \A i \in Part(x, ops, S) : new[i].size = ops[i].size
    BY DEF Part, SameAt
  <2>3. Counted(x, ops, S)
    BY DEF Exact
  <2> HIDE DEF x
  <2>4. Counted(x, new, S)
    BY <2>1, <2>2, <2>3, CountedSame
  <2>5. QED
    BY <2>4 DEF x
<1>3. QED
  BY <1>1, <1>2 DEF Exact

\* An operation that allocates, by a thread whose entries are behind it, is counted
\* for the entry that is alive.
LEMMA AllocKeeps ==
    ASSUME NEW T \in TableType, NEW ops, NEW new, NEW S, NEW n, NEW o,
           Tidy(T), Exact(T, ops, S), Operations(ops, S), SameAt(new, ops, S), n \notin S,
           o.thread \in TidType, o.num \in Nat, o.num >= 1, o.size \in Nat,
           new[n].thread = o.thread, new[n].num = o.num, new[n].size = o.size,
           \A e \in 1..Len(T.infos) : T.infos[e].tid = o.thread => T.infos[e].last < o.num
    PROVE  LET W == AddAlloc(T, o) IN
           /\ W \in TableType /\ Tidy(W) /\ Exact(W, new, S \cup {n})
           /\ Follows(T, W, o.thread, o.num)
<1> DEFINE U == withThreadInfos(T, o.thread, FALSE)
           e == getById(U, U.alive, o.thread)
           info == Allocated(U.infos[e], o)
           W == [U EXCEPT !.infos[e] = info]
           N == Len(U.infos)
<1>1. AddAlloc(T, o) = W
  BY DEF AddAlloc
<1>2. /\ U \in TableType /\ Tidy(U) /\ Exact(U, ops, S)
      /\ e \in U.alive /\ e \in 1..N /\ U.infos[e].tid = o.thread
      /\ \A j \in 1..N : Came(T, U, j)
  BY LookupKeeps
<1> HIDE DEF U, e
<1>3. /\ N \in Nat /\ U.alive \subseteq 1..N
      /\ \A j \in 1..N : /\ U.infos[j] \in InfoType
                         /\ U.infos[j].creation \in Nat /\ U.infos[j].last \in Nat
  BY <1>2, EntryFacts
<1>4. /\ info \in InfoType /\ info.tid = o.thread /\ info.last = o.num
      /\ info.creation = IF U.infos[e].creation = 0 THEN o.num ELSE U.infos[e].creation
      /\ info.count = (U.infos[e].count + 1) % CountRange
      /\ info.size = ToWord(U.infos[e].size + o.size)
  BY <1>2, <1>3, AllocatedIs
<1> HIDE DEF info
<1>5. /\ W \in TableType /\ Len(W.infos) = N /\ W.listed = U.listed /\ W.alive = U.alive
      /\ W.infos[e] = info /\ \A j \in 1..N : j # e => W.infos[j] = U.infos[j]
  BY <1>2, <1>4, PutIs
<1> HIDE DEF W, N
<1>6. U.infos[e].last < o.num
  <2>1. Came(T, U, e)
    BY <1>2
  <2>2. CASE U.infos[e].last = 0
    BY <2>2
  <2>3. CASE \E f \in 1..Len(T.infos) : T.infos[f].tid = o.thread /\ U.infos[e].last = T.infos[f].last
    BY <2>3
  <2>4. QED
    BY <1>2, <2>1, <2>2, <2>3 DEF Came
\* entries of the same identifier, and the start of the entry
<1>7. \A j \in 1..N : U.infos[j].tid = o.thread /\ j # e =>
            /\ j < e /\ U.infos[j].last < U.infos[e].creation /\ U.infos[e].creation # 0
  <2>1. SUFFICES ASSUME NEW j \in 1..N, U.infos[j].tid = o.thread, j # e
                 PROVE  j < e /\ U.infos[j].last < U.infos[e].creation /\ U.infos[e].creation # 0
    OBVIOUS
  <2>2. j <= e
    BY <1>2, <2>1, AliveIsLast DEF N
  <2>3. j < e
    BY <1>2, <1>3, <2>1, <2>2
  <2>4. U.infos[j].last < U.infos[e].creation
    BY <1>2, <2>1, <2>3 DEF Tidy, N
  <2>5. U.infos[j].last \in Nat /\ U.infos[e].creation \in Nat
    BY <1>2, <1>3, <2>1
  <2>6. QED
    BY <2>3, <2>4, <2>5
<1>8. /\ U.infos[e].creation <= U.infos[e].last
      /\ U.infos[e].creation = 0 => U.infos[e].last = 0
      /\ U.infos[e].creation \in Nat /\ U.infos[e].last \in Nat
  BY <1>2, <1>3 DEF Tidy, N
<1>9. info.creation <= info.last /\ info.creation # 0 /\ info.creation \in Nat
  <2>1. CASE U.infos[e].creation = 0
    BY <1>4, <2>1
  <2>2. CASE U.infos[e].creation # 0
    BY <1>4, <1>6, <1>8, <2>2
  <2>3. QED
    BY <2>1, <2>2
<1>10. Tidy(W)
  <2>1. W.listed = 1..N
    BY <1>2, <1>5 DEF Tidy, N
  <2>2. \A j \in 1..N : W.infos[j].tid = U.infos[j].tid
    BY <1>2, <1>4, <1>5
  <2>3. ASSUME NEW j \in 1..N
        PROVE  /\ W.infos[j].creation <= W.infos[j].last
               /\ W.infos[j].creation = 0 => W.infos[j].last = 0
               /\ \E f \in W.alive : W.infos[f].tid = W.infos[j].tid
    <3>1. \E f \in U.alive : U.infos[f].tid = U.infos[j].tid
      BY <1>2 DEF Tidy, N
    <3>2. \E f \in W.alive : W.infos[f].tid = W.infos[j].tid
      BY <1>3, <1>5, <2>2, <3>1
    <3>3. CASE j = e
      BY <1>5, <1>9, <3>2, <3>3
    <3>4. CASE j # e
      <4>1. U.infos[j].creation <= U.infos[j].last /\ (U.infos[j].creation = 0 => U.infos[j].last = 0)
        BY <1>2 DEF Tidy, N
      <4>2. W.infos[j] = U.infos[j]
        BY <1>5, <3>4
      <4>3. QED
        BY <3>2, <4>1, <4>2
    <3>5. QED
      BY <3>3, <3>4
  <2>4. ASSUME NEW j \in 1..N, NEW k \in 1..N, W.infos[j].tid = W.infos[k].tid, j < k
        PROVE  W.infos[j].last < W.infos[k].creation /\ j \notin W.alive
    <3>1. U.infos[j].tid = U.infos[k].tid
      BY <2>2, <2>4
    <3>2. U.infos[j].last < U.infos[k].creation /\ j \notin U.alive
      BY <1>2, <2>4, <3>1 DEF Tidy, N
    <3>3. j # e /\ W.infos[j] = U.infos[j]
      BY <1>2, <1>5, <3>2
    <3>4. CASE k = e
      <4>1. info.creation = U.infos[e].creation
        BY <1>2, <1>4, <1>7, <3>1, <3>3, <3>4
      <4>2. QED
        BY <1>5, <3>2, <3>3, <3>4, <4>1
    <3>5. CASE k # e
      BY <1>5, <3>2, <3>3, <3>5
    <3>6. QED
      BY <3>4, <3>5
  <2>5. QED
    BY <1>5, <2>1, <2>3, <2>4 DEF Tidy
\* which operations the entry stands for
<1>11. \A i \in S : Covers(info, new[i]) <=> Covers(U.infos[e], ops[i])
  <2>1. SUFFICES ASSUME NEW i \in S PROVE Covers(info, new[i]) <=> Covers(U.infos[e], ops[i])
    OBVIOUS
  <2>2. new[i].thread = ops[i].thread /\ new[i].num = ops[i].num /\ ops[i].num \in Nat /\ ops[i].num >= 1
    BY DEF SameAt, Operations
  <2>3. ASSUME Covers(U.infos[e], ops[i]) PROVE Covers(info, new[i])
    <3>1. ops[i].thread = o.thread /\ U.infos[e].creation <= ops[i].num /\ ops[i].num <= U.infos[e].last
      BY <1>2, <2>3 DEF Covers
    <3>2. U.infos[e].creation # 0
      BY <1>8, <2>2, <3>1
    <3>3. info.creation <= new[i].num /\ new[i].num <= info.last
      BY <1>4, <1>6, <1>8, <2>2, <3>1, <3>2
    <3>4. QED
      BY <1>4, <2>2, <3>1, <3>3 DEF Covers
  <2>4. ASSUME Covers(info, new[i]) PROVE Covers(U.infos[e], ops[i])
    <3>1. PICK f \in 1..N : Covers(U.infos[f], ops[i])
      BY <1>2 DEF Exact, N
    <3>2. U.infos[f].tid = o.thread /\ ops[i].num <= U.infos[f].last
      BY <1>4, <2>2, <2>4, <3>1 DEF Covers
    <3>3. CASE f # e
      <4>1. U.infos[f].last < U.infos[e].creation /\ U.infos[e].creation # 0
        BY <1>7, <3>2, <3>3
      <4>2. info.creation = U.infos[e].creation /\ info.creation <= ops[i].num
        BY <1>4, <2>2, <2>4, <4>1 DEF Covers
      <4>3. U.infos[f].last \in Nat /\ U.infos[e].creation \in Nat
        BY <1>3, <1>8
      <4>4. QED
        BY <2>2, <3>2, <4>1, <4>2, <4>3
    <3>4. QED
      BY <3>1, <3>3
  <2>5. QED
    BY <2>3, <2>4
<1>12. Covers(info, new[n])
  BY <1>4, <1>9 DEF Covers
<1>13. \A j \in 1..N : j # e => ~Covers(U.infos[j], new[n])
  <2>1. SUFFICES ASSUME NEW j \in 1..N, j # e, Covers(U.infos[j], new[n]) PROVE FALSE
    OBVIOUS
  <2>2. U.infos[j].tid = o.thread /\ o.num <= U.infos[j].last
    BY <2>1 DEF Covers
  <2>3. U.infos[j].last < U.infos[e].creation
    BY <1>7, <2>1, <2>2
  <2>4. U.infos[j].last \in Nat
    BY <1>3
  <2>5. QED
    BY <1>6, <1>8, <2>2, <2>3, <2>4
<1>14. Exact(W, new, S \cup {n})
  <2>1. \A j \in 1..N, i \in S : Covers(W.infos[j], new[i]) <=> Covers(U.infos[j], ops[i])
    <3>1. SUFFICES ASSUME NEW j \in 1..N, NEW i \in S
                   PROVE  Covers(W.infos[j], new[i]) <=> Covers(U.infos[j], ops[i])
      OBVIOUS
    <3>2. CASE j = e
      BY <1>5, <1>11, <3>2
    <3>3. CASE j # e
      <4>1. W.infos[j] = U.infos[j]
        BY <1>5, <3>3
      <4>2. QED
        BY <4>1 DEF Covers, SameAt
    <3>4. QED
      BY <3>2, <3>3
  <2>2. ASSUME NEW i \in S \cup {n} PROVE \E j \in 1..N : Covers(W.infos[j], new[i])
    <3>1. CASE i = n
      BY <1>2, <1>5, <1>12, <3>1
    <3>2. CASE i \in S
      <4>1. PICK j \in 1..N : Covers(U.infos[j], ops[i])
        BY <1>2, <3>2 DEF Exact, N
      <4>2. QED
        BY <2>1, <3>2, <4>1
    <3>3. QED
      BY <3>1, <3>2
  <2>3. ASSUME NEW j \in 1..N PROVE Counted(W.infos[j], new, S \cup {n})
    <3>1. Counted(U.infos[j], ops, S) /\ IsFiniteSet(S)
      BY <1>2 DEF Exact, N, Operations
    <3>2. /\ n \notin Part(U.infos[j], ops, S)
          /\ \A i \in Part(U.infos[j], ops, S) : new[i].size = ops[i].size /\ ops[i].size \in Nat
      BY DEF Part, SameAt, Operations
    <3>3. CASE j = e
      <4>1. Part(W.infos[j], new, S \cup {n}) = Part(U.infos[j], ops, S) \cup {n}
        BY <1>5, <1>12, <2>1, <3>3 DEF Part
      <4>2. /\ W.infos[j].count = (U.infos[j].count + 1) % CountRange
            /\ W.infos[j].size = ToWord(U.infos[j].size + new[n].size)
        BY <1>4, <1>5, <3>3
      <4> DEFINE x == U.infos[j]
                 y == W.infos[j]
                 R == S \cup {n}
      <4> HIDE DEF x, y, R
      <4>3. Counted(y, new, R)
        <5>1. /\ Counted(x, ops, S) /\ y.count = (x.count + 1) % CountRange
              /\ y.size = ToWord(x.size + new[n].size) /\ Part(y, new, R) = Part(x, ops, S) \cup {n}
              /\ n \notin Part(x, ops, S) /\ new[n].size \in Nat
              /\ \A i \in Part(x, ops, S) : new[i].size = ops[i].size /\ ops[i].size \in Nat
          BY <3>1, <3>2, <4>1, <4>2 DEF x, y, R
        <5>2. QED
          BY <3>1, <5>1, CountedMore
      <4>4. QED
        BY <4>3 DEF y, R
    <3>4. CASE j # e
      <4>1. W.infos[j] = U.infos[j]
        BY <1>5, <3>4
      <4>2. Part(W.infos[j], new, S \cup {n}) = Part(U.infos[j], ops, S)
        BY <1>13, <2>1, <3>4, <4>1 DEF Part
      <4>3. QED
        BY <3>1, <3>2, <4>1, <4>2, CountedSame
    <3>5. QED
      BY <3>3, <3>4
  <2>4. QED
    BY <1>5, <2>2, <2>3 DEF Exact
<1>15. Follows(T, W, o.thread, o.num)
  <2>1. \A j \in 1..N : j # e => Came(T, W, j)
    BY <1>2, <1>5 DEF Came, N
  <2>2. QED
    BY <1>4, <1>5, <2>1 DEF Follows
<1>16. QED
  BY <1>1, <1>5, <1>10, <1>14, <1>15

\* A freed operation leaves the entry that stands for it.
LEMMA FreeKeeps ==
    ASSUME NEW T \in TableType, NEW ops, NEW S, NEW i \in S, Tidy(T), Exact(T, ops, S), Operations(ops, S)
    PROVE  LET W == AddFree(T, ops[i]) IN
           /\ W \in TableType /\ Tidy(W) /\ Exact(W, ops, S \ {i})
           /\ \A j \in 1..Len(W.infos) : Came(T, W, j)
<1> DEFINE o == ops[i]
           N == Len(T.infos)
           known == getThreadInfosForMsgNum(T, o.thread, o.num)
           info == Released(T.infos[known], o)
           W == [T EXCEPT !.infos[known] = info]
<1>1. /\ N \in Nat /\ T.alive \subseteq 1..N /\ T.listed = 1..N
      /\ \A j \in 1..N : T.infos[j] \in InfoType
  BY EntryFacts DEF Tidy
<1>2. o.num \in Nat /\ o.size \in Nat
  BY DEF Operations
<1>3. known \in 1..N /\ Covers(T.infos[known], o)
  <2> DEFINE A == {e \in T.alive : Covers(T.infos[e], o)}
             L == {e \in T.listed : Covers(T.infos[e], o)}
  <2>1. getByIdAndMsgNum(T, T.alive, o.thread, o.num) = FirstOf(A)
    BY DEF getByIdAndMsgNum, Covers
  <2>2. getByIdAndMsgNum(T, T.listed, o.thread, o.num) = FirstOf(L)
    BY DEF getByIdAndMsgNum, Covers
  <2>3. known = IF FirstOf(A) # NULL THEN FirstOf(A) ELSE FirstOf(L)
    BY <2>1, <2>2 DEF getThreadInfosForMsgNum
  <2>4. A \subseteq 1..N /\ L \subseteq 1..N
    BY <1>1
  <2>5. L # {}
    BY <1>1 DEF Exact
  <2>6. \A e \in A \cup L : e \in 1..N /\ Covers(T.infos[e], o)
    BY <2>4
  <2> HIDE DEF A, L, known
  <2>7. /\ FirstOf(A) = NULL <=> A = {}
        /\ A # {} => FirstOf(A) \in A
    BY <1>1, <2>4, FirstOfIsIn
  <2>8. FirstOf(L) \in L
    BY <1>1, <2>4, <2>5, FirstOfIsIn
  <2>9. known \in A \cup L
    BY <2>3, <2>7, <2>8
  <2>10. QED
    BY <2>6, <2>9
<1>4. AddFree(T, o) = W
  <2>1. known # NULL
    BY <1>3, CodeAssumption
  <2>2. QED
    BY <2>1 DEF AddFree
<1> HIDE DEF known
<1>5. /\ info \in InfoType /\ info.tid = T.infos[known].tid
      /\ info.last = T.infos[known].last /\ info.creation = T.infos[known].creation
      /\ info.count = (T.infos[known].count - 1) % CountRange
      /\ info.size = ToWord(T.infos[known].size - o.size)
  BY <1>1, <1>2, <1>3, ReleasedIs
<1> HIDE DEF info
<1>6. /\ W \in TableType /\ Len(W.infos) = N /\ W.listed = T.listed /\ W.alive = T.alive
      /\ W.infos[known] = info /\ \A j \in 1..N : j # known => W.infos[j] = T.infos[j]
  BY <1>3, <1>5, PutIs
<1> HIDE DEF W
<1>7. \A j \in 1..N : /\ W.infos[j].tid = T.infos[j].tid /\ W.infos[j].last = T.infos[j].last
                      /\ W.infos[j].creation = T.infos[j].creation
  BY <1>5, <1>6
<1>8. Tidy(W)
  <2>1. W.listed = 1..N
    BY <1>1, <1>6
  <2>2. \A j \in 1..N : /\ W.infos[j].creation <= W.infos[j].last
                        /\ W.infos[j].creation = 0 => W.infos[j].last = 0
    BY <1>7 DEF Tidy
  <2>3. \A j \in 1..N : \E f \in W.alive : W.infos[f].tid = W.infos[j].tid
    <3>1. \A j \in 1..N : \E f \in T.alive : T.infos[f].tid = T.infos[j].tid
      BY DEF Tidy
    <3>2. QED
      BY <1>1, <1>6, <1>7, <3>1
  <2>4. \A j, k \in 1..N : W.infos[j].tid = W.infos[k].tid /\ j < k =>
              W.infos[j].last < W.infos[k].creation /\ j \notin W.alive
    BY <1>6, <1>7 DEF Tidy
  <2> HIDE DEF N
  <2>5. QED
    BY <1>6, <2>1, <2>2, <2>3, <2>4 DEF Tidy
<1>9. Exact(W, ops, S \ {i})
  <2>1. \A j \in 1..N, k \in S : Covers(W.infos[j], ops[k]) <=> Covers(T.infos[j], ops[k])
    BY <1>7 DEF Covers
  <2>2. ASSUME NEW k \in S \ {i} PROVE \E j \in 1..N : Covers(W.infos[j], ops[k])
    <3>1. PICK j \in 1..N : Covers(T.infos[j], ops[k])
      BY DEF Exact
    <3>2. QED
      BY <2>1, <3>1
  <2>3. ASSUME NEW j \in 1..N PROVE Counted(W.infos[j], ops, S \ {i})
    <3>1. Counted(T.infos[j], ops, S) /\ IsFiniteSet(S)
      BY DEF Exact, Operations
    <3>2. \A k \in Part(T.infos[j], ops, S) : ops[k].size \in Nat
      BY DEF Part, Operations
    <3>3. CASE j = known
      <4>1. Part(W.infos[j], ops, S \ {i}) = Part(T.infos[j], ops, S) \ {i}
        BY <2>1 DEF Part
      <4>2. i \in Part(T.infos[j], ops, S)
        BY <1>3, <3>3 DEF Part
      <4>3. /\ W.infos[j].count = (T.infos[j].count - 1) % CountRange
            /\ W.infos[j].size = ToWord(T.infos[j].size - ops[i].size)
        BY <1>5, <1>6, <3>3
      <4> DEFINE x == T.infos[j]
                 y == W.infos[j]
                 R == S \ {i}
      <4>4. Counted(x, ops, S) /\ IsFiniteSet(S)
        BY <3>1
      <4>5. /\ y.count = (x.count - 1) % CountRange /\ y.size = ToWord(x.size - ops[i].size)
            /\ Part(y, ops, R) = Part(x, ops, S) \ {i} /\ i \in Part(x, ops, S)
            /\ \A k \in Part(x, ops, S) : ops[k].size \in Nat
        BY <3>2, <4>1, <4>2, <4>3
      <4> HIDE DEF x, y, R
      <4>6. Counted(y, ops, R)
        BY <4>4, <4>5, CountedLess
      <4>7. QED
        BY <4>6 DEF y, R
    <3>4. CASE j # known
      <4>1. ~Covers(T.infos[j], o)
        BY <1>2, <1>3, <3>4, OneCovers
      <4>2. Part(W.infos[j], ops, S \ {i}) = Part(T.infos[j], ops, S)
        BY <2>1, <4>1 DEF Part
      <4>3. W.infos[j] = T.infos[j]
        BY <1>6, <3>4
      <4>4. QED
        BY <3>1, <4>2, <4>3, CountedSame
    <3>5. QED
      BY <3>3, <3>4
  <2>4. QED
    BY <1>6, <2>2, <2>3 DEF Exact
<1>10. \A j \in 1..N : Came(T, W, j)
  BY <1>7 DEF Came
<1>11. QED
  BY <1>4, <1>6, <1>8, <1>9, <1>10

\* what a new thread makes of a table
Created(T, tid, num) ==
    LET U == withThreadInfos(T, tid, TRUE)
        e == getById(U, U.alive, tid)
    IN  [U EXCEPT !.infos[e].creation = num, !.infos[e].last = num]

Named(T, tid) ==
    LET U == withThreadInfos(T, tid, FALSE)
        e == getById(U, U.alive, tid)
    IN  [U EXCEPT !.infos[e].name = "set"]

\* A new thread whose identifier is behind it gets an entry of its own.
LEMMA CreateKeeps ==
    ASSUME NEW T \in TableType, NEW ops, NEW S, Tidy(T), Exact(T, ops, S),
           NEW tid \in TidType, NEW num \in Nat, num >= 1,
           \A e \in 1..Len(T.infos) : T.infos[e].tid = tid => T.infos[e].last < num,
           \A i \in S : ops[i].thread = tid => ops[i].num < num /\ ops[i].num \in Nat
    PROVE  LET W == Created(T, tid, num) IN
           /\ W \in TableType /\ Tidy(W) /\ Exact(W, ops, S)
           /\ Follows(T, W, tid, num)
<1> DEFINE known == getById(T, T.alive, tid)
           R == IF known = NULL THEN T ELSE Retire(T, tid)
           U == AddEntry(R, tid)
           N == Len(T.infos)
           e == getById(U, U.alive, tid)
           info == [U.infos[e] EXCEPT !.creation = num, !.last = num]
           W == [U EXCEPT !.infos[e] = info]
<1>1. N \in Nat /\ T.alive \subseteq 1..N
  BY EntryFacts
<1>2. withThreadInfos(T, tid, TRUE) = U
  BY DEF withThreadInfos
<1>3. /\ R \in TableType /\ Len(R.infos) = N
      /\ \A j \in 1..N : Agree(R.infos[j], T.infos[j])
      /\ R.listed = T.listed /\ R.alive = {f \in T.alive : T.infos[f].tid # tid}
  <2>1. CASE known = NULL
    <3>1. \A f \in T.alive : T.infos[f].tid # tid
      BY <1>1, <2>1, GetByIdIsIn
    <3>2. QED
      BY <2>1, <3>1 DEF Agree
  <2>2. CASE known # NULL
    BY <2>2, RetireIs
  <2>3. QED
    BY <2>1, <2>2
<1> HIDE DEF R
<1>4. \A f \in R.alive : R.infos[f].tid # tid
  <2>1. \A f \in R.alive : f \in 1..N /\ T.infos[f].tid # tid
    BY <1>1, <1>3
  <2>2. QED
    BY <1>3, <2>1 DEF Agree
<1>5. /\ U \in TableType /\ Len(U.infos) = N + 1
      /\ \A j \in 1..N : U.infos[j] = R.infos[j]
      /\ U.infos[N + 1].tid = tid
      /\ U.infos[N + 1].count = 0 /\ U.infos[N + 1].size = 0
      /\ U.listed = R.listed \cup {N + 1} /\ U.alive = R.alive \cup {N + 1}
      /\ e = N + 1
  <2> HIDE DEF N
  <2>1. /\ U \in TableType /\ Len(U.infos) = Len(R.infos) + 1
        /\ \A j \in 1..Len(R.infos) : U.infos[j] = R.infos[j]
        /\ U.infos[Len(R.infos) + 1].tid = tid
        /\ U.infos[Len(R.infos) + 1].count = 0 /\ U.infos[Len(R.infos) + 1].size = 0
        /\ U.listed = R.listed \cup {Len(R.infos) + 1} /\ U.alive = R.alive \cup {Len(R.infos) + 1}
        /\ e = Len(R.infos) + 1
    BY <1>3, <1>4, AddEntryIs
  <2> HIDE DEF U, e
  <2>2. QED
    BY <1>3, <2>1
<1> HIDE DEF U, e
<1>6. e \in 1..Len(U.infos) /\ U.infos[e] \in InfoType
  <2>1. e \in 1..Len(U.infos)
    BY <1>1, <1>5
  <2>2. QED
    BY <1>5, <2>1, EntryFacts
<1>7. Created(T, tid, num) = W
  <2>1. U \in [infos : Seq(InfoType), listed : SUBSET Nat, alive : SUBSET Nat]
    BY <1>5 DEF TableType
  <2>2. Created(T, tid, num) = [U EXCEPT !.infos[e].creation = num, !.infos[e].last = num]
    BY <1>2 DEF Created, e
  <2>3. [U EXCEPT !.infos[e].creation = num, !.infos[e].last = num] = [U EXCEPT !.infos[e] = info]
    BY <1>6, <2>1 DEF InfoType
  <2>4. QED
    BY <2>2, <2>3
<1>8. /\ info \in InfoType /\ info.tid = tid /\ info.creation = num /\ info.last = num
      /\ info.count = 0 /\ info.size = 0
  BY <1>5, <1>6 DEF InfoType
<1> HIDE DEF info
<1>9. /\ W \in TableType /\ Len(W.infos) = N + 1 /\ W.listed = U.listed /\ W.alive = U.alive
      /\ W.infos[N + 1] = info /\ \A j \in 1..(N + 1) : j # N + 1 => W.infos[j] = U.infos[j]
  BY <1>5, <1>6, <1>8, PutIs
<1> HIDE DEF W
<1>10. 1..(N + 1) = 1..N \cup {N + 1} /\ N + 1 \notin 1..N
  BY <1>1
<1>11. \A j \in 1..N : Agree(W.infos[j], T.infos[j])
  BY <1>3, <1>5, <1>9, <1>10
<1>12. Tidy(W) /\ Exact(W, ops, S)
  <2> DEFINE new == W.infos[N + 1]
  <2>1. /\ new.tid = tid /\ new.creation = num /\ new.last = num
        /\ new.count = 0 /\ new.size = 0
    BY <1>8, <1>9
  <2> HIDE DEF new
  <2>2. \A i \in S : ~Covers(new, ops[i])
    <3>1. SUFFICES ASSUME NEW i \in S, Covers(new, ops[i]) PROVE FALSE
      OBVIOUS
    <3>2. ops[i].thread = tid /\ num <= ops[i].num
      BY <2>1, <3>1 DEF Covers
    <3>3. ops[i].num < num /\ ops[i].num \in Nat
      BY <3>2
    <3>4. QED
      BY <3>2, <3>3
  <2>3. W.listed = T.listed \cup {N + 1}
    BY <1>3, <1>5, <1>9
  <2>4. W.alive = {f \in T.alive : T.infos[f].tid # new.tid} \cup {N + 1}
    BY <1>3, <1>5, <1>9, <2>1
  <2>5. \A j \in 1..N : T.infos[j].tid = new.tid => T.infos[j].last < new.creation
    BY <2>1
  <2>6. new.creation <= new.last /\ (new.creation = 0 => new.last = 0)
    BY <2>1
  <2>7. Len(W.infos) = N + 1 /\ W \in TableType
    BY <1>9
  <2>8. QED
    BY <1>11, <2>1, <2>2, <2>3, <2>4, <2>5, <2>6, <2>7, NewEntryKeeps DEF new
<1>13. Follows(T, W, tid, num)
  <2>1. \A j \in 1..N : Came(T, W, j)
    BY <1>11 DEF Came, Agree
  <2>2. QED
    BY <1>8, <1>9, <1>10, <2>1 DEF Follows
<1>14. QED
  BY <1>7, <1>9, <1>12, <1>13

\* Naming a thread keeps the table.
LEMMA NameKeeps ==
    ASSUME NEW T \in TableType, NEW ops, NEW S, Tidy(T), Exact(T, ops, S), Operations(ops, S),
           NEW tid \in TidType
    PROVE  LET W == Named(T, tid) IN
           /\ W \in TableType /\ Tidy(W) /\ Exact(W, ops, S)
           /\ \A j \in 1..Len(W.infos) : Came(T, W, j)
<1> DEFINE U == withThreadInfos(T, tid, FALSE)
           e == getById(U, U.alive, tid)
           info == [U.infos[e] EXCEPT !.name = "set"]
           W == [U EXCEPT !.infos[e] = info]
           N == Len(U.infos)
<1>1. Named(T, tid) = W
  BY DEF Named
<1>2. /\ U \in TableType /\ Tidy(U) /\ Exact(U, ops, S) /\ e \in 1..N
      /\ \A j \in 1..N : Came(T, U, j)
  BY LookupKeeps
<1> HIDE DEF U, e
<1>3. U.infos[e] \in InfoType /\ U.alive \subseteq 1..N /\ N \in Nat
  BY <1>2, EntryFacts
<1>4. info \in InfoType /\ Agree(info, U.infos[e])
  BY <1>3 DEF InfoType, ThreadName, Agree
<1> HIDE DEF info
<1>5. /\ W \in TableType /\ Len(W.infos) = N /\ W.listed = U.listed /\ W.alive = U.alive
      /\ W.infos[e] = info /\ \A j \in 1..N : j # e => W.infos[j] = U.infos[j]
  BY <1>2, <1>4, PutIs
<1> HIDE DEF W, N
<1>6. \A j \in 1..N : Agree(W.infos[j], U.infos[j])
  BY <1>4, <1>5 DEF Agree
<1>7. \A j \in 1..N : /\ W.infos[j].tid = U.infos[j].tid /\ W.infos[j].last = U.infos[j].last
                      /\ W.infos[j].creation = U.infos[j].creation
  BY <1>6 DEF Agree
<1>8. Tidy(W)
  <2>1. W.listed = 1..N
    BY <1>2, <1>5 DEF Tidy, N
  <2>2. \A j \in 1..N : /\ W.infos[j].creation <= W.infos[j].last
                        /\ W.infos[j].creation = 0 => W.infos[j].last = 0
    BY <1>2, <1>7 DEF Tidy, N
  <2>3. \A j \in 1..N : \E f \in W.alive : W.infos[f].tid = W.infos[j].tid
    <3>1. \A j \in 1..N : \E f \in U.alive : U.infos[f].tid = U.infos[j].tid
      BY <1>2 DEF Tidy, N
    <3>2. QED
      BY SMTT(30), <1>3, <1>5, <1>7, <3>1
  <2>4. \A j, k \in 1..N : W.infos[j].tid = W.infos[k].tid /\ j < k =>
              W.infos[j].last < W.infos[k].creation /\ j \notin W.alive
    BY <1>2, <1>5, <1>7 DEF Tidy, N
  <2>5. QED
    BY <1>5, <2>1, <2>2, <2>3, <2>4 DEF Tidy
<1>9. Exact(W, ops, S)
  <2>1. \A j \in 1..N, k \in S : Covers(W.infos[j], ops[k]) <=> Covers(U.infos[j], ops[k])
    BY <1>7 DEF Covers
  <2>2. ASSUME NEW k \in S PROVE \E j \in 1..N : Covers(W.infos[j], ops[k])
    <3>1. PICK j \in 1..N : Covers(U.infos[j], ops[k])
      BY <1>2 DEF Exact, N
    <3>2. QED
      BY <2>1, <3>1
  <2>3. ASSUME NEW j \in 1..N PROVE Counted(W.infos[j], ops, S)
    <3>1. Counted(U.infos[j], ops, S) /\ Agree(U.infos[j], W.infos[j])
      BY <1>2, <1>6 DEF Exact, N, Agree
    <3>2. QED
      BY <3>1, AgreeCounts DEF Agree
  <2>4. QED
    BY <1>5, <2>2, <2>3 DEF Exact
<1>10. \A j \in 1..N : Came(T, W, j)
  BY <1>2, <1>7 DEF Came, N
<1>11. QED
  BY <1>1, <1>5, <1>8, <1>9, <1>10

-----------------------------------------------------------------------------
(* The library keeps the order of reports *)

\* What is appended to the stream comes after what was there.
LEMMA UpToAppended ==
    ASSUME NEW ops, NEW infos, NEW str, NEW new, NEW t, NEW n, NEW x,
           \A j \in 1..n : new[j] = str[j], UpTo(ops, infos, str, t, n, x)
    PROVE  UpTo(ops, infos, new, t, n, x)
BY DEF UpTo

\* One message more.
LEMMA UpToNext ==
    ASSUME NEW ops, NEW infos, NEW str, NEW t, NEW n \in Nat, NEW x,
           UpTo(ops, infos, str, t, n, x), Concerns(str[n + 1], t) => str[n + 1].num <= x
    PROVE  UpTo(ops, infos, str, t, n + 1, x)
<1>1. 1..(n + 1) = 1..n \cup {n + 1}
  OBVIOUS
<1>2. \A j \in 1..(n + 1) : Concerns(str[j], t) => str[j].num <= x
  BY <1>1 DEF UpTo
<1>3. QED
  BY <1>2 DEF UpTo

\* A larger number is a bound, too.
LEMMA ReportedLarger ==
    ASSUME TypeInv, NEW t, NEW n \in 0..Len(stream), NEW x \in Int, NEW y \in Int, x <= y, Reported(t, n, x)
    PROVE  Reported(t, n, y)
<1>1. \A k \in 1..Len(m_listMemoryOperation) : m_listMemoryOperation[k].num \in Int
  <2>1. \A k \in 1..Len(m_listMemoryOperation) : m_listMemoryOperation[k] \in OpType
    BY ElementOfSeq DEF TypeInv, ListType
  <2>2. QED
    BY <2>1 DEF OpType
<1>2. \A e \in 1..Len(threadInfos) : threadInfos[e].last \in Int
  <2>1. \A e \in 1..Len(Table.infos) : Table.infos[e].last \in Nat
    BY EntryFacts DEF TypeInv
  <2>2. QED
    BY <2>1 DEF Table
<1>3. \A j \in 1..n : stream[j].num \in Int
  <2>1. Len(stream) \in Nat /\ \A j \in 1..Len(stream) : stream[j] \in MsgType
    BY ElementOfSeq, LenProperties DEF TypeInv, LibType
  <2>2. \A j \in 1..n : j \in 1..Len(stream)
    BY <2>1
  <2>3. QED
    BY <2>1, <2>2 DEF MsgType, MsgRecord
<1>4. \A z \in Int : z <= x => z <= y
  OBVIOUS
<1>5. QED
  BY <1>1, <1>2, <1>3, <1>4 DEF Reported, UpTo

\* At most one thread has something to report about an identifier.
LEMMA OneReporter ==
    ASSUME StartersInv, NEW t, NEW u \in Thread, NEW v \in Thread, pc[u] # "idle", pc[v] # "idle",
           Concerns(msg[u], t), Concerns(msg[v], t)
    PROVE  u = v
<1>1. Proper(running, u, pc[u], msg[u]) /\ Proper(running, v, pc[v], msg[v])
  BY DEF StartersInv
<1>2. msg[u].thread = u /\ msg[v].thread = v /\ u \in running /\ v \in running
  BY <1>1 DEF Proper
<1>3. Starts(msg[u]) => msg[u].tid \notin running
  BY <1>1 DEF Proper
<1>4. Starts(msg[v]) => msg[v].tid \notin running
  BY <1>1 DEF Proper
<1>5. CASE Starts(msg[u]) /\ msg[u].tid = t
  <2>1. Starts(msg[v]) /\ msg[v].tid = t
    BY <1>2, <1>3, <1>5 DEF Concerns
  <2>2. QED
    BY <1>5, <2>1 DEF StartersInv
<1>6. CASE msg[u].thread = t
  BY <1>2, <1>4, <1>6 DEF Concerns
<1>7. QED
  BY <1>5, <1>6 DEF Concerns

\* t goes on, and may let others run
LEMMA StartersStep ==
    ASSUME LibType, StartersInv, NEW t \in Thread, NEW step, NEW m, Goto(t, step, m),
           running \subseteq running',
           \A u \in Thread \ {t} : pc[u] # "idle" /\ Starts(msg[u]) => msg[u].tid \notin running',
           step # "idle" => /\ Proper(running, t, step, m) /\ running' = running
                            /\ \A u \in Thread \ {t} : pc[u] # "idle" /\ Starts(msg[u]) /\ Starts(m)
                                                        => msg[u].tid # m.tid
    PROVE  StartersInv'
<1>1. /\ pc'[t] = step /\ msg'[t] = m
      /\ \A u \in Thread \ {t} : pc'[u] = pc[u] /\ msg'[u] = msg[u]
  BY GotoFacts
<1>2. ASSUME NEW u \in Thread, pc'[u] # "idle"
      PROVE  Proper(running', u, pc'[u], msg'[u])
  <2>1. CASE u = t
    <3>1. Proper(running, t, step, m) /\ running' = running
      BY <1>1, <1>2, <2>1
    <3>2. QED
      BY <1>1, <2>1, <3>1 DEF Proper
  <2>2. CASE u # t
    <3>1. Proper(running, u, pc[u], msg[u]) /\ pc'[u] = pc[u] /\ msg'[u] = msg[u] /\ pc[u] # "idle"
      BY <1>1, <1>2, <2>2 DEF StartersInv
    <3>2. Starts(msg[u]) => msg[u].tid \notin running'
      BY <2>2, <3>1
    <3>3. QED
      BY <3>1, <3>2 DEF Proper
  <2>3. QED
    BY <2>1, <2>2
<1>3. ASSUME NEW u \in Thread, NEW v \in Thread, pc'[u] # "idle", pc'[v] # "idle",
             Starts(msg'[u]), Starts(msg'[v]), msg'[u].tid = msg'[v].tid
      PROVE  u = v
  <2>1. CASE u # t /\ v # t
    BY <1>1, <1>3, <2>1 DEF StartersInv
  <2>2. CASE u = t /\ v # t
    BY <1>1, <1>3, <2>2
  <2>3. CASE u # t /\ v = t
    BY <1>1, <1>3, <2>3
  <2>4. QED
    BY <2>1, <2>2, <2>3
<1>4. QED
  BY <1>2, <1>3 DEF StartersInv

\* Steps that send nothing, stamp nothing and start to build at most one message.
LEMMA SilentReports ==
    ASSUME LibType, ReportsInv, NEW t \in Thread, NEW step, NEW m, Goto(t, step, m), StartersInv',
           step \notin {"send", "send_bt"},
           UNCHANGED <<stream, g_iMsgNum, m_listMemoryOperation, threadInfos>>
    PROVE  ReportsInv'
<1>1. /\ pc'[t] = step /\ msg'[t] = m
      /\ \A u \in Thread \ {t} : pc'[u] = pc[u] /\ msg'[u] = msg[u]
  BY GotoFacts
<1>2. stream' = stream /\ g_iMsgNum' = g_iMsgNum /\ m_listMemoryOperation' = m_listMemoryOperation /\ threadInfos' = threadInfos
  OBVIOUS
<1>3. \A u \in Thread : pc'[u] \in {"send", "send_bt"} => pc'[u] = pc[u] /\ msg'[u] = msg[u]
  BY <1>1
<1>4. NumbersInv'
  <2>1. \A u \in TidType : Reported(u, Len(stream), g_iMsgNum)'
    BY <1>2 DEF ReportsInv, NumbersInv, Reported
  <2>2. \A u \in Thread : pc'[u] \in {"send", "send_bt"} => msg'[u].num \in 1..g_iMsgNum'
    BY <1>2, <1>3 DEF ReportsInv, NumbersInv
  <2>3. /\ \A i \in 1..Len(stream') : stream'[i].num >= 1
        /\ \A k \in 1..Len(m_listMemoryOperation') : m_listMemoryOperation'[k].num >= 1
    BY <1>2 DEF ReportsInv, NumbersInv, op
  <2>4. QED
    BY <2>1, <2>2, <2>3 DEF NumbersInv, op
<1>5. OpeningInv'
  BY <1>2 DEF ReportsInv, OpeningInv
<1>6. OrderInv'
  <2>1. ASSUME NEW u \in TidType, NEW j \in 1..Len(stream'), Concerns(stream'[j], u)
        PROVE  UpTo(m_listMemoryOperation', threadInfos', stream', u, j - 1, stream'[j].num - 1)
    BY <1>2, <2>1 DEF ReportsInv, OrderInv, Reported
  <2>2. ASSUME NEW u \in TidType, NEW v \in Thread, pc'[v] = "send", Concerns(msg'[v], u)
        PROVE  UpTo(m_listMemoryOperation', threadInfos', stream', u, Len(stream'), msg'[v].num - 1)
    <3>1. pc[v] = "send" /\ msg'[v] = msg[v]
      BY <1>3, <2>2
    <3>2. QED
      BY <1>2, <2>2, <3>1 DEF ReportsInv, OrderInv, Reported
  <2>3. QED
    BY <2>1, <2>2 DEF OrderInv, Reported
<1>7. QED
  BY <1>4, <1>5, <1>6 DEF ReportsInv

\* Steps that send a message, the one that was stamped or a backtrace.
LEMMA SendReports ==
    ASSUME TypeInv, ReportsInv, NEW t \in Thread, NEW step, NEW m, Goto(t, step, m), StartersInv',
           NEW k \in MsgType, stream' = Append(stream, k), k.code # "init",
           pc[t] \in {"send", "send_bt"}, k.num = msg[t].num,
           (k = msg[t] /\ pc[t] = "send") \/ (\A x : ~Concerns(k, x) /\ ~Starts(k)),
           step \notin {"send", "send_bt"}, step # "idle" => ~Starts(m),
           UNCHANGED <<g_iMsgNum, m_listMemoryOperation, threadInfos>>
    PROVE  ReportsInv'
<1> DEFINE N == Len(stream)
<1>1. /\ pc'[t] = step /\ msg'[t] = m
      /\ \A u \in Thread \ {t} : pc'[u] = pc[u] /\ msg'[u] = msg[u]
  BY GotoFacts DEF TypeInv
<1>2. g_iMsgNum' = g_iMsgNum /\ m_listMemoryOperation' = m_listMemoryOperation /\ threadInfos' = threadInfos
  OBVIOUS
<1>3. \A u \in Thread : pc'[u] \in {"send", "send_bt"} => u # t /\ pc'[u] = pc[u] /\ msg'[u] = msg[u]
  BY <1>1
<1>4. /\ N \in Nat /\ Len(stream') = N + 1 /\ stream'[N + 1] = k
      /\ \A j \in 1..N : stream'[j] = stream[j]
  BY LenProperties, AppendProperties DEF TypeInv, LibType
<1> HIDE DEF N
<1>5. 1..(N + 1) = 1..N \cup {N + 1} /\ N + 1 \notin 1..N
  BY <1>4
<1>6. k.num \in 1..g_iMsgNum
  BY DEF ReportsInv, NumbersInv
\* what was reported stays so
<1>7. ASSUME NEW u, NEW n \in 0..N, NEW x, Reported(u, n, x)
      PROVE  UpTo(m_listMemoryOperation', threadInfos', stream', u, n, x)
  <2>1. \A j \in 1..n : stream'[j] = stream[j]
    BY <1>4
  <2>2. UpTo(m_listMemoryOperation, threadInfos, stream, u, n, x)
    BY <1>7 DEF Reported
  <2>3. UpTo(m_listMemoryOperation, threadInfos, stream', u, n, x)
    BY <2>1, <2>2, UpToAppended
  <2>4. QED
    BY <1>2, <2>3
<1>8. ASSUME NEW u, NEW x, Reported(u, N, x), Concerns(k, u) => k.num <= x
      PROVE  UpTo(m_listMemoryOperation', threadInfos', stream', u, N + 1, x)
  <2>1. UpTo(m_listMemoryOperation', threadInfos', stream', u, N, x)
    <3>1. N \in 0..N
      BY <1>4
    <3>2. QED
      BY <1>7, <1>8, <3>1
  <2>2. Concerns(stream'[N + 1], u) => stream'[N + 1].num <= x
    BY <1>4, <1>8
  <2>3. QED
    BY <1>4, <2>1, <2>2, UpToNext
<1>9. NumbersInv'
  <2>1. ASSUME NEW u \in TidType
        PROVE  UpTo(m_listMemoryOperation', threadInfos', stream', u, N + 1, g_iMsgNum)
    <3>1. Reported(u, N, g_iMsgNum)
      BY DEF ReportsInv, NumbersInv, N
    <3>2. k.num <= g_iMsgNum
      BY <1>6
    <3>3. QED
      BY <1>8, <3>1, <3>2
  <2>2. \A u \in Thread : pc'[u] \in {"send", "send_bt"} => msg'[u].num \in 1..g_iMsgNum'
    BY <1>2, <1>3 DEF ReportsInv, NumbersInv
  <2>3. \A i \in 1..Len(stream') : stream'[i].num >= 1
    <3>1. \A i \in 1..N : stream'[i].num >= 1
      BY <1>4 DEF ReportsInv, NumbersInv, N
    <3>2. stream'[N + 1].num >= 1
      BY <1>4, <1>6
    <3>3. QED
      BY <1>4, <1>5, <3>1, <3>2
  <2>4. \A i \in 1..Len(m_listMemoryOperation') : m_listMemoryOperation'[i].num >= 1
    BY <1>2 DEF ReportsInv, NumbersInv, op
  <2>5. QED
    BY <1>2, <1>4, <2>1, <2>2, <2>3, <2>4 DEF NumbersInv, Reported, op
<1>10. OpeningInv'
  <2>1. ASSUME NEW i \in 1..Len(stream'), stream'[i].code = "init"
        PROVE  i = 1 /\ threadInfos' = <<>>
    <3>1. i \in 1..N
      BY <1>4, <1>5, <2>1
    <3>2. QED
      BY <1>2, <1>4, <2>1, <3>1 DEF ReportsInv, OpeningInv, N
  <2>2. QED
    BY <2>1 DEF OpeningInv
<1>11. OrderInv'
  <2>1. ASSUME NEW u \in TidType, NEW j \in 1..Len(stream'), Concerns(stream'[j], u)
        PROVE  UpTo(m_listMemoryOperation', threadInfos', stream', u, j - 1, stream'[j].num - 1)
    <3>1. CASE j \in 1..N
      <4>1. Reported(u, j - 1, stream[j].num - 1) /\ stream'[j] = stream[j]
        BY <1>4, <2>1, <3>1 DEF ReportsInv, OrderInv, N
      <4>2. j - 1 \in 0..N
        BY <1>4, <3>1
      <4>3. QED
        BY <1>7, <4>1, <4>2
    <3>2. CASE j = N + 1
      <4>1. Concerns(k, u)
        BY <1>4, <2>1, <3>2
      <4>2. k = msg[t] /\ pc[t] = "send"
        BY <4>1
      <4>3. Reported(u, N, k.num - 1)
        BY <4>1, <4>2 DEF ReportsInv, OrderInv, N
      <4>4. N \in 0..N /\ j - 1 = N
        BY <1>4, <3>2
      <4>5. UpTo(m_listMemoryOperation', threadInfos', stream', u, N, k.num - 1)
        BY <1>7, <4>3, <4>4
      <4>6. QED
        BY <1>4, <3>2, <4>4, <4>5
    <3>3. QED
      BY <1>4, <1>5, <3>1, <3>2
  <2>2. ASSUME NEW u \in TidType, NEW v \in Thread, pc'[v] = "send", Concerns(msg'[v], u)
        PROVE  UpTo(m_listMemoryOperation', threadInfos', stream', u, N + 1, msg'[v].num - 1)
    <3>1. v # t /\ pc[v] = "send" /\ msg'[v] = msg[v]
      BY <1>3, <2>2
    <3>2. Reported(u, N, msg[v].num - 1)
      BY <2>2, <3>1 DEF ReportsInv, OrderInv, N
    <3>3. ~Concerns(k, u)
      <4>1. SUFFICES ASSUME Concerns(k, u) PROVE FALSE
        OBVIOUS
      <4>2. k = msg[t] /\ pc[t] = "send"
        BY <4>1
      <4>3. u = u /\ Concerns(msg[t], u) /\ Concerns(msg[v], u) /\ pc[t] # "idle" /\ pc[v] # "idle"
        BY <2>2, <3>1, <4>1, <4>2
      <4>4. StartersInv
        BY DEF ReportsInv
      <4>5. t = v
        BY <4>3, <4>4, OneReporter
      <4>6. QED
        BY <3>1, <4>5
    <3>4. QED
      BY <1>8, <3>1, <3>2, <3>3
  <2>3. QED
    BY <1>4, <2>1, <2>2 DEF OrderInv, Reported
<1>12. QED
  BY <1>9, <1>10, <1>11 DEF ReportsInv

\* A message gets its time and number.
LEMMA StampReports ==
    ASSUME TypeInv, ReportsInv, NEW t \in Thread, Stamp(t), UNCHANGED <<m_listMemoryOperation, threadInfos>>
    PROVE  ReportsInv'
<1> DEFINE m == [msg[t] EXCEPT !.num = g_iMsgNum + 1, !.time = now]
           step == IF pc[t] = "stamp" THEN "send" ELSE "send_bt"
           N == Len(stream)
<1>1. /\ pc[t] \in {"stamp", "stamp_bt"} /\ g_iMsgNum' = g_iMsgNum + 1 /\ Goto(t, step, m)
      /\ running' = running /\ stream' = stream
      /\ m_listMemoryOperation' = m_listMemoryOperation /\ threadInfos' = threadInfos
  BY DEF Stamp
<1>2. LibType /\ g_iMsgNum \in Nat /\ N \in Nat
  BY LenProperties DEF TypeInv, LibType
<1>3. /\ m.code = msg[t].code /\ m.thread = msg[t].thread /\ m.tid = msg[t].tid /\ m.born = msg[t].born
      /\ m.num = g_iMsgNum + 1
  <2>1. msg[t] \in MsgRecord
    BY <1>2, ThreadMsgType DEF MsgType
  <2>2. QED
    BY <2>1 DEF MsgRecord
<1> HIDE DEF m
<1>4. (Starts(m) <=> Starts(msg[t])) /\ \A x : Concerns(m, x) <=> Concerns(msg[t], x)
  BY <1>3 DEF Starts, Concerns
<1>5. pc[t] # "idle" /\ Proper(running, t, pc[t], msg[t])
  BY <1>1 DEF ReportsInv, StartersInv
<1>6. step \in {"send", "send_bt"} /\ (Starts(m) => step = "send" /\ pc[t] = "stamp")
  <2>1. Starts(m) => pc[t] \in {"stamp", "send"}
    BY <1>4, <1>5 DEF Proper
  <2>2. QED
    BY <1>1, <2>1
<1> HIDE DEF step
<1>7. StartersInv'
  <2>1. Proper(running, t, step, m)
    BY <1>3, <1>4, <1>5, <1>6 DEF Proper
  <2>2. \A u \in Thread \ {t} : pc[u] # "idle" /\ Starts(msg[u]) /\ Starts(m) => msg[u].tid # m.tid
    BY <1>3, <1>4, <1>5 DEF ReportsInv, StartersInv
  <2>3. \A u \in Thread \ {t} : pc[u] # "idle" /\ Starts(msg[u]) => msg[u].tid \notin running'
    BY <1>1 DEF ReportsInv, StartersInv, Proper
  <2>4. running \subseteq running' /\ StartersInv /\ Goto(t, step, m)
    BY <1>1 DEF ReportsInv
  <2>5. QED
    BY <1>1, <1>2, <2>1, <2>2, <2>3, <2>4, StartersStep
<1>8. /\ pc'[t] = step /\ msg'[t] = m
      /\ \A u \in Thread \ {t} : pc'[u] = pc[u] /\ msg'[u] = msg[u]
  <2>1. Goto(t, step, m)
    BY <1>1
  <2>2. QED
    BY <1>2, <2>1, GotoFacts
<1> HIDE DEF N
<1>9. \A u \in TidType : Reported(u, N, g_iMsgNum) /\ Reported(u, N, g_iMsgNum + 1)
  <2>1. SUFFICES ASSUME NEW u \in TidType PROVE Reported(u, N, g_iMsgNum) /\ Reported(u, N, g_iMsgNum + 1)
    OBVIOUS
  <2>2. Reported(u, N, g_iMsgNum)
    BY DEF ReportsInv, NumbersInv, N
  <2>3. /\ N \in 0..Len(stream) /\ g_iMsgNum \in Int /\ g_iMsgNum + 1 \in Int
        /\ g_iMsgNum <= g_iMsgNum + 1
    BY <1>2 DEF N
  <2>4. QED
    BY <2>2, <2>3, ReportedLarger
<1>10. NumbersInv'
  <2>1. ASSUME NEW u \in TidType
        PROVE  UpTo(m_listMemoryOperation', threadInfos', stream', u, Len(stream'), g_iMsgNum')
    BY <1>1, <1>9 DEF Reported, N
  <2>2. ASSUME NEW u \in Thread, pc'[u] \in {"send", "send_bt"}
        PROVE  msg'[u].num \in 1..g_iMsgNum'
    <3>1. CASE u = t
      BY <1>1, <1>2, <1>3, <1>8, <3>1
    <3>2. CASE u # t
      <4>1. msg[u].num \in 1..g_iMsgNum /\ msg'[u] = msg[u]
        BY <1>8, <2>2, <3>2 DEF ReportsInv, NumbersInv
      <4>2. QED
        BY <1>1, <1>2, <4>1
    <3>3. QED
      BY <3>1, <3>2
  <2>3. /\ \A i \in 1..Len(stream') : stream'[i].num >= 1
        /\ \A i \in 1..Len(m_listMemoryOperation') : m_listMemoryOperation'[i].num >= 1
    BY <1>1 DEF ReportsInv, NumbersInv, op
  <2>4. QED
    BY <2>1, <2>2, <2>3 DEF NumbersInv, Reported, op
<1>11. OpeningInv'
  BY <1>1 DEF ReportsInv, OpeningInv
<1>12. OrderInv'
  <2>1. ASSUME NEW u \in TidType, NEW j \in 1..Len(stream'), Concerns(stream'[j], u)
        PROVE  UpTo(m_listMemoryOperation', threadInfos', stream', u, j - 1, stream'[j].num - 1)
    BY <1>1, <2>1 DEF ReportsInv, OrderInv, Reported
  <2>2. ASSUME NEW u \in TidType, NEW v \in Thread, pc'[v] = "send", Concerns(msg'[v], u)
        PROVE  UpTo(m_listMemoryOperation', threadInfos', stream', u, Len(stream'), msg'[v].num - 1)
    <3>1. CASE v = t
      <4>1. msg'[v].num - 1 = g_iMsgNum
        BY <1>2, <1>3, <1>8, <3>1
      <4>2. QED
        BY <1>1, <1>9, <4>1 DEF Reported, N
    <3>2. CASE v # t
      <4>1. pc[v] = "send" /\ msg'[v] = msg[v]
        BY <1>8, <2>2, <3>2
      <4>2. QED
        BY <1>1, <2>2, <4>1 DEF ReportsInv, OrderInv, Reported
    <3>3. QED
      BY <3>1, <3>2
  <2>3. QED
    BY <2>1, <2>2 DEF OrderInv, Reported
<1>13. QED
  BY <1>7, <1>10, <1>11, <1>12 DEF ReportsInv

\* Nothing is built, stamped or sent.
LEMMA StillReports ==
    ASSUME ReportsInv, StartersInv',
           UNCHANGED <<pc, msg, stream, g_iMsgNum, m_listMemoryOperation, threadInfos>>
    PROVE  ReportsInv'
<1>1. /\ pc' = pc /\ msg' = msg /\ stream' = stream /\ g_iMsgNum' = g_iMsgNum
      /\ m_listMemoryOperation' = m_listMemoryOperation /\ threadInfos' = threadInfos
  OBVIOUS
<1>2. NumbersInv'
  BY <1>1 DEF ReportsInv, NumbersInv, Reported, op
<1>3. OpeningInv'
  BY <1>1 DEF ReportsInv, OpeningInv
<1>4. OrderInv'
  BY <1>1 DEF ReportsInv, OrderInv, Reported
<1>5. QED
  BY <1>2, <1>3, <1>4 DEF ReportsInv

\* A thread enters a wrapper with a message that starts no thread.
LEMMA EntersReports ==
    ASSUME LibType, ReportsInv, NEW t \in running, NEW m, Goto(t, "stamp", m),
           m.thread = t, m.code # "init", m.code # "pthread_create", m.born = NULL,
           UNCHANGED <<running, stream, g_iMsgNum, m_listMemoryOperation, threadInfos>>
    PROVE  ReportsInv'
<1>1. ~Starts(m) /\ t \in Thread
  BY DEF Starts, LibType
<1>2. StartersInv'
  <2>1. Proper(running, t, "stamp", m)
    BY <1>1 DEF Proper
  <2>2. \A u \in Thread \ {t} : pc[u] # "idle" /\ Starts(msg[u]) => msg[u].tid \notin running'
    BY DEF ReportsInv, StartersInv, Proper
  <2>3. running \subseteq running' /\ running' = running /\ StartersInv
    BY DEF ReportsInv
  <2>4. QED
    BY <1>1, <2>1, <2>2, <2>3, StartersStep
<1>3. QED
  BY <1>1, <1>2, SilentReports

\* A thread starts another under an identifier nobody has.
LEMMA CreateReports ==
    ASSUME LibType, ReportsInv, Regular, NEW t \in Thread, NEW child \in Thread, ThreadCreate(t, child),
           UNCHANGED <<m_listMemoryOperation, threadInfos>>
    PROVE  ReportsInv'
<1> DEFINE m == [Msg(t, "pthread_create", NULL, 0, NULL) EXCEPT !.tid = child, !.born = g_iMsgNum]
<1>1. /\ m.thread = t /\ m.code = "pthread_create" /\ m.tid = child /\ m.born = g_iMsgNum
      /\ g_iMsgNum \in Nat
  BY DEF Msg, LibType
<1>2. /\ t \in running /\ Unused(child) /\ Goto(t, "stamp", m)
      /\ UNCHANGED <<stream, g_iMsgNum>>
  BY DEF ThreadCreate, Ready
<1>3. running' = running
  BY DEF ThreadCreate, Regular, MisreportedThreads
<1> HIDE DEF m
<1>4. Starts(m) /\ m.code # "init"
  BY <1>1 DEF Starts
<1>5. \A u \in Thread : pc[u] # "idle" /\ Starts(msg[u]) => msg[u].tid # child /\ msg[u].tid \notin running
  <2>1. SUFFICES ASSUME NEW u \in Thread, pc[u] # "idle", Starts(msg[u])
                 PROVE  msg[u].tid # child /\ msg[u].tid \notin running
    OBVIOUS
  <2>2. msg[u].born \in Nat /\ msg[u].tid \notin running
    BY <2>1 DEF ReportsInv, StartersInv, Proper
  <2>3. msg[u].born # NULL
    BY <2>2, CodeAssumption
  <2>4. QED
    BY <1>2, <2>1, <2>2, <2>3 DEF Unused
<1>6. StartersInv'
  <2>1. Proper(running, t, "stamp", m)
    BY <1>1, <1>2, <1>4 DEF Proper, Unused
  <2>2. \A u \in Thread \ {t} : pc[u] # "idle" /\ Starts(msg[u]) => msg[u].tid \notin running' /\ msg[u].tid # m.tid
    BY <1>1, <1>3, <1>5
  <2>3. running \subseteq running' /\ StartersInv
    BY <1>3 DEF ReportsInv
  <2>4. QED
    BY <1>2, <1>3, <2>1, <2>2, <2>3, StartersStep
<1>7. QED
  BY <1>2, <1>6, SilentReports

\* a thread calls a wrapper
LEMMA CallReports ==
    ASSUME LibType, ReportsInv, Regular, NEW t \in Thread, Call(t),
           UNCHANGED <<scenario, m_listMemoryOperation, threadInfos>>
    PROVE  ReportsInv'
<1>1. \A code, ptr, size, free : LET m == Msg(t, code, ptr, size, free)
                                 IN  m.thread = t /\ m.code = code /\ m.born = NULL
  BY DEF Msg
<1>2. ASSUME NEW code \in scenario.codes, NEW a \in Addr, NEW size \in scenario.sizes, NEW num \in {1, 2},
             Alloc(t, code, a, size, num)
      PROVE  ReportsInv'
  <2> DEFINE m == Msg(t, code, a, size, NULL)
  <2>1. code # "init" /\ code # "pthread_create"
    BY EnvAssumption, CodesDiffer DEF LibType, ThreadCode
  <2>2. t \in running /\ Goto(t, "stamp", m) /\ UNCHANGED <<running, stream, g_iMsgNum>>
    BY <1>2 DEF Alloc, Ready
  <2>3. m.thread = t /\ m.code = code /\ m.born = NULL
    BY <1>1
  <2> HIDE DEF m
  <2>4. QED
    BY <2>1, <2>2, <2>3, EntersReports
<1>3. ASSUME NEW ptr \in held \cup {NULL}, NEW a \in Addr, NEW size \in scenario.sizes,
             Realloc(t, ptr, a, size)
      PROVE  ReportsInv'
  <2> DEFINE m == Msg(t, "realloc", a, size, ptr)
  <2>1. t \in running /\ Goto(t, "stamp", m) /\ UNCHANGED <<running, stream, g_iMsgNum>>
    BY <1>3 DEF Realloc, Ready
  <2>2. m.thread = t /\ m.code = "realloc" /\ m.born = NULL
    BY <1>1
  <2> HIDE DEF m
  <2>3. QED
    BY <2>1, <2>2, EntersReports
<1>4. ASSUME NEW ptr \in held, ReallocZero(t, ptr) PROVE ReportsInv'
  <2>1. UNCHANGED <<pc, msg, running, stream, g_iMsgNum>>
    BY <1>4 DEF ReallocZero
  <2>2. StartersInv'
    BY <2>1 DEF ReportsInv, StartersInv
  <2>3. QED
    BY <2>1, <2>2, StillReports
<1>5. ASSUME NEW ptr \in held, Free(t, ptr) PROVE ReportsInv'
  <2> DEFINE m == Msg(t, "free", NULL, 0, ptr)
  <2>1. t \in running /\ Goto(t, "stamp", m) /\ UNCHANGED <<running, stream, g_iMsgNum>>
    BY <1>5 DEF Free, Ready
  <2>2. m.thread = t /\ m.code = "free" /\ m.born = NULL
    BY <1>1
  <2> HIDE DEF m
  <2>3. QED
    BY <2>1, <2>2, EntersReports
<1>6. ASSUME NEW u \in Thread, ThreadCreate(t, u) PROVE ReportsInv'
  BY <1>6, CreateReports
<1>7. ASSUME NEW u \in Thread, CreateFails(t, u) PROVE ReportsInv'
  BY <1>7 DEF CreateFails, Regular, MisreportedThreads
<1>8. ASSUME NEW u \in Thread, SetName(t, u) PROVE ReportsInv'
  <2> DEFINE m == [Msg(t, "pthread_set_name", NULL, 0, NULL) EXCEPT !.tid = u]
  <2>1. t \in running /\ Goto(t, "stamp", m) /\ UNCHANGED <<running, stream, g_iMsgNum>>
    BY <1>8 DEF SetName, Ready
  <2>2. m.thread = t /\ m.code = "pthread_set_name" /\ m.born = NULL
    BY DEF Msg
  <2> HIDE DEF m
  <2>3. QED
    BY <2>1, <2>2, EntersReports
<1>9. QED
  BY <1>2, <1>3, <1>4, <1>5, <1>6, <1>7, <1>8 DEF Call, AllocAny

\* What follows the last report of a wrapper.
LEMMA FinishStarters ==
    ASSUME LibType, ReportsInv, NEW t \in Thread, pc[t] # "idle", Finish(t, msg[t])
    PROVE  StartersInv' /\ \E step \in {"idle", "real_free"} : \E m : Goto(t, step, m) /\ (step # "idle" => ~Starts(m))
<1>1. StartersInv /\ Proper(running, t, pc[t], msg[t])
  BY DEF ReportsInv, StartersInv
<1>2. \A u \in Thread \ {t} : pc[u] # "idle" /\ Starts(msg[u]) => msg[u].tid \notin running
  BY DEF ReportsInv, StartersInv, Proper
<1>3. CASE msg[t].code = "free"
  <2>1. ~Starts(msg[t])
    BY <1>3 DEF Starts
  <2>2. Goto(t, "real_free", msg[t]) /\ running' = running
    BY <1>3 DEF Finish
  <2>3. Proper(running, t, "real_free", msg[t])
    BY <1>1, <2>1 DEF Proper
  <2>4. StartersInv'
    BY <1>1, <1>2, <2>1, <2>2, <2>3, StartersStep
  <2>5. QED
    BY <2>1, <2>2, <2>4
<1>4. CASE msg[t].code # "free"
  <2>1. /\ Goto(t, "idle", NoMsg)
        /\ running' = IF msg[t].born # NULL THEN running \cup {msg[t].tid} ELSE running
    BY <1>4 DEF Finish, Return
  <2>2. \A u \in Thread \ {t} : pc[u] # "idle" /\ Starts(msg[u]) => msg[u].tid \notin running'
    <3>1. SUFFICES ASSUME NEW u \in Thread \ {t}, pc[u] # "idle", Starts(msg[u]) PROVE msg[u].tid \notin running'
      OBVIOUS
    <3>2. msg[u].tid \notin running
      BY <1>2, <3>1
    <3>3. CASE msg[t].born = NULL
      BY <2>1, <3>2, <3>3
    <3>4. CASE msg[t].born # NULL
      <4>1. Starts(msg[t])
        BY <1>1, <3>4 DEF Proper
      <4>2. msg[u].tid # msg[t].tid
        BY <1>1, <3>1, <4>1 DEF StartersInv
      <4>3. QED
        BY <2>1, <3>2, <4>2
    <3>5. QED
      BY <3>3, <3>4
  <2>3. running \subseteq running'
    BY <2>1
  <2>4. StartersInv'
    BY <1>1, <2>1, <2>2, <2>3, StartersStep
  <2>5. QED
    BY <2>1, <2>4
<1>5. QED
  BY <1>3, <1>4

\* a thread goes on in a wrapper
LEMMA ReportReports ==
    ASSUME TypeInv, ReportsInv, NEW t \in Thread, Report(t), UNCHANGED <<m_listMemoryOperation, threadInfos>>
    PROVE  ReportsInv'
<1>1. LibType /\ msg[t] \in MsgType
  BY ThreadMsgType DEF TypeInv, LibType
<1>2. CASE Stamp(t)
  BY <1>2, StampReports
<1>3. CASE Send(t)
  <2>1. /\ pc[t] = "send" /\ stream' = Append(stream, msg[t]) /\ UNCHANGED g_iMsgNum
    BY <1>3 DEF Send
  <2>2. Proper(running, t, pc[t], msg[t])
    BY <2>1 DEF ReportsInv, StartersInv
  <2>3. msg[t].code # "init"
    BY <2>2 DEF Proper
  <2>4. CASE SendBacktrace /\ msg[t].tid = NULL
    <3> DEFINE m == [msg[t] EXCEPT !.origin = msg[t].num]
    <3>1. Goto(t, "stamp_bt", m) /\ running' = running
      BY <1>3, <2>4 DEF Send
    <3>2. m.code = msg[t].code /\ m.thread = msg[t].thread /\ m.born = msg[t].born
      BY <1>1 DEF MsgType, MsgRecord
    <3> HIDE DEF m
    <3>3. ~Starts(msg[t])
      BY <2>2, <2>4, EnvAssumption DEF Proper
    <3>4. ~Starts(m)
      BY <3>2, <3>3 DEF Starts
    <3>5. Proper(running, t, "stamp_bt", m)
      BY <2>2, <3>2, <3>3, <3>4 DEF Proper
    <3>6. \A u \in Thread \ {t} : pc[u] # "idle" /\ Starts(msg[u]) => msg[u].tid \notin running'
      BY <3>1 DEF ReportsInv, StartersInv, Proper
    <3>7. StartersInv /\ running \subseteq running'
      BY <3>1 DEF ReportsInv
    <3>8. StartersInv'
      BY <1>1, <3>1, <3>4, <3>5, <3>6, <3>7, StartersStep
    <3>9. QED
      BY <1>1, <2>1, <2>3, <3>1, <3>4, <3>8, SendReports
  <2>5. CASE ~(SendBacktrace /\ msg[t].tid = NULL)
    <3>1. Finish(t, msg[t]) /\ pc[t] # "idle"
      BY <1>3, <2>1, <2>5 DEF Send
    <3>2. /\ StartersInv'
          /\ \E step \in {"idle", "real_free"} : \E m : Goto(t, step, m) /\ (step # "idle" => ~Starts(m))
      BY <1>1, <3>1, FinishStarters
    <3>3. PICK step \in {"idle", "real_free"} : \E m : Goto(t, step, m) /\ (step # "idle" => ~Starts(m))
      BY <3>2
    <3>5. PICK m : Goto(t, step, m) /\ (step # "idle" => ~Starts(m))
      BY <3>3
    <3>4. QED
      BY <1>1, <2>1, <2>3, <3>2, <3>5, SendReports
  <2>6. QED
    BY <2>4, <2>5
<1>4. CASE SendBacktraceMsg(t)
  <2> DEFINE k == [Msg(t, "backtrace", NULL, 0, NULL)
                    EXCEPT !.num = msg[t].num, !.time = msg[t].time, !.origin = msg[t].origin]
  <2>1. /\ pc[t] = "send_bt" /\ stream' = Append(stream, k) /\ UNCHANGED g_iMsgNum
        /\ Finish(t, msg[t])
    BY <1>4 DEF SendBacktraceMsg
  <2>2. k \in MsgType /\ k.code = "backtrace" /\ k.num = msg[t].num
    <3>1. k \in MsgType
      BY <1>1, ThreadMsgType
    <3>2. QED
      BY <3>1 DEF Msg
  <2> HIDE DEF k
  <2>3. \A x : ~Concerns(k, x) /\ ~Starts(k)
    BY <2>2, CodesDiffer DEF Concerns, Starts
  <2>4. /\ StartersInv'
        /\ \E step \in {"idle", "real_free"} : \E m : Goto(t, step, m) /\ (step # "idle" => ~Starts(m))
    BY <1>1, <2>1, FinishStarters
  <2>5. PICK step \in {"idle", "real_free"} : \E m : Goto(t, step, m) /\ (step # "idle" => ~Starts(m))
    BY <2>4
  <2>6. PICK m : Goto(t, step, m) /\ (step # "idle" => ~Starts(m))
    BY <2>5
  <2>7. QED
    BY <2>1, <2>2, <2>3, <2>4, <2>6, SendReports
<1>5. CASE RealFree(t)
  <2>1. Goto(t, "idle", NoMsg) /\ UNCHANGED <<running, stream, g_iMsgNum>>
    BY <1>5 DEF RealFree
  <2>2. \A u \in Thread \ {t} : pc[u] # "idle" /\ Starts(msg[u]) => msg[u].tid \notin running'
    BY <2>1 DEF ReportsInv, StartersInv, Proper
  <2>3. StartersInv /\ running \subseteq running'
    BY <2>1 DEF ReportsInv
  <2>4. StartersInv'
    BY <1>1, <2>1, <2>2, <2>3, StartersStep
  <2>5. QED
    BY <1>1, <2>1, <2>4, SilentReports
<1>6. QED
  BY <1>2, <1>3, <1>4, <1>5 DEF Report

\* No step of the library disturbs the order of reports.
LEMMA LibNextReports ==
    ASSUME TypeInv, ReportsInv, Regular, LibNext, UNCHANGED <<scenario, m_listMemoryOperation, threadInfos>>
    PROVE  ReportsInv'
<1>1. LibType
  BY DEF TypeInv
<1>2. ASSUME NEW t \in Thread, Call(t) PROVE ReportsInv'
  BY <1>1, <1>2, CallReports
<1>3. ASSUME NEW t \in Thread, Report(t) PROVE ReportsInv'
  BY <1>3, ReportReports
<1>4. ASSUME NEW t \in Thread, ThreadExit(t) PROVE ReportsInv'
  <2>1. /\ pc[t] = "idle" /\ running' = running \ {t}
        /\ UNCHANGED <<pc, msg, stream, g_iMsgNum>>
    BY <1>4 DEF ThreadExit
  <2>2. StartersInv'
    <3>1. ASSUME NEW u \in Thread, pc[u] # "idle" PROVE Proper(running', u, pc[u], msg[u])
      <4>1. Proper(running, u, pc[u], msg[u]) /\ u # t
        BY <2>1, <3>1 DEF ReportsInv, StartersInv
      <4>2. QED
        BY <2>1, <4>1 DEF Proper
    <3>2. QED
      BY <2>1, <3>1 DEF ReportsInv, StartersInv
  <2>3. QED
    BY <2>1, <2>2, StillReports
<1>5. CASE Tick
  <2>1. UNCHANGED <<pc, msg, running, stream, g_iMsgNum>>
    BY <1>5 DEF Tick
  <2>2. StartersInv'
    BY <2>1 DEF ReportsInv, StartersInv
  <2>3. QED
    BY <2>1, <2>2, StillReports
<1>6. CASE Restart
  BY <1>6 DEF Restart, Regular, MisreportedThreads
<1>7. QED
  BY <1>2, <1>3, <1>4, <1>5, <1>6 DEF LibNext

-----------------------------------------------------------------------------
(* The server keeps its table *)

\* what the lists hold after the message m is theirs already or that of m
ListFollows(m) ==
    \A k \in 1..Len(m_listMemoryOperation') :
        \/ \E i \in 1..Len(m_listMemoryOperation) :
                /\ m_listMemoryOperation'[k].thread = op(i).thread
                /\ m_listMemoryOperation'[k].num = op(i).num
        \/ Concerns(m, m_listMemoryOperation'[k].thread) /\ m_listMemoryOperation'[k].num = m.num

TableFollows(m) ==
    \A j \in 1..Len(threadInfos') :
        \/ Came(Table, Table', j)
        \/ Concerns(m, threadInfos'[j].tid) /\ threadInfos'[j].last = m.num

\* The message m is newer than all the server knows of the identifiers it is about.
Fresh(m) ==
    /\ m.num >= 1
    /\ \A t \in TidType : Concerns(m, t) => Reported(t, 0, m.num - 1)

\* the operations of the list have numbers and sizes
LEMMA ListOperations ==
    ASSUME TypeInv, NumbersInv
    PROVE  Operations(m_listMemoryOperation, Shown)
<1>1. ListType
  BY DEF TypeInv
<1>2. IsFiniteSet(Shown) /\ Shown \subseteq 1..Len(m_listMemoryOperation)
  BY <1>1, ShownIsFinite
<1>3. \A i \in 1..Len(m_listMemoryOperation) : op(i) \in OpType
  BY <1>1, ElementOfSeq DEF ListType, op
<1>4. QED
  BY <1>2, <1>3 DEF Operations, OpType, NumbersInv, op

\* the table written back
LEMMA SetTableIs ==
    ASSUME NEW T \in TableType, SetTable(T)
    PROVE  Table' = T
<1>1. T = [infos |-> T.infos, listed |-> T.listed, alive |-> T.alive]
  BY DEF TableType
<1>2. QED
  BY <1>1 DEF SetTable, Table

\* An allocation or a release is booked where it belongs.
LEMMA MemoryEffect ==
    ASSUME TypeInv, ListFormed, NumbersInv, TableInv, NEW m \in MsgType, Formed(m), m.code \in MemoryCode,
           Fresh(m), addMemoryOperation(m)
    PROVE  TableInv' /\ ListFollows(m) /\ TableFollows(m)
<1> DEFINE freed == takeByPtrNotFreed(m.free)
           ops == m_listMemoryOperation
           new == m_listMemoryOperation'
           N == Len(ops)
           R == Shown \ {freed}
           T == IF freed = NULL THEN Table ELSE AddFree(Table, ops[freed])
           U == IF m.ptr = NULL THEN T ELSE AddAlloc(T, m)
<1>1. ListType /\ Table \in TableType
  BY DEF TypeInv
<1>2. N \in Nat /\ (\A j \in 1..N : ops[j] \in OpType) /\ NULL \notin 1..N
  <2>1. N \in Nat /\ \A j \in 1..N : ops[j] \in OpType
    BY <1>1, LenProperties, ElementOfSeq DEF ListType
  <2>2. QED
    BY <2>1, CodeAssumption
<1>3. Operations(ops, Shown) /\ Shown \subseteq 1..N
  BY <1>1, ListOperations, ShownIsFinite
<1>4. /\ Len(new) = N + 1
      /\ \A j \in 1..N : new[j] = Marked(freed)[j]
      /\ new[N + 1] = NewOp(m)
  BY <1>1, AddToLists
<1>5. /\ freed # NULL => freed \in Shown
      /\ Shown' = R \cup (IF m.code = "free" THEN {} ELSE {N + 1})
      /\ N + 1 \notin Shown
  BY <1>1, ShownAfterAdd
<1>6. SetTable(U)
  BY DEF addMemoryOperation
<1>7. Tidy(Table) /\ Exact(Table, ops, Shown)
  BY DEF TableInv
<1> HIDE DEF freed
<1>8. freed # NULL => freed \in 1..N
  BY <1>3, <1>5
<1>9. \A j \in 1..N : /\ new[j].thread = ops[j].thread /\ new[j].num = ops[j].num
                      /\ new[j].size = ops[j].size
  <2>1. \A j \in 1..N : new[j] = IF freed = NULL \/ j # freed THEN op(j) ELSE [op(j) EXCEPT !.freed = TRUE]
    BY <1>1, <1>4, <1>8, MarkedIsList
  <2>2. QED
    BY <1>2, <2>1 DEF OpType, op
<1>10. /\ new[N + 1].thread = m.thread /\ new[N + 1].num = m.num /\ new[N + 1].size = m.size
  BY <1>4 DEF NewOp
<1> HIDE DEF new
<1>11. SameAt(new, ops, R) /\ SameAt(new, ops, Shown)
  BY <1>3, <1>9 DEF SameAt
<1>12. Operations(ops, R)
  <2>1. IsFiniteSet(R)
    BY <1>3, FS_Subset DEF Operations
  <2>2. QED
    BY <1>3, <2>1 DEF Operations
<1>13. T \in TableType /\ Tidy(T) /\ Exact(T, ops, R) /\ \A j \in 1..Len(T.infos) : Came(Table, T, j)
  <2>1. CASE freed = NULL
    <3>1. R = Shown
      BY <1>2, <1>3, <2>1
    <3>2. \A j \in 1..Len(Table.infos) : Came(Table, Table, j)
      BY DEF Came
    <3>3. QED
      BY <1>1, <1>7, <2>1, <3>1, <3>2
  <2>2. CASE freed # NULL
    <3> HIDE DEF ops
    <3>1. freed \in Shown /\ T = AddFree(Table, ops[freed])
      BY <1>5, <2>2
    <3> HIDE DEF T
    <3>2. QED
      BY <1>1, <1>3, <1>7, <3>1, FreeKeeps
  <2>3. QED
    BY <2>1, <2>2
<1>14. m.thread \in TidType /\ m.num \in Nat /\ m.size \in Nat /\ m.num >= 1
  BY DEF MsgType, MsgRecord, TidType, Fresh
<1>15. (m.ptr = NULL <=> m.code = "free") /\ Concerns(m, m.thread)
  BY CodesDiffer DEF Formed, Concerns, MemoryCode
<1>16. Reported(m.thread, 0, m.num - 1)
  BY <1>14, <1>15 DEF Fresh
<1>17. \A e \in 1..Len(T.infos) : T.infos[e].tid = m.thread => T.infos[e].last < m.num
  <2>1. SUFFICES ASSUME NEW e \in 1..Len(T.infos), T.infos[e].tid = m.thread
                 PROVE  T.infos[e].last < m.num
    OBVIOUS
  <2>2. CASE T.infos[e].last = 0
    BY <1>14, <2>2
  <2>3. CASE \E f \in 1..Len(threadInfos) : threadInfos[f].tid = m.thread /\ T.infos[e].last = threadInfos[f].last
    <3>1. PICK f \in 1..Len(threadInfos) : threadInfos[f].tid = m.thread /\ T.infos[e].last = threadInfos[f].last
      BY <2>3
    <3>2. T.infos[e].last <= m.num - 1
      BY <1>16, <3>1 DEF Reported, UpTo
    <3>3. T.infos[e].last \in Nat
      BY <1>13, EntryFacts
    <3>4. QED
      BY <1>14, <3>2, <3>3
  <2>4. Came(Table, T, e)
    BY <1>13
  <2>5. QED
    BY <2>1, <2>2, <2>3, <2>4 DEF Came, Table
<1> HIDE DEF T
<1>18. U \in TableType /\ Tidy(U) /\ Exact(U, new, Shown') /\ Follows(Table, U, m.thread, m.num)
  <2>1. Follows(Table, T, m.thread, m.num)
    BY <1>13 DEF Follows
  <2>2. CASE m.code = "free"
    <3>1. U = T /\ Shown' = R
      BY <1>5, <1>15, <2>2
    <3>2. Exact(T, new, R)
      BY <1>11, <1>12, <1>13, ExactSame DEF Operations
    <3>3. QED
      BY <1>13, <2>1, <3>1, <3>2
  <2>3. CASE m.code # "free"
    <3> DEFINE n == N + 1
    <3>1. U = AddAlloc(T, m) /\ Shown' = R \cup {n} /\ n \notin R
      BY <1>5, <1>15, <2>3
    <3>2. new[n].thread = m.thread /\ new[n].num = m.num /\ new[n].size = m.size
      BY <1>10
    <3> HIDE DEF ops, R, n
    <3>3. /\ AddAlloc(T, m) \in TableType /\ Tidy(AddAlloc(T, m))
          /\ Exact(AddAlloc(T, m), new, R \cup {n}) /\ Follows(T, AddAlloc(T, m), m.thread, m.num)
      BY <1>11, <1>12, <1>13, <1>14, <1>17, <3>1, <3>2, AllocKeeps
    <3>4. QED
      BY <2>1, <3>1, <3>3, FollowsOn
  <2>4. QED
    BY <2>2, <2>3
<1> HIDE DEF U
<1>19. Table' = U
  BY <1>6, <1>18, SetTableIs
<1>20. TableInv'
  BY <1>18, <1>19 DEF TableInv, new
<1>21. ListFollows(m)
  <2>1. 1..(N + 1) = 1..N \cup {N + 1}
    BY <1>2
  <2>2. \A k \in 1..N : new[k].thread = op(k).thread /\ new[k].num = op(k).num
    BY <1>9 DEF op
  <2>3. Concerns(m, new[N + 1].thread) /\ new[N + 1].num = m.num
    BY <1>10, <1>15
  <2> HIDE DEF N
  <2>4. QED
    BY <1>4, <2>1, <2>2, <2>3 DEF ListFollows, new, N
<1>22. TableFollows(m)
  <2>1. Table'.infos = threadInfos'
    BY DEF Table
  <2>2. QED
    BY <1>15, <1>18, <1>19, <2>1 DEF TableFollows, Follows
<1>23. QED
  BY <1>20, <1>21, <1>22

\* A thread gets its entry or its name.
LEMMA ThreadEffect ==
    ASSUME TypeInv, NumbersInv, TableInv, NEW m \in MsgType, m.code \in ThreadCode,
           Fresh(m), updateThreadInfos(m)
    PROVE  TableInv' /\ ListFollows(m) /\ TableFollows(m)
<1> DEFINE U == IF m.code = "pthread_create" THEN Created(Table, m.tid, m.num) ELSE Named(Table, m.tid)
           ops == m_listMemoryOperation
<1>1. ListType /\ Table \in TableType
  BY DEF TypeInv
<1>2. Operations(ops, Shown) /\ Shown \subseteq 1..Len(ops)
  BY <1>1, ListOperations, ShownIsFinite
<1>3. m.tid \in TidType /\ m.num \in Nat /\ m.num >= 1
  BY DEF MsgType, MsgRecord, TidType, Fresh
<1>4. Tidy(Table) /\ Exact(Table, ops, Shown)
  BY DEF TableInv
<1>5. SetTable(U) /\ m_listMemoryOperation' = ops
  BY DEF updateThreadInfos, Created, Named, listVars
<1>6. U \in TableType /\ Tidy(U) /\ Exact(U, ops, Shown)
      /\ \A j \in 1..Len(U.infos) : Came(Table, U, j) \/ (Starts(m) /\ U.infos[j].tid = m.tid /\ U.infos[j].last = m.num)
  <2>1. CASE m.code = "pthread_create"
    <3>1. Starts(m) /\ Reported(m.tid, 0, m.num - 1)
      BY <1>3, <2>1 DEF Starts, Concerns, Fresh
    <3>2. \A e \in 1..Len(Table.infos) : Table.infos[e].tid = m.tid => Table.infos[e].last < m.num
      <4>1. \A e \in 1..Len(Table.infos) : Table.infos[e].tid = m.tid => Table.infos[e].last <= m.num - 1
        BY <3>1 DEF Reported, UpTo, Table
      <4>2. \A e \in 1..Len(Table.infos) : Table.infos[e].last \in Nat
        BY <1>1, EntryFacts
      <4>3. \A z \in Nat : z <= m.num - 1 => z < m.num
        BY <1>3
      <4>4. QED
        BY <4>1, <4>2, <4>3
    <3>3. \A i \in Shown : ops[i].thread = m.tid => ops[i].num < m.num /\ ops[i].num \in Nat
      <4>1. \A i \in Shown : ops[i].thread = m.tid => ops[i].num <= m.num - 1
        BY <1>2, <3>1 DEF Reported, UpTo
      <4>2. \A i \in Shown : ops[i].num \in Nat
        BY <1>2 DEF Operations
      <4>3. \A z \in Nat : z <= m.num - 1 => z < m.num
        BY <1>3
      <4>4. QED
        BY <4>1, <4>2, <4>3
    <3>4. U = Created(Table, m.tid, m.num)
      BY <2>1
    <3> HIDE DEF U, ops
    <3>5. U \in TableType /\ Tidy(U) /\ Exact(U, ops, Shown) /\ Follows(Table, U, m.tid, m.num)
      BY <1>1, <1>3, <1>4, <3>2, <3>3, <3>4, CreateKeeps
    <3>6. QED
      BY <3>1, <3>5 DEF Follows
  <2>2. CASE m.code # "pthread_create"
    <3>1. U = Named(Table, m.tid)
      BY <2>2
    <3> HIDE DEF U, ops
    <3>2. QED
      BY <1>1, <1>2, <1>3, <1>4, <3>1, NameKeeps
  <2>3. QED
    BY <2>1, <2>2
<1> HIDE DEF U
<1>7. Table' = U
  BY <1>5, <1>6, SetTableIs
<1>8. Shown' = Shown
  BY <1>1, ShownAfterOther
<1>9. TableInv'
  BY <1>5, <1>6, <1>7, <1>8 DEF TableInv
<1>10. ListFollows(m)
  BY <1>5 DEF ListFollows, op
<1>11. TableFollows(m)
  <2>1. Table'.infos = threadInfos'
    BY DEF Table
  <2>2. QED
    BY <1>6, <1>7, <2>1 DEF TableFollows, Concerns
<1>12. QED
  BY <1>9, <1>10, <1>11

\* A backtrace changes nothing of this.
LEMMA BacktraceEffect ==
    ASSUME TypeInv, NumbersInv, TableInv, NEW m \in MsgType, addBacktrace(m)
    PROVE  TableInv' /\ ListFollows(m) /\ TableFollows(m)
<1> DEFINE ops == m_listMemoryOperation
           new == m_listMemoryOperation'
           N == Len(ops)
<1>1. ListType
  BY DEF TypeInv
<1>2. Operations(ops, Shown) /\ Shown \subseteq 1..N
  BY <1>1, ListOperations, ShownIsFinite
<1>3. setBacktrace(m) /\ Table' = Table /\ threadInfos' = threadInfos
  BY DEF addBacktrace, threadVars, Table
<1>4. /\ Len(new) = N
      /\ \A j \in 1..N : new[j] = IF j = takeByMsgNum(m.origin) THEN [op(j) EXCEPT !.bt = m.num] ELSE op(j)
  BY <1>1, <1>3, SetBacktraceList
<1>5. \A j \in 1..N : op(j) \in OpType
  BY <1>1, ElementOfSeq DEF ListType, op
<1>6. \A j \in 1..N : /\ new[j].thread = op(j).thread /\ new[j].num = op(j).num
                      /\ new[j].size = op(j).size
  BY <1>4, <1>5 DEF OpType
<1>7. SameAt(new, ops, Shown)
  BY <1>2, <1>6 DEF SameAt, op
<1>8. Shown' = Shown
  BY <1>1, ShownAfterOther
<1>9. TableInv'
  <2>1. Tidy(Table) /\ Exact(Table, ops, Shown)
    BY DEF TableInv
  <2>2. IsFiniteSet(Shown)
    BY <1>2 DEF Operations
  <2> HIDE DEF new, ops
  <2>3. Exact(Table, new, Shown)
    BY <1>7, <2>1, <2>2, ExactSame
  <2>4. QED
    BY <1>3, <1>8, <2>1, <2>3 DEF TableInv, new
<1>10. ListFollows(m)
  BY <1>4, <1>6 DEF ListFollows
<1>11. TableFollows(m)
  BY <1>3 DEF TableFollows, Came, Table
<1>12. QED
  BY <1>9, <1>10, <1>11

\* The first message of the process finds empty lists.
LEMMA InitEffect ==
    ASSUME TypeInv, NEW m, threadInfos = <<>>, onNewConnection
    PROVE  TableInv' /\ ListFollows(m) /\ TableFollows(m)
<1>1. /\ m_listMemoryOperation' = <<>> /\ threadInfos' = <<>> /\ m_listThreadInfos' = {}
      /\ m_listThreadInfosAlive' = m_listThreadInfosAlive
  BY DEF onNewConnection, clearOperations, clearThreads
<1>2. Len(<<>>) = 0 /\ 1..0 = {}
  OBVIOUS
<1>3. Shown' = {}
  BY ShownAfterInit
<1>4. Table'.infos = <<>> /\ Table'.listed = {}
  BY <1>1 DEF Table
<1>5. Tidy(Table')
  BY <1>2, <1>4 DEF Tidy
<1>6. Exact(Table', m_listMemoryOperation', Shown')
  BY <1>2, <1>3, <1>4 DEF Exact
<1>7. TableInv'
  BY <1>5, <1>6 DEF TableInv
<1>8. QED
  BY <1>1, <1>2, <1>7 DEF ListFollows, TableFollows

\* The order of the reports that are left stays.
LEMMA DeliverReports ==
    ASSUME TypeInv, ReportsInv, Deliver, ListFollows(Head(stream)), TableFollows(Head(stream))
    PROVE  ReportsInv'
<1> DEFINE m == Head(stream)
           N == Len(stream)
<1>1. LibType /\ stream # <<>>
  BY DEF TypeInv, Deliver
<1>2. /\ N \in Nat /\ N > 0 /\ m = stream[1] /\ m \in MsgType
      /\ Len(Tail(stream)) = N - 1 /\ \A i \in 1..(N - 1) : Tail(stream)[i] = stream[i + 1]
  BY <1>1, HeadIsFirst
<1>3. /\ Len(stream') = N - 1 /\ \A i \in 1..(N - 1) : stream'[i] = stream[i + 1]
      /\ pc' = pc /\ msg' = msg /\ running' = running /\ g_iMsgNum' = g_iMsgNum
  BY <1>2 DEF Deliver
<1>4. ListFollows(m) /\ TableFollows(m)
  OBVIOUS
<1> HIDE DEF m, N
<1>5. \A i \in 1..(N - 1) : i + 1 \in 1..N
  BY <1>2
<1>6. ASSUME NEW t, NEW n \in 0..(N - 1), NEW x \in Nat, Reported(t, n + 1, x)
      PROVE  UpTo(m_listMemoryOperation', threadInfos', stream', t, n, x)
  <2>1. 1 \in 1..(n + 1) /\ n \in Nat
    BY <1>2
  <2>2. Concerns(m, t) => m.num <= x
    BY <1>2, <1>6, <2>1 DEF Reported, UpTo
  <2>3. ASSUME NEW k \in 1..Len(m_listMemoryOperation'), m_listMemoryOperation'[k].thread = t
        PROVE  m_listMemoryOperation'[k].num <= x
    <3>1. CASE \E i \in 1..Len(m_listMemoryOperation) :
                    /\ m_listMemoryOperation'[k].thread = op(i).thread
                    /\ m_listMemoryOperation'[k].num = op(i).num
      BY <1>6, <2>3, <3>1 DEF Reported, UpTo, op
    <3>2. CASE Concerns(m, m_listMemoryOperation'[k].thread) /\ m_listMemoryOperation'[k].num = m.num
      BY <2>2, <2>3, <3>2
    <3>3. QED
      BY <1>4, <3>1, <3>2 DEF ListFollows
  <2>4. ASSUME NEW e \in 1..Len(threadInfos'), threadInfos'[e].tid = t
        PROVE  threadInfos'[e].last <= x
    <3>1. CASE Came(Table, Table', e)
      <4>1. \/ threadInfos'[e].last = 0
            \/ \E f \in 1..Len(threadInfos) : threadInfos[f].tid = t /\ threadInfos'[e].last = threadInfos[f].last
        BY <2>4, <3>1 DEF Came, Table
      <4>2. 0 <= x
        BY <1>6
      <4>3. \A f \in 1..Len(threadInfos) : threadInfos[f].tid = t => threadInfos[f].last <= x
        BY <1>6 DEF Reported, UpTo
      <4>4. QED
        BY <4>1, <4>2, <4>3
    <3>2. CASE Concerns(m, threadInfos'[e].tid) /\ threadInfos'[e].last = m.num
      BY <2>2, <2>4, <3>2
    <3>3. QED
      BY <1>4, <3>1, <3>2 DEF TableFollows
  <2>5. ASSUME NEW j \in 1..n, Concerns(stream'[j], t)
        PROVE  stream'[j].num <= x
    <3>1. j \in 1..(N - 1) /\ j + 1 \in 1..(n + 1)
      BY <1>2, <2>1
    <3>2. stream'[j] = stream[j + 1]
      BY <1>3, <3>1
    <3>3. QED
      BY <1>6, <2>5, <3>1, <3>2 DEF Reported, UpTo
  <2>6. QED
    BY <2>3, <2>4, <2>5 DEF UpTo
\* the numbers less one are natural numbers
<1>7. \A j \in 1..N : stream[j].num \in Nat /\ stream[j].num - 1 \in Nat
  <2>1. SUFFICES ASSUME NEW j \in 1..N PROVE stream[j].num \in Nat /\ stream[j].num - 1 \in Nat
    OBVIOUS
  <2>2. stream[j] \in MsgType
    BY <1>1, ElementOfSeq DEF LibType, N
  <2>3. stream[j].num \in Nat
    BY <2>2 DEF MsgType, MsgRecord
  <2>4. stream[j].num >= 1
    BY DEF ReportsInv, NumbersInv, N
  <2>5. QED
    BY <2>3, <2>4
<1>8. N - 1 \in 0..(N - 1) /\ N - 1 + 1 = N
  BY <1>2
<1>9. StartersInv'
  BY <1>3 DEF ReportsInv, StartersInv
<1>10. NumbersInv'
  <2>1. \A u \in TidType : UpTo(m_listMemoryOperation', threadInfos', stream', u, N - 1, g_iMsgNum)
    <3>1. SUFFICES ASSUME NEW u \in TidType
                   PROVE  UpTo(m_listMemoryOperation', threadInfos', stream', u, N - 1, g_iMsgNum)
      OBVIOUS
    <3>2. Reported(u, N - 1 + 1, g_iMsgNum)
      BY <1>8 DEF ReportsInv, NumbersInv, N
    <3>3. g_iMsgNum \in Nat
      BY <1>1 DEF LibType
    <3>4. QED
      BY <1>6, <1>8, <3>2, <3>3
  <2>2. \A u \in Thread : pc'[u] \in {"send", "send_bt"} => msg'[u].num \in 1..g_iMsgNum'
    BY <1>3 DEF ReportsInv, NumbersInv
  <2>3. \A i \in 1..Len(stream') : stream'[i].num >= 1
    BY <1>3, <1>5 DEF ReportsInv, NumbersInv, N
  <2>4. \A k \in 1..Len(m_listMemoryOperation') : m_listMemoryOperation'[k].num >= 1
    <3>1. m.num >= 1
      BY <1>2 DEF ReportsInv, NumbersInv, N
    <3>2. \A i \in 1..Len(m_listMemoryOperation) : op(i).num >= 1
      BY DEF ReportsInv, NumbersInv
    <3>3. QED
      BY <1>4, <3>1, <3>2 DEF ListFollows
  <2>5. QED
    BY <1>3, <2>1, <2>2, <2>3, <2>4 DEF NumbersInv, Reported, op
<1>11. OpeningInv'
  <2>1. ASSUME NEW i \in 1..(N - 1) PROVE stream'[i].code # "init"
    <3>1. i + 1 \in 1..N /\ i + 1 # 1 /\ stream'[i] = stream[i + 1]
      BY <1>2, <1>3, <1>5
    <3>2. QED
      BY <3>1 DEF ReportsInv, OpeningInv, N
  <2>2. QED
    BY <1>3, <2>1 DEF OpeningInv
<1>12. OrderInv'
  <2>1. ASSUME NEW u \in TidType, NEW j \in 1..(N - 1), Concerns(stream'[j], u)
        PROVE  UpTo(m_listMemoryOperation', threadInfos', stream', u, j - 1, stream'[j].num - 1)
    <3>1. j + 1 \in 1..N /\ stream'[j] = stream[j + 1] /\ j - 1 \in 0..(N - 1) /\ (j + 1) - 1 = (j - 1) + 1
      BY <1>2, <1>3, <1>5
    <3>2. Reported(u, (j + 1) - 1, stream[j + 1].num - 1)
      BY <2>1, <3>1 DEF ReportsInv, OrderInv, N
    <3>3. Reported(u, (j - 1) + 1, stream[j + 1].num - 1)
      BY <3>1, <3>2
    <3>4. UpTo(m_listMemoryOperation', threadInfos', stream', u, j - 1, stream[j + 1].num - 1)
      BY <1>6, <1>7, <3>1, <3>3
    <3>5. QED
      BY <3>1, <3>4
  <2>2. ASSUME NEW u \in TidType, NEW v \in Thread, pc[v] = "send", Concerns(msg[v], u)
        PROVE  UpTo(m_listMemoryOperation', threadInfos', stream', u, N - 1, msg[v].num - 1)
    <3>1. Reported(u, N - 1 + 1, msg[v].num - 1)
      BY <1>8, <2>2 DEF ReportsInv, OrderInv, N
    <3>2. msg[v].num - 1 \in Nat
      <4>1. msg[v].num \in 1..g_iMsgNum
        BY <2>2 DEF ReportsInv, NumbersInv
      <4>2. QED
        BY <1>1, <4>1 DEF LibType
    <3>3. QED
      BY <1>6, <1>8, <3>1, <3>2
  <2>3. QED
    BY <1>3, <2>1, <2>2 DEF OrderInv, Reported
<1>13. QED
  BY <1>9, <1>10, <1>11, <1>12 DEF ReportsInv

\* The step of the server.
LEMMA DeliverThreads ==
    ASSUME Inv, ReportsInv, TableInv, Deliver
    PROVE  ReportsInv' /\ TableInv'
<1> DEFINE m == Head(stream)
<1>1. TypeInv /\ LibType /\ FormedInv /\ stream # <<>> /\ doProcessMsgV1(m)
  BY DEF Inv, TypeInv, Deliver
<1>2. /\ Len(stream) \in Nat /\ Len(stream) > 0 /\ m = stream[1] /\ m \in MsgType
  BY <1>1, HeadIsFirst
<1>3. 1 \in 1..Len(stream)
  BY <1>2
<1> HIDE DEF m
<1>4. Formed(m) /\ ListFormed /\ NumbersInv
  BY <1>1, <1>2, <1>3 DEF FormedInv, SentFormed, ReportsInv
<1>5. Fresh(m)
  <2>1. m.num >= 1
    BY <1>2, <1>3 DEF ReportsInv, NumbersInv
  <2>2. \A t \in TidType : Concerns(m, t) => Reported(t, 1 - 1, m.num - 1)
    BY <1>2, <1>3 DEF ReportsInv, OrderInv
  <2>3. 1 - 1 = 0
    OBVIOUS
  <2>4. QED
    BY <2>1, <2>2, <2>3 DEF Fresh
<1>6. TableInv' /\ ListFollows(m) /\ TableFollows(m)
  <2>1. CASE m.code = "init" /\ onNewConnection
    <3>1. threadInfos = <<>>
      BY <1>2, <1>3, <2>1 DEF ReportsInv, OpeningInv
    <3>2. QED
      BY <1>1, <2>1, <3>1, InitEffect
  <2>2. CASE m.code \in MemoryCode /\ addMemoryOperation(m)
    BY <1>1, <1>2, <1>4, <1>5, <2>2, MemoryEffect
  <2>3. CASE m.code \in ThreadCode /\ updateThreadInfos(m)
    BY <1>1, <1>2, <1>4, <1>5, <2>3, ThreadEffect
  <2>4. CASE m.code = "backtrace" /\ addBacktrace(m)
    BY <1>1, <1>2, <1>4, <2>4, BacktraceEffect
  <2>5. QED
    BY <1>1, <2>1, <2>2, <2>3, <2>4 DEF doProcessMsgV1
<1>7. ReportsInv'
  BY <1>1, <1>6, DeliverReports DEF m
<1>8. QED
  BY <1>6, <1>7

-----------------------------------------------------------------------------
(* The theorems *)

\* At the start one message is on its way and the lists are empty.
LEMMA InitThreads == Init => ReportsInv /\ TableInv
<1> SUFFICES ASSUME Init PROVE ReportsInv /\ TableInv
  OBVIOUS
<1>1. /\ stream = <<AppMsg>> /\ g_iMsgNum = 1 /\ \A t \in Thread : pc[t] = "idle"
      /\ m_listMemoryOperation = <<>> /\ threadInfos = <<>>
      /\ m_listThreadInfos = {} /\ m_listThreadInfosAlive = {}
  BY DEF Init, LibInit, ControllerInit
<1>2. AppMsg.code = "init" /\ AppMsg.num = 1
  BY DEF AppMsg, NoMsg, Msg
<1>3. Len(stream) = 1 /\ stream[1] = AppMsg /\ \A i \in 1..Len(stream) : i = 1
  BY <1>1
<1>4. Len(<<>>) = 0 /\ 1..0 = {}
  OBVIOUS
<1>5. ~Starts(AppMsg) /\ \A t : ~Concerns(AppMsg, t)
  BY <1>2, CodesDiffer DEF Starts, Concerns
<1>6. \A t : Reported(t, Len(stream), g_iMsgNum)
  BY <1>1, <1>3, <1>4, <1>5 DEF Reported, UpTo
<1>7. ReportsInv
  <2>1. StartersInv
    BY <1>1 DEF StartersInv
  <2>2. NumbersInv
    BY <1>1, <1>2, <1>3, <1>4, <1>6 DEF NumbersInv
  <2>3. OpeningInv
    BY <1>1, <1>3 DEF OpeningInv
  <2>4. OrderInv
    BY <1>1, <1>3, <1>5 DEF OrderInv
  <2>5. QED
    BY <2>1, <2>2, <2>3, <2>4 DEF ReportsInv
<1>8. TableInv
  <2>1. Table.infos = <<>> /\ Table.listed = {} /\ Shown = {}
    BY <1>1, <1>4 DEF Table, Shown
  <2>2. QED
    BY <1>4, <2>1 DEF TableInv, Tidy, Exact
<1>9. QED
  BY <1>7, <1>8

\* With the invariant of the heap, that of the threads is inductive,
LEMMA NextThreads == Inv /\ ThreadInv /\ [Next]_vars => ThreadInv'
<1> SUFFICES ASSUME Inv, ThreadInv, [Next]_vars PROVE ThreadInv'
  OBVIOUS
<1>1. UNCHANGED scenario
  BY DEF Next, Deliver, vars
<1>2. SUFFICES ASSUME Regular PROVE ReportsInv' /\ TableInv'
  BY <1>1 DEF ThreadInv, Regular, MisreportedThreads, Env
<1>3. ReportsInv /\ TableInv /\ TypeInv
  BY <1>2 DEF ThreadInv, Inv
<1>4. CASE LibNext /\ UNCHANGED <<scenario, controllerVars>>
  <2>1. UNCHANGED <<m_listMemoryOperation, threadInfos, m_listThreadInfos, m_listThreadInfosAlive>>
    BY <1>4 DEF controllerVars, listVars, threadVars
  <2>2. TableInv'
    BY <1>3, <2>1 DEF TableInv, Table, Shown, op
  <2>3. ReportsInv'
    BY <1>2, <1>3, <1>4, <2>1, LibNextReports
  <2>4. QED
    BY <2>2, <2>3
<1>5. CASE Deliver
  BY <1>3, <1>5, DeliverThreads
<1>6. CASE UNCHANGED vars
  <2>1. UNCHANGED <<m_listMemoryOperation, threadInfos, m_listThreadInfos, m_listThreadInfosAlive,
                    pc, msg, running, stream, g_iMsgNum>>
    BY <1>6 DEF vars, libVars, controllerVars, listVars, threadVars
  <2>2. TableInv'
    BY <1>3, <2>1 DEF TableInv, Table, Shown, op
  <2>3. StartersInv'
    BY <1>3, <2>1 DEF ReportsInv, StartersInv
  <2>4. ReportsInv'
    BY <1>3, <2>1, <2>3, StillReports
  <2>5. QED
    BY <2>2, <2>4
<1>7. QED
  BY <1>4, <1>5, <1>6 DEF Next

\* and holds in every reachable state.
LEMMA SpecThreads == Spec => []ThreadInv
<1>1. Init => ThreadInv
  BY InitThreads DEF ThreadInv
<1>2. QED
  BY <1>1, NextThreads, SpecInv, PTL DEF Spec

\* The usage of a thread is that of its own operations, each of which is counted
\* for one listed thread, whoever freed what and however often an identifier was
\* given out again (LeakDetector.ThreadUsageExact).
THEOREM SpecThreadUsageExact == Spec => []ThreadUsageExact
<1>1. Inv /\ ThreadInv => ThreadUsageExact
  <2> DEFINE N == Len(threadInfos)
  <2>1. SUFFICES ASSUME Inv, ThreadInv, MisreportedThreads = {} PROVE ThreadUsageAlwaysExact
    BY DEF ThreadUsageExact
  <2>2. /\ Table \in TableType /\ TypeInv /\ NumbersInv
        /\ Tidy(Table) /\ Exact(Table, m_listMemoryOperation, Shown)
    BY <2>1 DEF Inv, TypeInv, ThreadInv, Regular, TableInv, ReportsInv
  <2>3. Table.infos = threadInfos /\ Table.listed = m_listThreadInfos /\ m_listThreadInfos = 1..N
    BY <2>2 DEF Tidy, Table
  <2>4. \A e \in 1..N : OpsOf(e) = Part(threadInfos[e], m_listMemoryOperation, Shown)
    BY DEF OpsOf, Part, Covers, op
  <2>5. \A i \in Shown : op(i).num \in Nat
    BY <2>2, ListOperations DEF Operations, op
  <2>6. ASSUME NEW i \in Shown
        PROVE  \E e \in m_listThreadInfos :
                    i \in OpsOf(e) /\ \A f \in m_listThreadInfos \ {e} : i \notin OpsOf(f)
    <3>1. PICK e \in 1..N : Covers(threadInfos[e], op(i))
      BY <2>2, <2>3 DEF Exact, op
    <3>2. \A f \in 1..N : Covers(threadInfos[f], op(i)) => e = f
      <4>1. \A f \in 1..Len(Table.infos), g \in 1..Len(Table.infos) :
                Covers(Table.infos[f], op(i)) /\ Covers(Table.infos[g], op(i)) => f = g
        BY <2>2, <2>5, OneCovers
      <4>2. QED
        BY <2>3, <3>1, <4>1
    <3>3. i \in OpsOf(e) /\ \A f \in (1..N) \ {e} : i \notin OpsOf(f)
      BY <2>4, <3>1, <3>2 DEF Part, op
    <3>4. QED
      BY <2>3, <3>3
  <2>7. ASSUME NEW e \in m_listThreadInfos
        PROVE  /\ threadInfos[e].count = Cardinality(OpsOf(e)) % CountRange
               /\ threadInfos[e].size = ToWord(SizeOfOps(OpsOf(e)))
    <3>1. Counted(threadInfos[e], m_listMemoryOperation, Shown)
      BY <2>2, <2>3 DEF Exact
    <3>2. \A S : SizeOfOps(S) = SizeSum(m_listMemoryOperation, S)
      BY DEF SizeOfOps, SizeSum, FieldSum, op
    <3>3. QED
      BY <2>3, <2>4, <3>1, <3>2 DEF Counted
  <2>8. QED
    BY <2>6, <2>7 DEF ThreadUsageAlwaysExact
<1>2. QED
  BY <1>1, SpecInv, SpecThreads, PTL

-----------------------------------------------------------------------------
(* What the entries of an identifier add up to *)

\* the entries of an identifier, and what is shown for it
Entries(T, t) == {e \in 1..Len(T.infos) : T.infos[e].tid = t}
OpsBy(ops, S, t) == {i \in S : ops[i].thread = t}

\* the counters of the entries add up to c operations of size z
Booked(T, t, c, z) ==
    /\ FieldSum(T.infos, "count", Entries(T, t)) % CountRange = c % CountRange
    /\ ToWord(FieldSum(T.infos, "size", Entries(T, t))) = ToWord(z)

Balanced(T, ops, S) ==
    /\ T.listed = 1..Len(T.infos)
    /\ \A t \in TidType :
            Booked(T, t, Cardinality(OpsBy(ops, S, t)), SizeSum(ops, OpsBy(ops, S, t)))

\* what a sum becomes when a part k of it is counted on by d
Moved(W, sum, k, d) == sum + (((k + d) % W) - k)

\* It is counted on by d.
LEMMA ModChange ==
    ASSUME NEW W \in Nat \ {0}
    PROVE  \A sum, k, d, c \in Int : sum % W = c % W => Moved(W, sum, k, d) % W = (c + d) % W
<1> SUFFICES ASSUME NEW sum \in Int, NEW k \in Int, NEW d \in Int, NEW c \in Int, sum % W = c % W
             PROVE  (sum + (((k + d) % W) - k)) % W = (c + d) % W
  BY DEF Moved
<1> DEFINE r == (k + d) % W
<1>1. r \in Int
  OBVIOUS
<1>2. (r + (sum - k)) % W = ((k + d) + (sum - k)) % W
  <2>1. k + d \in Int /\ sum - k \in Int
    OBVIOUS
  <2>2. QED
    BY <2>1, ModAdd
<1> HIDE DEF r
<1>3. r + (sum - k) = sum + (r - k) /\ (k + d) + (sum - k) = sum + d
  BY <1>1
<1>4. (sum + d) % W = (c + d) % W
  <2>1. ((sum % W) + d) % W = (sum + d) % W
    BY ModAdd
  <2>2. ((c % W) + d) % W = (c + d) % W
    BY ModAdd
  <2>3. QED
    BY <2>1, <2>2
<1>5. QED
  BY <1>2, <1>3, <1>4 DEF r

\* The entries of an identifier are finitely many, with counts and sizes.
LEMMA EntriesFinite ==
    ASSUME NEW T \in TableType
    PROVE  \A t : /\ IsFiniteSet(Entries(T, t)) /\ Entries(T, t) \subseteq 1..Len(T.infos)
                  /\ \A e \in Entries(T, t) : T.infos[e]["count"] \in Nat /\ T.infos[e]["size"] \in Nat
<1>1. /\ Len(T.infos) \in Nat
      /\ \A e \in 1..Len(T.infos) : T.infos[e].count \in Nat /\ T.infos[e].size \in Nat
  BY EntryFacts
<1>2. SUFFICES ASSUME NEW t
               PROVE  /\ IsFiniteSet(Entries(T, t)) /\ Entries(T, t) \subseteq 1..Len(T.infos)
                      /\ \A e \in Entries(T, t) : T.infos[e]["count"] \in Nat /\ T.infos[e]["size"] \in Nat
  OBVIOUS
<1>3. Entries(T, t) \subseteq 1..Len(T.infos)
  BY DEF Entries
<1>4. IsFiniteSet(1..Len(T.infos))
  BY <1>1, FS_Interval
<1>5. IsFiniteSet(Entries(T, t))
  BY <1>3, <1>4, FS_Subset
<1>6. QED
  BY <1>1, <1>3, <1>5

\* A table whose entries have the same identifiers, counts and sizes adds up alike.
LEMMA BookedSame ==
    ASSUME NEW T \in TableType, NEW U, Len(U.infos) = Len(T.infos),
           \A j \in 1..Len(T.infos) : /\ U.infos[j].tid = T.infos[j].tid
                                      /\ U.infos[j].count = T.infos[j].count
                                      /\ U.infos[j].size = T.infos[j].size
    PROVE  \A t, c, z : Booked(T, t, c, z) => Booked(U, t, c, z)
<1>1. SUFFICES ASSUME NEW t, NEW c, NEW z, Booked(T, t, c, z) PROVE Booked(U, t, c, z)
  OBVIOUS
<1> DEFINE E == Entries(T, t)
           L == T.infos
           M == U.infos
<1>2. Entries(U, t) = E
  BY DEF Entries
<1>3. IsFiniteSet(E) /\ \A e \in E : e \in 1..Len(T.infos)
  BY EntriesFinite
<1>4. \A e \in E : L[e]["count"] = M[e]["count"] /\ L[e]["size"] = M[e]["size"]
  BY <1>3
<1> HIDE DEF E, L, M
<1>5. FieldSum(L, "count", E) = FieldSum(M, "count", E)
  BY <1>3, <1>4, FieldSumSame
<1>6. FieldSum(L, "size", E) = FieldSum(M, "size", E)
  BY <1>3, <1>4, FieldSumSame
<1>7. QED
  BY <1>1, <1>2, <1>5, <1>6 DEF Booked, E, L, M

\* So does one with a further entry that counts nothing.
LEMMA BookedMore ==
    ASSUME NEW T \in TableType, NEW U, Len(U.infos) = Len(T.infos) + 1,
           \A j \in 1..Len(T.infos) : U.infos[j] = T.infos[j],
           U.infos[Len(T.infos) + 1].count = 0, U.infos[Len(T.infos) + 1].size = 0
    PROVE  \A t, c, z : Booked(T, t, c, z) => Booked(U, t, c, z)
<1>1. SUFFICES ASSUME NEW t, NEW c, NEW z, Booked(T, t, c, z) PROVE Booked(U, t, c, z)
  OBVIOUS
<1> DEFINE E == Entries(T, t)
           L == T.infos
           M == U.infos
           n == Len(T.infos) + 1
<1>2. Len(T.infos) \in Nat /\ 1..n = 1..Len(T.infos) \cup {n} /\ n \notin 1..Len(T.infos)
  <2>1. Len(T.infos) \in Nat
    BY EntryFacts
  <2>2. QED
    BY <2>1
<1>3. /\ IsFiniteSet(E) /\ \A e \in E : e \in 1..Len(T.infos)
      /\ \A e \in E : L[e]["count"] \in Nat /\ L[e]["size"] \in Nat
  BY EntriesFinite
<1>4. \A e \in E : L[e]["count"] = M[e]["count"] /\ L[e]["size"] = M[e]["size"]
  BY <1>3
<1>5. n \notin E /\ M[n]["count"] = 0 /\ M[n]["size"] = 0
  BY <1>2, <1>3
<1>6. Entries(U, t) = E \/ Entries(U, t) = E \cup {n}
  BY <1>2 DEF Entries
<1> HIDE DEF E, L, M, n
<1>7. /\ FieldSum(M, "count", E) = FieldSum(L, "count", E) /\ FieldSum(M, "count", E) \in Nat
      /\ FieldSum(M, "size", E) = FieldSum(L, "size", E) /\ FieldSum(M, "size", E) \in Nat
  <2>1. FieldSum(L, "count", E) = FieldSum(M, "count", E) /\ FieldSum(L, "size", E) = FieldSum(M, "size", E)
    <3>1. FieldSum(L, "count", E) = FieldSum(M, "count", E)
      BY <1>3, <1>4, FieldSumSame
    <3>2. FieldSum(L, "size", E) = FieldSum(M, "size", E)
      BY <1>3, <1>4, FieldSumSame
    <3>3. QED
      BY <3>1, <3>2
  <2>2. FieldSum(L, "count", E) \in Nat
    BY <1>3, FieldSumNat
  <2>3. FieldSum(L, "size", E) \in Nat
    BY <1>3, FieldSumNat
  <2>4. QED
    BY <2>1, <2>2, <2>3
<1>8. FieldSum(M, "count", E \cup {n}) = FieldSum(M, "count", E)
  <2>1. (\A e \in E : M[e]["count"] \in Nat) /\ M[n]["count"] \in Nat
    BY <1>3, <1>4, <1>5
  <2>2. FieldSum(M, "count", E \cup {n}) = M[n]["count"] + FieldSum(M, "count", E)
    BY <1>3, <1>5, <2>1, FieldSumAdd
  <2>3. QED
    BY <1>5, <1>7, <2>2
<1>9. FieldSum(M, "size", E \cup {n}) = FieldSum(M, "size", E)
  <2>1. (\A e \in E : M[e]["size"] \in Nat) /\ M[n]["size"] \in Nat
    BY <1>3, <1>4, <1>5
  <2>2. FieldSum(M, "size", E \cup {n}) = M[n]["size"] + FieldSum(M, "size", E)
    BY <1>3, <1>5, <2>1, FieldSumAdd
  <2>3. QED
    BY <1>5, <1>7, <2>2
<1>10. /\ FieldSum(M, "count", Entries(U, t)) = FieldSum(L, "count", E)
       /\ FieldSum(M, "size", Entries(U, t)) = FieldSum(L, "size", E)
  BY <1>6, <1>7, <1>8, <1>9
<1>11. QED
  BY <1>1, <1>10 DEF Booked, E, L, M

\* Changing the counters of one entry changes what its identifier adds up to.
LEMMA BookedPut ==
    ASSUME NEW T \in TableType, NEW e \in 1..Len(T.infos), NEW info \in InfoType, NEW d \in Int, NEW y \in Int,
           info.tid = T.infos[e].tid, info.count = (T.infos[e].count + d) % CountRange,
           info.size = ToWord(T.infos[e].size + y)
    PROVE  LET U == [T EXCEPT !.infos[e] = info] IN
           /\ U \in TableType /\ Len(U.infos) = Len(T.infos) /\ U.listed = T.listed
           /\ \A t, c, z : t # info.tid /\ Booked(T, t, c, z) => Booked(U, t, c, z)
           /\ \A c \in Int, z \in Int : Booked(T, info.tid, c, z) => Booked(U, info.tid, c + d, z + y)
<1> DEFINE U == [T EXCEPT !.infos[e] = info]
           L == T.infos
           M == U.infos
<1>1. /\ U \in TableType /\ Len(U.infos) = Len(T.infos) /\ U.listed = T.listed
      /\ U.infos[e] = info /\ \A j \in 1..Len(T.infos) : j # e => U.infos[j] = T.infos[j]
  BY PutIs
<1>2. /\ L[e]["count"] \in Nat /\ L[e]["size"] \in Nat /\ info.count \in Nat /\ info.size \in Nat
  BY EntryFacts DEF InfoType
<1>3. \A t : Entries(U, t) = Entries(T, t)
  BY <1>1 DEF Entries
<1> HIDE DEF U
<1>4. \A t : /\ IsFiniteSet(Entries(T, t)) /\ Entries(T, t) \subseteq 1..Len(T.infos)
             /\ \A f \in Entries(T, t) : L[f]["count"] \in Nat /\ L[f]["size"] \in Nat
  BY EntriesFinite
<1>5. ASSUME NEW t, NEW c, NEW z, t # info.tid, Booked(T, t, c, z) PROVE Booked(U, t, c, z)
  <2> DEFINE E == Entries(T, t)
  <2>1. e \notin E
    BY <1>5 DEF Entries
  <2>2. IsFiniteSet(E) /\ \A f \in E : f \in 1..Len(T.infos)
    BY <1>4
  <2>3. \A f \in E : L[f]["count"] = M[f]["count"] /\ L[f]["size"] = M[f]["size"]
    BY <1>1, <2>1, <2>2
  <2>4. Entries(U, t) = E
    BY <1>3
  <2> HIDE DEF E, L, M
  <2>5. FieldSum(L, "count", E) = FieldSum(M, "count", E)
    BY <2>2, <2>3, FieldSumSame
  <2>6. FieldSum(L, "size", E) = FieldSum(M, "size", E)
    BY <2>2, <2>3, FieldSumSame
  <2>7. QED
    BY <1>5, <2>4, <2>5, <2>6 DEF Booked, E, L, M
<1>6. ASSUME NEW c \in Int, NEW z \in Int, Booked(T, info.tid, c, z) PROVE Booked(U, info.tid, c + d, z + y)
  <2> DEFINE E == Entries(T, info.tid)
             n == FieldSum(L, "count", E)
             s == FieldSum(L, "size", E)
             k == L[e]["count"]
             l == L[e]["size"]
  <2>1. e \in E
    BY DEF Entries
  <2>2. /\ IsFiniteSet(E) /\ \A f \in E : f \in 1..Len(T.infos)
        /\ \A f \in E : L[f]["count"] \in Nat /\ L[f]["size"] \in Nat
    BY <1>4
  <2>3. \A f \in E \ {e} : L[f]["count"] = M[f]["count"] /\ L[f]["size"] = M[f]["size"]
    BY <1>1, <2>2
  <2>4. M[e]["count"] = (k + d) % CountRange /\ M[e]["size"] = (l + y) % WordRange
    BY <1>1 DEF ToWord
  <2>5. M[e]["count"] \in Nat /\ M[e]["size"] \in Nat
    BY <1>1, <1>2
  <2>6. Entries(U, info.tid) = E
    BY <1>3
  <2>7. n % CountRange = c % CountRange /\ s % WordRange = z % WordRange
    BY <1>6 DEF Booked, ToWord
  <2>8. k \in Nat /\ l \in Nat
    BY <1>2
  <2> HIDE DEF E, L, M, k, l
  <2>9. n \in Nat /\ FieldSum(M, "count", E) = n + (M[e]["count"] - k)
    <3>1. IsFiniteSet(E) /\ \A x \in E : L[x]["count"] \in Nat
      BY <2>2
    <3>2. \A x \in E \ {e} : L[x]["count"] = M[x]["count"]
      BY <2>3
    <3>3. n \in Nat
      BY ONLY <3>1, FieldSumNat DEF n
    <3>4. n = k + FieldSum(L, "count", E \ {e})
      <4>1. \A x \in E : FieldSum(L, "count", E) = L[x]["count"] + FieldSum(L, "count", E \ {x})
        BY ONLY <3>1, FieldSumRemove
      <4>2. QED
        BY <2>1, <4>1 DEF k
    <3>5. IsFiniteSet(E) /\ \A x \in E : M[x]["count"] \in Nat
      BY <2>5, <3>1, <3>2
    <3>6. FieldSum(M, "count", E) = M[e]["count"] + FieldSum(M, "count", E \ {e})
      <4>1. \A x \in E : FieldSum(M, "count", E) = M[x]["count"] + FieldSum(M, "count", E \ {x})
        BY ONLY <3>5, FieldSumRemove
      <4>2. QED
        BY <2>1, <4>1
    <3>7. IsFiniteSet(E \ {e})
      BY <3>1, FS_Subset
    <3>8. FieldSum(L, "count", E \ {e}) = FieldSum(M, "count", E \ {e})
      BY ONLY <3>2, <3>7, FieldSumSame
    <3>9. FieldSum(L, "count", E \ {e}) \in Nat
      BY <3>1, <3>7, FieldSumNat
    <3> HIDE DEF n
    <3>10. QED
      BY <2>5, <2>8, <3>3, <3>4, <3>6, <3>8, <3>9
  <2>10. s \in Nat /\ FieldSum(M, "size", E) = s + (M[e]["size"] - l)
    <3>1. IsFiniteSet(E) /\ \A x \in E : L[x]["size"] \in Nat
      BY <2>2
    <3>2. \A x \in E \ {e} : L[x]["size"] = M[x]["size"]
      BY <2>3
    <3>3. s \in Nat
      BY ONLY <3>1, FieldSumNat DEF s
    <3>4. s = l + FieldSum(L, "size", E \ {e})
      <4>1. \A x \in E : FieldSum(L, "size", E) = L[x]["size"] + FieldSum(L, "size", E \ {x})
        BY ONLY <3>1, FieldSumRemove
      <4>2. QED
        BY <2>1, <4>1 DEF l
    <3>5. IsFiniteSet(E) /\ \A x \in E : M[x]["size"] \in Nat
      BY <2>5, <3>1, <3>2
    <3>6. FieldSum(M, "size", E) = M[e]["size"] + FieldSum(M, "size", E \ {e})
      <4>1. \A x \in E : FieldSum(M, "size", E) = M[x]["size"] + FieldSum(M, "size", E \ {x})
        BY ONLY <3>5, FieldSumRemove
      <4>2. QED
        BY <2>1, <4>1
    <3>7. IsFiniteSet(E \ {e})
      BY <3>1, FS_Subset
    <3>8. FieldSum(L, "size", E \ {e}) = FieldSum(M, "size", E \ {e})
      BY ONLY <3>2, <3>7, FieldSumSame
    <3>9. FieldSum(L, "size", E \ {e}) \in Nat
      BY <3>1, <3>7, FieldSumNat
    <3> HIDE DEF s
    <3>10. QED
      BY <2>5, <2>8, <3>3, <3>4, <3>6, <3>8, <3>9
  <2> HIDE DEF n, s
  <2>11. CountRange \in Nat \ {0} /\ WordRange \in Nat \ {0}
    BY CountAssumption, RangeAssumption
  <2>12. FieldSum(M, "count", E) % CountRange = (c + d) % CountRange
    <3>1. n \in Int /\ k \in Int /\ d \in Int /\ c \in Int
      BY <1>6, <2>8, <2>9
    <3>2. Moved(CountRange, n, k, d) % CountRange = (c + d) % CountRange
      <4>1. \A i, j, u, v \in Int : i % CountRange = v % CountRange => Moved(CountRange, i, j, u) % CountRange = (v + u) % CountRange
        BY <2>11, ModChange
      <4>2. QED
        BY <2>7, <3>1, <4>1
    <3>3. FieldSum(M, "count", E) = Moved(CountRange, n, k, d)
      BY <2>4, <2>9 DEF Moved
    <3>4. QED
      BY <3>2, <3>3
  <2>13. FieldSum(M, "size", E) % WordRange = (z + y) % WordRange
    <3>1. s \in Int /\ l \in Int /\ y \in Int /\ z \in Int
      BY <1>6, <2>8, <2>10
    <3>2. Moved(WordRange, s, l, y) % WordRange = (z + y) % WordRange
      <4>1. \A i, j, u, v \in Int : i % WordRange = v % WordRange => Moved(WordRange, i, j, u) % WordRange = (v + u) % WordRange
        BY <2>11, ModChange
      <4>2. QED
        BY <2>7, <3>1, <4>1
    <3>3. FieldSum(M, "size", E) = Moved(WordRange, s, l, y)
      BY <2>4, <2>10 DEF Moved
    <3>4. QED
      BY <3>2, <3>3
  <2>14. QED
    BY <2>6, <2>12, <2>13 DEF Booked, ToWord, M
<1>7. QED
  BY <1>1, <1>5, <1>6 DEF U

\* operations of threads, with sizes
Sized(ops, S) ==
    IsFiniteSet(S) /\ \A i \in S : ops[i].thread \in TidType /\ ops[i].size \in Nat

\* What is shown for an identifier is finite, and has a number and a size.
LEMMA OpsByFinite ==
    ASSUME NEW ops, NEW S, Sized(ops, S)
    PROVE  \A t : /\ IsFiniteSet(OpsBy(ops, S, t)) /\ OpsBy(ops, S, t) \subseteq S
                  /\ \A i \in OpsBy(ops, S, t) : ops[i].size \in Nat
                  /\ Cardinality(OpsBy(ops, S, t)) \in Nat
                  /\ SizeSum(ops, OpsBy(ops, S, t)) \in Nat
<1>1. SUFFICES ASSUME NEW t
               PROVE  LET P == OpsBy(ops, S, t)
                      IN  /\ IsFiniteSet(P) /\ P \subseteq S /\ \A i \in P : ops[i].size \in Nat
                          /\ Cardinality(P) \in Nat /\ SizeSum(ops, P) \in Nat
  OBVIOUS
<1> DEFINE P == OpsBy(ops, S, t)
<1>2. P \subseteq S
  BY DEF OpsBy
<1>3. IsFiniteSet(P)
  BY <1>2, FS_Subset DEF Sized
<1>4. \A i \in P : ops[i].size \in Nat
  BY <1>2 DEF Sized
<1> HIDE DEF P
<1>5. Cardinality(P) \in Nat /\ SizeSum(ops, P) \in Nat
  BY <1>3, <1>4, FS_CardinalityType, SizeSumNat
<1>6. QED
  BY <1>2, <1>3, <1>4, <1>5 DEF P

\* A table whose entries have the same identifiers, counts and sizes is balanced
\* for the same operations.
LEMMA BalancedSame ==
    ASSUME NEW T \in TableType, NEW U, Len(U.infos) = Len(T.infos), U.listed = T.listed,
           \A j \in 1..Len(T.infos) : /\ U.infos[j].tid = T.infos[j].tid
                                      /\ U.infos[j].count = T.infos[j].count
                                      /\ U.infos[j].size = T.infos[j].size,
           NEW ops, NEW new, NEW S, Sized(ops, S), SameAt(new, ops, S), Balanced(T, ops, S)
    PROVE  Balanced(U, new, S)
<1>1. ASSUME NEW t \in TidType
      PROVE  Booked(U, t, Cardinality(OpsBy(new, S, t)), SizeSum(new, OpsBy(new, S, t)))
  <2> DEFINE P == OpsBy(ops, S, t)
  <2>1. Booked(T, t, Cardinality(P), SizeSum(ops, P))
    BY DEF Balanced
  <2>2. OpsBy(new, S, t) = P
    BY DEF OpsBy, SameAt
  <2>3. IsFiniteSet(P) /\ P \subseteq S
    BY OpsByFinite
  <2> HIDE DEF P
  <2>4. \A i \in P : ops[i].size = new[i].size
    BY <2>3 DEF SameAt
  <2>5. SizeSum(ops, P) = SizeSum(new, P)
    BY <2>3, <2>4, SizeSumSame
  <2>6. Booked(U, t, Cardinality(P), SizeSum(ops, P))
    BY <2>1, BookedSame
  <2>7. QED
    BY <2>2, <2>5, <2>6
<1>2. QED
  BY <1>1 DEF Balanced

\* A new entry leaves a balanced table balanced,
LEMMA EntryBalances ==
    ASSUME NEW T \in TableType, NEW tid \in TidType, \A f \in T.alive : T.infos[f].tid # tid,
           NEW ops, NEW S, Balanced(T, ops, S)
    PROVE  Balanced(AddEntry(T, tid), ops, S)
<1> DEFINE U == AddEntry(T, tid)
           n == Len(T.infos) + 1
<1>1. /\ U \in TableType /\ Len(U.infos) = n
      /\ \A j \in 1..Len(T.infos) : U.infos[j] = T.infos[j]
      /\ U.infos[n].count = 0 /\ U.infos[n].size = 0
      /\ U.listed = T.listed \cup {n}
  BY AddEntryIs
<1>2. 1..n = 1..Len(T.infos) \cup {n}
  <2>1. Len(T.infos) \in Nat
    BY EntryFacts
  <2>2. QED
    BY <2>1
<1> HIDE DEF U
<1>3. \A t, c, z : Booked(T, t, c, z) => Booked(U, t, c, z)
  BY <1>1, BookedMore
<1>4. QED
  BY <1>1, <1>2, <1>3 DEF Balanced, U

\* and so does the entry of a thread being looked up or created.
LEMMA LookupBalances ==
    ASSUME NEW T \in TableType, NEW tid \in TidType, NEW b \in BOOLEAN,
           NEW ops, NEW S, Sized(ops, S), Balanced(T, ops, S)
    PROVE  LET U == withThreadInfos(T, tid, b)
               e == getById(U, U.alive, tid)
           IN  /\ U \in TableType /\ Balanced(U, ops, S)
               /\ e \in 1..Len(U.infos) /\ U.infos[e] \in InfoType /\ U.infos[e].tid = tid
<1> DEFINE known == getById(T, T.alive, tid)
           R == Retire(T, tid)
           U == withThreadInfos(T, tid, b)
           e == getById(U, U.alive, tid)
<1>1. Len(T.infos) \in Nat /\ T.alive \subseteq 1..Len(T.infos)
  BY EntryFacts
<1>2. U \in TableType /\ e \in 1..Len(U.infos) /\ U.infos[e] \in InfoType
  BY WithThreadInfosType
<1>3. Balanced(U, ops, S)
  <2>1. CASE known = NULL
    <3>1. \A f \in T.alive : T.infos[f].tid # tid
      BY <1>1, <2>1, GetByIdIsIn
    <3>2. U = AddEntry(T, tid)
      BY <2>1 DEF withThreadInfos
    <3>3. QED
      BY <3>1, <3>2, EntryBalances
  <2>2. CASE known # NULL /\ ~b
    BY <2>2 DEF withThreadInfos
  <2>3. CASE known # NULL /\ b
    <3>1. /\ R \in TableType /\ Len(R.infos) = Len(T.infos) /\ R.listed = T.listed
          /\ R.alive = {f \in T.alive : T.infos[f].tid # tid}
          /\ \A j \in 1..Len(T.infos) : Agree(R.infos[j], T.infos[j])
      BY <2>3, RetireIs
    <3>2. \A j \in 1..Len(T.infos) : /\ R.infos[j].tid = T.infos[j].tid
                                     /\ R.infos[j].count = T.infos[j].count
                                     /\ R.infos[j].size = T.infos[j].size
      BY <3>1 DEF Agree
    <3>3. \A f \in R.alive : R.infos[f].tid # tid
      BY <1>1, <3>1, <3>2
    <3>4. U = AddEntry(R, tid)
      BY <2>3 DEF withThreadInfos
    <3> HIDE DEF R, U
    <3>5. Balanced(R, ops, S)
      <4>1. SameAt(ops, ops, S)
        BY DEF SameAt
      <4>2. QED
        BY <3>1, <3>2, <4>1, BalancedSame
    <3>6. QED
      BY <3>1, <3>3, <3>4, <3>5, EntryBalances
  <2>4. QED
    BY <2>1, <2>2, <2>3
<1>4. U.infos[e].tid = tid
  <2>1. Len(U.infos) \in Nat /\ U.alive \subseteq 1..Len(U.infos)
    BY <1>2, EntryFacts
  <2>2. e # NULL
    BY <1>2, CodeAssumption
  <2> HIDE DEF U
  <2>3. QED
    BY <2>1, <2>2, GetByIdIsIn
<1>5. QED
  BY <1>2, <1>3, <1>4

\* A release takes the operation off the sum, whichever entry of the identifier it is
\* booked on.
LEMMA ReleaseBalances ==
    ASSUME NEW T \in TableType, NEW ops, NEW S, NEW n \in S, Sized(ops, S), Balanced(T, ops, S),
           NEW e \in 1..Len(T.infos), T.infos[e].tid = ops[n].thread
    PROVE  LET W == [T EXCEPT !.infos[e] = Released(T.infos[e], ops[n])]
           IN  W \in TableType /\ Balanced(W, ops, S \ {n})
<1> DEFINE o == ops[n]
           info == Released(T.infos[e], o)
           W == [T EXCEPT !.infos[e] = info]
           R == S \ {n}
           P == OpsBy(ops, S, o.thread)
<1>1. T.infos[e] \in InfoType /\ T.infos[e].count \in Nat /\ T.infos[e].size \in Nat
  BY EntryFacts
<1>2. o.size \in Nat /\ o.thread \in TidType /\ -1 \in Int /\ -o.size \in Int
  BY DEF Sized
<1>3. /\ info \in InfoType /\ info.tid = o.thread
      /\ info.count = (T.infos[e].count - 1) % CountRange /\ info.size = ToWord(T.infos[e].size - o.size)
  BY <1>1, <1>2, ReleasedIs
<1> HIDE DEF o, info
<1>4. info.count = (T.infos[e].count + (-1)) % CountRange /\ info.size = ToWord(T.infos[e].size + (-o.size))
  <2>1. T.infos[e].count + (-1) = T.infos[e].count - 1 /\ T.infos[e].size + (-o.size) = T.infos[e].size - o.size
    BY <1>1, <1>2
  <2>2. QED
    BY <1>3, <2>1
<1>5. info.tid = T.infos[e].tid
  BY <1>3 DEF o
<1>6. /\ W \in TableType /\ Len(W.infos) = Len(T.infos) /\ W.listed = T.listed
      /\ \A t, c, z : t # info.tid /\ Booked(T, t, c, z) => Booked(W, t, c, z)
      /\ \A c \in Int, z \in Int : Booked(T, info.tid, c, z) => Booked(W, info.tid, c + (-1), z + (-o.size))
  BY <1>2, <1>3, <1>4, <1>5, BookedPut
<1> HIDE DEF W
<1>7. \A t \in TidType : Booked(T, t, Cardinality(OpsBy(ops, S, t)), SizeSum(ops, OpsBy(ops, S, t)))
  BY DEF Balanced
<1>8. ASSUME NEW t \in TidType
      PROVE  Booked(W, t, Cardinality(OpsBy(ops, R, t)), SizeSum(ops, OpsBy(ops, R, t)))
  <2>1. CASE t # o.thread
    <3>1. OpsBy(ops, R, t) = OpsBy(ops, S, t)
      BY <2>1 DEF OpsBy, o
    <3>2. QED
      BY <1>3, <1>6, <1>7, <2>1, <3>1
  <2>2. CASE t = o.thread
    <3>1. OpsBy(ops, R, t) = P \ {n} /\ n \in P
      BY <2>2 DEF OpsBy, o
    <3>2. /\ IsFiniteSet(P) /\ \A i \in P : ops[i].size \in Nat
          /\ Cardinality(P) \in Nat /\ SizeSum(ops, P) \in Nat
      BY OpsByFinite
    <3>3. IsFiniteSet(P \ {n}) /\ \A i \in P \ {n} : ops[i].size \in Nat
      BY <3>2, FS_Subset
    <3> HIDE DEF P
    <3>4. SizeSum(ops, P \ {n}) \in Nat
      BY <3>3, SizeSumNat
    <3>5. SizeSum(ops, P) = ops[n].size + SizeSum(ops, P \ {n})
      BY <3>1, <3>2, SizeSumRemove
    <3>6. SizeSum(ops, P) + (-o.size) = SizeSum(ops, P \ {n})
      BY <1>2, <3>2, <3>4, <3>5 DEF o
    <3>7. Cardinality(P) + (-1) = Cardinality(P \ {n})
      <4>1. Cardinality(P \ {n}) = Cardinality(P) - 1
        BY <3>1, <3>2, FS_RemoveElement
      <4>2. QED
        BY <3>2, <4>1
    <3>8. Booked(T, info.tid, Cardinality(P), SizeSum(ops, P))
      BY <1>2, <1>3, <1>7 DEF P
    <3>9. Cardinality(P) \in Int /\ SizeSum(ops, P) \in Int
      BY <3>2
    <3>10. Booked(W, info.tid, Cardinality(P) + (-1), SizeSum(ops, P) + (-o.size))
      BY <1>6, <3>8, <3>9
    <3>11. QED
      BY <1>3, <2>2, <3>1, <3>6, <3>7, <3>10
  <2>3. QED
    BY <2>1, <2>2
<1>9. W.listed = 1..Len(W.infos)
  BY <1>6 DEF Balanced
<1>10. Balanced(W, ops, R)
  BY <1>8, <1>9 DEF Balanced
<1>11. QED
  BY <1>6, <1>10 DEF W, info, o, R

\* A freed block is booked on some entry of the thread that allocated it.
LEMMA FreeBalances ==
    ASSUME NEW T \in TableType, NEW ops, NEW S, NEW n \in S, Sized(ops, S), Balanced(T, ops, S)
    PROVE  AddFree(T, ops[n]) \in TableType /\ Balanced(AddFree(T, ops[n]), ops, S \ {n})
<1> DEFINE o == ops[n]
           known == getThreadInfosForMsgNum(T, o.thread, o.num)
           U == IF known = NULL THEN withThreadInfos(T, o.thread, FALSE) ELSE T
           e == IF known = NULL THEN getById(U, U.alive, o.thread) ELSE known
           W == [U EXCEPT !.infos[e] = Released(U.infos[e], o)]
<1>1. o.thread \in TidType
  BY DEF Sized
<1>2. AddFree(T, o) = W
  BY DEF AddFree
<1>3. U \in TableType /\ Balanced(U, ops, S) /\ e \in 1..Len(U.infos) /\ U.infos[e].tid = o.thread
  <2>1. CASE known = NULL
    <3> DEFINE V == withThreadInfos(T, o.thread, FALSE)
               f == getById(V, V.alive, o.thread)
    <3>1. U = V /\ e = f
      BY <2>1
    <3> HIDE DEF o, U, e
    <3>2. V \in TableType /\ Balanced(V, ops, S) /\ f \in 1..Len(V.infos) /\ V.infos[f].tid = o.thread
      BY <1>1, LookupBalances
    <3>3. QED
      BY <3>1, <3>2
  <2>2. CASE known # NULL
    <3>1. U = T /\ e = known
      BY <2>2
    <3>2. /\ Len(T.infos) \in Nat /\ T.alive \subseteq 1..Len(T.infos)
          /\ T.listed \subseteq 1..Len(T.infos)
      BY EntryFacts DEF Balanced
    <3> DEFINE a == getByIdAndMsgNum(T, T.alive, o.thread, o.num)
               l == getByIdAndMsgNum(T, T.listed, o.thread, o.num)
    <3>3. known = IF a # NULL THEN a ELSE l
      BY DEF getThreadInfosForMsgNum
    <3> HIDE DEF o, U, e, known
    <3>4. a # NULL => a \in 1..Len(T.infos) /\ T.infos[a].tid = o.thread
      BY <3>2, GetByIdAndMsgNumIsIn
    <3>5. l # NULL => l \in 1..Len(T.infos) /\ T.infos[l].tid = o.thread
      BY <3>2, GetByIdAndMsgNumIsIn
    <3>6. QED
      BY <2>2, <3>1, <3>3, <3>4, <3>5
  <2>3. QED
    BY <2>1, <2>2
<1> HIDE DEF U, e
<1>4. W \in TableType /\ Balanced(W, ops, S \ {n})
  BY <1>3, ReleaseBalances
<1>5. QED
  BY <1>2, <1>4

\* An allocation is booked on the entry that is alive.
LEMMA AllocBalances ==
    ASSUME NEW T \in TableType, NEW ops, NEW new, NEW S, NEW n, NEW o, n \notin S,
           Sized(ops, S), SameAt(new, ops, S), Balanced(T, ops, S),
           o.thread \in TidType, o.num \in Nat, o.size \in Nat,
           new[n].thread = o.thread, new[n].size = o.size
    PROVE  AddAlloc(T, o) \in TableType /\ Balanced(AddAlloc(T, o), new, S \cup {n})
<1> DEFINE U == withThreadInfos(T, o.thread, FALSE)
           e == getById(U, U.alive, o.thread)
           info == Allocated(U.infos[e], o)
           W == [U EXCEPT !.infos[e] = info]
           R == S \cup {n}
           P == OpsBy(new, S, o.thread)
<1>1. AddAlloc(T, o) = W
  BY DEF AddAlloc
<1>2. /\ U \in TableType /\ Balanced(U, ops, S)
      /\ e \in 1..Len(U.infos) /\ U.infos[e] \in InfoType /\ U.infos[e].tid = o.thread
  BY LookupBalances
<1> HIDE DEF U, e
<1>3. /\ info \in InfoType /\ info.tid = o.thread
      /\ info.count = (U.infos[e].count + 1) % CountRange /\ info.size = ToWord(U.infos[e].size + o.size)
  BY <1>2, AllocatedIs
<1> HIDE DEF info
<1>4. /\ W \in TableType /\ Len(W.infos) = Len(U.infos) /\ W.listed = U.listed
      /\ \A t, c, z : t # info.tid /\ Booked(U, t, c, z) => Booked(W, t, c, z)
      /\ \A c \in Int, z \in Int : Booked(U, info.tid, c, z) => Booked(W, info.tid, c + 1, z + o.size)
  <2>1. 1 \in Int /\ o.size \in Int
    OBVIOUS
  <2>2. QED
    BY <1>2, <1>3, <2>1, BookedPut
<1> HIDE DEF W
<1>5. Balanced(U, new, S) /\ Sized(new, S)
  <2>1. Balanced(U, new, S)
    BY <1>2, BalancedSame
  <2>2. Sized(new, S)
    BY DEF Sized, SameAt
  <2>3. QED
    BY <2>1, <2>2
<1>6. \A t \in TidType : Booked(U, t, Cardinality(OpsBy(new, S, t)), SizeSum(new, OpsBy(new, S, t)))
  BY <1>5 DEF Balanced
<1>7. ASSUME NEW t \in TidType
      PROVE  Booked(W, t, Cardinality(OpsBy(new, R, t)), SizeSum(new, OpsBy(new, R, t)))
  <2>1. CASE t # o.thread
    <3>1. OpsBy(new, R, t) = OpsBy(new, S, t)
      BY <2>1 DEF OpsBy
    <3>2. QED
      BY <1>3, <1>4, <1>6, <2>1, <3>1
  <2>2. CASE t = o.thread
    <3>1. OpsBy(new, R, t) = P \cup {n} /\ n \notin P
      BY <2>2 DEF OpsBy
    <3>2. /\ IsFiniteSet(P) /\ \A i \in P : new[i].size \in Nat
          /\ Cardinality(P) \in Nat /\ SizeSum(new, P) \in Nat
      BY <1>5, OpsByFinite
    <3> HIDE DEF P
    <3>3. SizeSum(new, P \cup {n}) = SizeSum(new, P) + o.size
      <4>1. SizeSum(new, P \cup {n}) = new[n].size + SizeSum(new, P)
        BY <3>1, <3>2, SizeSumAdd
      <4>2. QED
        BY <3>2, <4>1
    <3>4. Cardinality(P \cup {n}) = Cardinality(P) + 1
      BY <3>1, <3>2, FS_AddElement
    <3>5. Booked(U, info.tid, Cardinality(P), SizeSum(new, P))
      BY <1>3, <1>6 DEF P
    <3>6. Cardinality(P) \in Int /\ SizeSum(new, P) \in Int
      BY <3>2
    <3>7. Booked(W, info.tid, Cardinality(P) + 1, SizeSum(new, P) + o.size)
      BY <1>4, <3>5, <3>6
    <3>8. QED
      BY <1>3, <2>2, <3>1, <3>3, <3>4, <3>7
  <2>3. QED
    BY <2>1, <2>2
<1>8. Balanced(W, new, R)
  BY <1>2, <1>4, <1>7 DEF Balanced
<1>9. QED
  BY <1>1, <1>4, <1>8

\* The start and the name of a thread are not part of the sum.
LEMMA ThreadBalances ==
    ASSUME NEW T \in TableType, NEW tid \in TidType, NEW num \in Nat,
           NEW ops, NEW S, Sized(ops, S), Balanced(T, ops, S)
    PROVE  /\ Created(T, tid, num) \in TableType /\ Balanced(Created(T, tid, num), ops, S)
           /\ Named(T, tid) \in TableType /\ Balanced(Named(T, tid), ops, S)
<1>1. ASSUME NEW b \in BOOLEAN, NEW W, NEW info \in InfoType,
             LET U == withThreadInfos(T, tid, b)
                 e == getById(U, U.alive, tid)
             IN  /\ W = [U EXCEPT !.infos[e] = info] /\ info.tid = U.infos[e].tid
                 /\ info.count = U.infos[e].count /\ info.size = U.infos[e].size
      PROVE  W \in TableType /\ Balanced(W, ops, S)
  <2> DEFINE U == withThreadInfos(T, tid, b)
             e == getById(U, U.alive, tid)
  <2>1. U \in TableType /\ Balanced(U, ops, S) /\ e \in 1..Len(U.infos)
    BY LookupBalances
  <2>2. /\ W = [U EXCEPT !.infos[e] = info] /\ info.tid = U.infos[e].tid
        /\ info.count = U.infos[e].count /\ info.size = U.infos[e].size
    BY <1>1
  <2> HIDE DEF U, e
  <2>3. /\ W \in TableType /\ Len(W.infos) = Len(U.infos) /\ W.listed = U.listed
        /\ W.infos[e] = info /\ \A j \in 1..Len(U.infos) : j # e => W.infos[j] = U.infos[j]
    BY <2>1, <2>2, PutIs
  <2>4. \A j \in 1..Len(U.infos) : /\ W.infos[j].tid = U.infos[j].tid
                                   /\ W.infos[j].count = U.infos[j].count
                                   /\ W.infos[j].size = U.infos[j].size
    BY <2>2, <2>3
  <2>5. SameAt(ops, ops, S)
    BY DEF SameAt
  <2>6. Balanced(W, ops, S)
    BY <2>1, <2>3, <2>4, <2>5, BalancedSame
  <2>7. QED
    BY <2>3, <2>6
<1>2. Created(T, tid, num) \in TableType /\ Balanced(Created(T, tid, num), ops, S)
  <2> DEFINE U == withThreadInfos(T, tid, TRUE)
             e == getById(U, U.alive, tid)
             info == [U.infos[e] EXCEPT !.creation = num, !.last = num]
             W == [U EXCEPT !.infos[e] = info]
  <2>1. e \in 1..Len(U.infos) /\ U.infos[e] \in InfoType /\ U \in TableType
    BY LookupBalances
  <2>2. Created(T, tid, num) = W
    BY <2>1 DEF Created, TableType
  <2>3. /\ info \in InfoType /\ info.tid = U.infos[e].tid
        /\ info.count = U.infos[e].count /\ info.size = U.infos[e].size
    BY <2>1 DEF InfoType
  <2> HIDE DEF info
  <2>4. QED
    BY <1>1, <2>2, <2>3
<1>3. Named(T, tid) \in TableType /\ Balanced(Named(T, tid), ops, S)
  <2> DEFINE U == withThreadInfos(T, tid, FALSE)
             e == getById(U, U.alive, tid)
             info == [U.infos[e] EXCEPT !.name = "set"]
             W == [U EXCEPT !.infos[e] = info]
  <2>1. e \in 1..Len(U.infos) /\ U.infos[e] \in InfoType
    BY LookupBalances
  <2>2. Named(T, tid) = W
    BY DEF Named
  <2>3. /\ info \in InfoType /\ info.tid = U.infos[e].tid
        /\ info.count = U.infos[e].count /\ info.size = U.infos[e].size
    BY <2>1 DEF InfoType, ThreadName
  <2> HIDE DEF info
  <2>4. QED
    BY <1>1, <2>2, <2>3
<1>4. QED
  BY <1>2, <1>3

-----------------------------------------------------------------------------
(* The server keeps it balanced *)

BalanceInv == "restart" \notin Env => Balanced(Table, m_listMemoryOperation, Shown)

\* the operations shown have threads and sizes
LEMMA ShownSized ==
    ASSUME ListType
    PROVE  Sized(m_listMemoryOperation, Shown)
<1>1. \A i \in 1..Len(m_listMemoryOperation) : op(i) \in OpType
  BY ElementOfSeq DEF ListType, op
<1>2. QED
  BY <1>1, ShownIsFinite DEF Sized, OpType, TidType, op

LEMMA MemoryBalances ==
    ASSUME TypeInv, ListFormed, NEW m \in MsgType, Formed(m), m.code \in MemoryCode,
           addMemoryOperation(m), Balanced(Table, m_listMemoryOperation, Shown)
    PROVE  Balanced(Table, m_listMemoryOperation, Shown)'
<1> DEFINE freed == takeByPtrNotFreed(m.free)
           ops == m_listMemoryOperation
           new == m_listMemoryOperation'
           N == Len(ops)
           R == Shown \ {freed}
           T == IF freed = NULL THEN Table ELSE AddFree(Table, ops[freed])
           U == IF m.ptr = NULL THEN T ELSE AddAlloc(T, m)
<1>1. ListType /\ Table \in TableType
  BY DEF TypeInv
<1>2. N \in Nat /\ (\A j \in 1..N : ops[j] \in OpType) /\ NULL \notin 1..N
  <2>1. N \in Nat /\ \A j \in 1..N : ops[j] \in OpType
    BY <1>1, LenProperties, ElementOfSeq DEF ListType
  <2>2. QED
    BY <2>1, CodeAssumption
<1>3. Sized(ops, Shown) /\ Shown \subseteq 1..N
  BY <1>1, ShownSized, ShownIsFinite
<1>4. /\ Len(new) = N + 1
      /\ \A j \in 1..N : new[j] = Marked(freed)[j]
      /\ new[N + 1] = NewOp(m)
  BY <1>1, AddToLists
<1>5. /\ freed # NULL => freed \in Shown
      /\ Shown' = R \cup (IF m.code = "free" THEN {} ELSE {N + 1})
      /\ N + 1 \notin Shown
  BY <1>1, ShownAfterAdd
<1>6. SetTable(U)
  BY DEF addMemoryOperation
<1> HIDE DEF freed
<1>7. freed # NULL => freed \in 1..N
  BY <1>3, <1>5
<1>8. \A j \in 1..N : /\ new[j].thread = ops[j].thread /\ new[j].num = ops[j].num
                      /\ new[j].size = ops[j].size
  <2>1. \A j \in 1..N : new[j] = IF freed = NULL \/ j # freed THEN op(j) ELSE [op(j) EXCEPT !.freed = TRUE]
    BY <1>1, <1>4, <1>7, MarkedIsList
  <2>2. QED
    BY <1>2, <2>1 DEF OpType, op
<1>9. new[N + 1].thread = m.thread /\ new[N + 1].size = m.size
  BY <1>4 DEF NewOp
<1> HIDE DEF new
<1>10. SameAt(new, ops, R)
  BY <1>3, <1>8 DEF SameAt
<1>11. Sized(ops, R)
  <2>1. IsFiniteSet(R)
    BY <1>3, FS_Subset DEF Sized
  <2>2. QED
    BY <1>3, <2>1 DEF Sized
<1>12. T \in TableType /\ Balanced(T, ops, R)
  <2>1. CASE freed = NULL
    <3>1. R = Shown
      BY <1>2, <1>3, <2>1
    <3>2. QED
      BY <1>1, <2>1, <3>1
  <2>2. CASE freed # NULL
    <3> HIDE DEF ops
    <3>1. freed \in Shown /\ T = AddFree(Table, ops[freed])
      BY <1>5, <2>2
    <3> HIDE DEF T
    <3>2. QED
      BY <1>1, <1>3, <3>1, FreeBalances DEF ops
  <2>3. QED
    BY <2>1, <2>2
<1>13. m.thread \in TidType /\ m.num \in Nat /\ m.size \in Nat
  BY DEF MsgType, MsgRecord, TidType
<1>14. m.ptr = NULL <=> m.code = "free"
  BY DEF Formed, MemoryCode
<1> HIDE DEF T
<1>15. U \in TableType /\ Balanced(U, new, Shown')
  <2>1. CASE m.code = "free"
    <3>1. U = T /\ Shown' = R
      BY <1>5, <1>14, <2>1
    <3>2. Balanced(T, new, R)
      BY <1>10, <1>11, <1>12, BalancedSame
    <3>3. QED
      BY <1>12, <3>1, <3>2
  <2>2. CASE m.code # "free"
    <3> DEFINE n == N + 1
    <3>1. U = AddAlloc(T, m) /\ Shown' = R \cup {n} /\ n \notin R
      BY <1>5, <1>14, <2>2
    <3>2. new[n].thread = m.thread /\ new[n].size = m.size
      BY <1>9
    <3> HIDE DEF ops, R, n
    <3>3. AddAlloc(T, m) \in TableType /\ Balanced(AddAlloc(T, m), new, R \cup {n})
      BY <1>10, <1>11, <1>12, <1>13, <3>1, <3>2, AllocBalances
    <3>4. QED
      BY <3>1, <3>3
  <2>3. QED
    BY <2>1, <2>2
<1> HIDE DEF U
<1>16. Table' = U
  BY <1>6, <1>15, SetTableIs
<1>17. QED
  BY <1>15, <1>16 DEF new

LEMMA OtherBalances ==
    ASSUME TypeInv, NEW m \in MsgType, Balanced(Table, m_listMemoryOperation, Shown),
           (m.code \in ThreadCode /\ updateThreadInfos(m)) \/ addBacktrace(m)
    PROVE  Balanced(Table, m_listMemoryOperation, Shown)'
<1> DEFINE ops == m_listMemoryOperation
           new == m_listMemoryOperation'
           N == Len(ops)
<1>1. ListType /\ Table \in TableType
  BY DEF TypeInv
<1>2. Sized(ops, Shown) /\ Shown \subseteq 1..N
  BY <1>1, ShownSized, ShownIsFinite
<1>3. Shown' = Shown
  BY <1>1, ShownAfterOther
<1>4. CASE m.code \in ThreadCode /\ updateThreadInfos(m)
  <2> DEFINE U == IF m.code = "pthread_create" THEN Created(Table, m.tid, m.num) ELSE Named(Table, m.tid)
  <2>1. SetTable(U) /\ new = ops
    BY <1>4 DEF updateThreadInfos, Created, Named, listVars
  <2>2. m.tid \in TidType /\ m.num \in Nat
    BY DEF MsgType, MsgRecord, TidType
  <2>3. U \in TableType /\ Balanced(U, ops, Shown)
    BY <1>1, <1>2, <2>2, ThreadBalances
  <2> HIDE DEF U
  <2>4. Table' = U
    BY <2>1, <2>3, SetTableIs
  <2>5. QED
    BY <1>3, <2>1, <2>3, <2>4
<1>5. CASE addBacktrace(m)
  <2>1. setBacktrace(m) /\ Table' = Table
    BY <1>5 DEF addBacktrace, threadVars, Table
  <2>2. /\ Len(new) = N
        /\ \A j \in 1..N : new[j] = IF j = takeByMsgNum(m.origin) THEN [op(j) EXCEPT !.bt = m.num] ELSE op(j)
    BY <1>1, <2>1, SetBacktraceList
  <2>3. \A j \in 1..N : op(j) \in OpType
    BY <1>1, ElementOfSeq DEF ListType, op
  <2>4. \A j \in 1..N : /\ new[j].thread = op(j).thread /\ new[j].num = op(j).num
                        /\ new[j].size = op(j).size
    BY <2>2, <2>3 DEF OpType
  <2>5. SameAt(new, ops, Shown)
    BY <1>2, <2>4 DEF SameAt, op
  <2> HIDE DEF new
  <2>6. Balanced(Table, new, Shown)
    BY <1>1, <1>2, <2>5, BalancedSame
  <2>7. QED
    BY <1>3, <2>1, <2>6 DEF new
<1>6. QED
  BY <1>4, <1>5

\* Nothing shown and no entry: nothing adds up to nothing.
LEMMA EmptyBalances ==
    ASSUME NEW T, NEW ops, T.infos = <<>>, T.listed = {}
    PROVE  Balanced(T, ops, {})
<1>1. Len(<<>>) = 0 /\ 1..0 = {}
  OBVIOUS
<1>2. \A t : Entries(T, t) = {} /\ OpsBy(ops, {}, t) = {}
  BY <1>1 DEF Entries, OpsBy
<1>3. /\ FieldSum(T.infos, "count", {}) = 0 /\ FieldSum(T.infos, "size", {}) = 0
      /\ SizeSum(ops, {}) = 0 /\ Cardinality({}) = 0
  BY FieldSumEmpty, SizeSumEmpty, FS_EmptySet
<1>4. \A t : Booked(T, t, Cardinality(OpsBy(ops, {}, t)), SizeSum(ops, OpsBy(ops, {}, t)))
  BY <1>2, <1>3 DEF Booked
<1>5. QED
  BY <1>1, <1>4 DEF Balanced

LEMMA NextBalances == Inv /\ ChartInv /\ BalanceInv /\ [Next]_vars => BalanceInv'
<1> SUFFICES ASSUME Inv, ChartInv, BalanceInv, [Next]_vars PROVE BalanceInv'
  OBVIOUS
<1>1. UNCHANGED scenario
  BY DEF Next, Deliver, vars
<1>2. SUFFICES ASSUME "restart" \notin Env PROVE Balanced(Table, m_listMemoryOperation, Shown)'
  BY <1>1 DEF BalanceInv, Env
<1>3. TypeInv /\ FormedInv /\ LibType /\ Balanced(Table, m_listMemoryOperation, Shown)
  BY <1>2 DEF Inv, TypeInv, BalanceInv
<1>4. CASE UNCHANGED <<m_listMemoryOperation, threadInfos, m_listThreadInfos, m_listThreadInfosAlive>>
  BY <1>3, <1>4 DEF Table, Shown, op
<1>5. CASE Deliver
  <2> DEFINE m == Head(stream)
  <2>1. stream # <<>> /\ doProcessMsgV1(m)
    BY <1>5 DEF Deliver
  <2>2. /\ Len(stream) \in Nat /\ Len(stream) > 0 /\ m = stream[1] /\ m \in MsgType
    BY <1>3, <2>1, HeadIsFirst
  <2>3. 1 \in 1..Len(stream)
    BY <2>2
  <2> HIDE DEF m
  <2>4. Formed(m) /\ ListFormed
    BY <1>3, <2>2, <2>3 DEF FormedInv, SentFormed
  <2>5. CASE m.code = "init" /\ onNewConnection
    <3>1. threadInfos = <<>>
      BY <1>2, <2>2, <2>3, <2>5 DEF ChartInv, FirstProcess
    <3>2. threadInfos' = <<>> /\ m_listThreadInfos' = {}
      BY <2>5, <3>1 DEF onNewConnection, clearThreads
    <3>3. Table'.infos = <<>> /\ Table'.listed = {}
      BY <3>2 DEF Table
    <3>4. Shown' = {}
      BY <2>5, ShownAfterInit
    <3>5. Balanced(Table', m_listMemoryOperation', {})
      BY <3>3, EmptyBalances
    <3>6. QED
      BY <3>4, <3>5
  <2>6. CASE m.code \in MemoryCode /\ addMemoryOperation(m)
    BY <1>3, <2>2, <2>4, <2>6, MemoryBalances
  <2>7. CASE m.code \in ThreadCode /\ updateThreadInfos(m)
    BY <1>3, <2>2, <2>7, OtherBalances
  <2>8. CASE m.code = "backtrace" /\ addBacktrace(m)
    BY <1>3, <2>2, <2>8, OtherBalances
  <2>9. QED
    BY <2>1, <2>5, <2>6, <2>7, <2>8 DEF doProcessMsgV1
<1>6. QED
  BY <1>4, <1>5 DEF Next, vars, controllerVars, listVars, threadVars

\* Whatever misleads the bounds of the entries, a thread that runs before it is
\* reported or a creation that failed, no release is lost or booked on another
\* identifier (LeakDetector.ThreadUsageAddsUp).
THEOREM SpecThreadUsageAddsUp == Spec => []ThreadUsageAddsUp
<1>1. Init => BalanceInv
  <2>1. SUFFICES ASSUME Init PROVE Balanced(Table, m_listMemoryOperation, Shown)
    BY DEF BalanceInv
  <2>2. m_listMemoryOperation = <<>> /\ threadInfos = <<>> /\ m_listThreadInfos = {}
    BY <2>1 DEF Init, ControllerInit
  <2>3. Len(<<>>) = 0 /\ 1..0 = {}
    OBVIOUS
  <2>4. Table.infos = <<>> /\ Table.listed = {} /\ Shown = {}
    BY <2>2, <2>3 DEF Table, Shown
  <2>5. QED
    BY <2>4, EmptyBalances
<1>2. BalanceInv => ThreadUsageAddsUp
  <2>1. SUFFICES ASSUME Balanced(Table, m_listMemoryOperation, Shown), NEW t \in Thread
                 PROVE  /\ MapThenSumSet(LAMBDA e : threadInfos[e].count, EntriesOf(t)) % CountRange
                               = Cardinality(ShownOf(t)) % CountRange
                        /\ ToWord(MapThenSumSet(LAMBDA e : threadInfos[e].size, EntriesOf(t)))
                               = ToWord(SizeOfOps(ShownOf(t)))
    BY DEF BalanceInv, ThreadUsageAddsUp
  <2>2. t \in TidType
    BY DEF TidType
  <2>3. Booked(Table, t, Cardinality(OpsBy(m_listMemoryOperation, Shown, t)),
               SizeSum(m_listMemoryOperation, OpsBy(m_listMemoryOperation, Shown, t)))
    BY <2>1, <2>2 DEF Balanced
  <2>4. Table.infos = threadInfos /\ EntriesOf(t) = Entries(Table, t)
    BY <2>1 DEF EntriesOf, Entries, Balanced, Table
  <2>5. ShownOf(t) = OpsBy(m_listMemoryOperation, Shown, t)
    BY DEF ShownOf, OpsBy, op
  <2>6. SizeOfOps(ShownOf(t)) = SizeSum(m_listMemoryOperation, ShownOf(t))
    BY DEF SizeOfOps, SizeSum, FieldSum, op
  <2>7. /\ MapThenSumSet(LAMBDA e : threadInfos[e].count, EntriesOf(t))
               = FieldSum(threadInfos, "count", EntriesOf(t))
        /\ MapThenSumSet(LAMBDA e : threadInfos[e].size, EntriesOf(t))
               = FieldSum(threadInfos, "size", EntriesOf(t))
    BY DEF FieldSum
  <2>8. QED
    BY <2>3, <2>4, <2>5, <2>6, <2>7 DEF Booked
<1>3. QED
  BY <1>1, <1>2, NextBalances, SpecInv, SpecChart, PTL DEF Spec

=============================================================================

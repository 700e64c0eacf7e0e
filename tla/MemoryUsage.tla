---------------------------- MODULE MemoryUsage ----------------------------
(***************************************************************************)
(* server/Model/MemoryUsage.cpp: the largest remaining size seen in each   *)
(* second, for the chart.  A usage is a record                             *)
(*   first  m_iFirstTime,  last  m_iLastTime,                              *)
(*   sizes  m_listSizeByTimestamp, a function on the seconds it contains.  *)
(* Sizes are quint64; the code holds the current one in an int.            *)
(***************************************************************************)
EXTENDS Integers

CONSTANTS IntRange,     \* 2^32: values of an int
          WordRange     \* 2^64: values of a quint64

ASSUME RangeAssumption ==
    IntRange \in Nat /\ IntRange % 2 = 0 /\ 0 < IntRange
    /\ WordRange \in Nat /\ WordRange % IntRange = 0 /\ 0 < WordRange

\* conversion of a quint64 to int, and of an int to quint64
ToInt(x) == ((x + IntRange \div 2) % IntRange) - IntRange \div 2
ToWord(x) == x % WordRange

\* MemoryUsage::MemoryUsage and MemoryUsage::clear
EmptyUsage == [first |-> 0, last |-> 0, sizes |-> [t \in {} |-> 0]]

\* MemoryUsage::value
value(u, t) == IF t \in DOMAIN u.sizes THEN u.sizes[t] ELSE 0

Insert(u, t, size) ==
    [first |-> IF ToInt(value(u, t)) = 0 /\ u.first = 0 THEN t ELSE u.first,
     last  |-> t,
     sizes |-> [s \in DOMAIN u.sizes \cup {t} |-> IF s = t THEN size ELSE u.sizes[s]]]

\* Mutant: a second keeps the first size seen in it.
updateOnce(u, t, size) == IF ToInt(value(u, t)) = 0 THEN Insert(u, t, size) ELSE u

\* MemoryUsage::update
update(u, t, size) ==
    LET iCurrentSize == ToInt(value(u, t))
    IN  IF iCurrentSize = 0 \/ ToWord(iCurrentSize) < size THEN Insert(u, t, size) ELSE u
=============================================================================

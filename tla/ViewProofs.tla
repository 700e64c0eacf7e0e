----------------------------- MODULE ViewProofs -----------------------------
(***************************************************************************)
(* What View guarantees for every number of operations, sessions and       *)
(* seconds: the window is of the session its data is of, although          *)
(* clearData clears it from the receiving thread without asking the thread *)
(* that draws it; a search of the list agrees with the statistics; and the *)
(* chart has every second as it was when the timer left it behind.         *)
(*                                                                         *)
(* A thread is between two instructions of a script.  ScriptInv says what  *)
(* may be left of one, HoldInv which locks are held there, TypeInv what    *)
(* every variable is, and SessionInv what may still be of the last         *)
(* session there.  FilterInv says what a search has counted there, and     *)
(* that the statistics count the list they are of.  ChartInv says what is  *)
(* drawn there and still to be drawn, and which part of a reset is left.   *)
(***************************************************************************)
EXTENDS View, FiniteSums, SequenceTheorems, TLAPS

-----------------------------------------------------------------------------
(* Scripts *)

\* s comes to w; to b once it has come to a; and never to a after it came to b.
Has(s, w) == \E i \in 1..Len(s) : s[i] = Do(w)
Follows(s, a, b) == \A i \in 1..Len(s) : s[i] = Do(a) => \E j \in (i + 1)..Len(s) : s[j] = Do(b)
Precedes(s, a, b) == \A i \in 1..Len(s) : s[i] = Do(b) => \A j \in (i + 1)..Len(s) : s[j] # Do(a)

\* what the scripts of each thread do
GuiDoes == {"resetSearch", "clearFilter", "search", "clearRows", "countRows", "fetchTo", "threadRows", "usage", "draw"}
ClearDoes == {"clearOperations", "nothing", "resetSearch", "clearStats", "clearFilter", "clearRows",
              "clearThreadRows", "clearChart", "resetLastTime", "resetLastValue"}
ReceiverDoes == ClearDoes \cup {"count", "backtrace", "thread", "operation"}

\* the instructions of a script that takes and gives back locks, and does things
Instruction(locks, does) == {<<x, l>> : x \in locks, l \in Lock} \cup {Do(w) : w \in does}
GuiInstruction == Instruction({"read", "unlock"}, GuiDoes)
ReceiverInstruction == Instruction({"write", "unlock"}, ReceiverDoes)

\* A script that is not at its end has a next instruction and a rest.
LEMMA TailFacts ==
    ASSUME NEW S, NEW s \in Seq(S), s # <<>>
    PROVE  /\ Tail(s) \in Seq(S) /\ Head(s) = s[1] /\ Head(s) \in S
           /\ Len(s) \in Nat \ {0} /\ Len(Tail(s)) = Len(s) - 1
           /\ \A i \in 1..Len(Tail(s)) : Tail(s)[i] = s[i + 1]
<1>1. Len(s) \in Nat /\ Len(s) # 0
  BY LenProperties, EmptySeq
<1>2. QED
  BY <1>1, HeadTailProperties, ElementOfSeq

\* The rest of a script does what the script does, but for its first instruction.
LEMMA HasTail ==
    ASSUME NEW S, NEW s \in Seq(S), s # <<>>, NEW w
    PROVE  /\ Has(Tail(s), w) => Has(s, w)
           /\ Has(s, w) /\ Head(s) # Do(w) => Has(Tail(s), w)
<1>1. /\ Head(s) = s[1] /\ Len(s) \in Nat \ {0} /\ Len(Tail(s)) = Len(s) - 1
      /\ \A i \in 1..Len(Tail(s)) : Tail(s)[i] = s[i + 1]
  BY TailFacts
<1>2. ASSUME Has(Tail(s), w) PROVE Has(s, w)
  <2>1. PICK i \in 1..Len(Tail(s)) : Tail(s)[i] = Do(w)
    BY <1>2 DEF Has
  <2>2. i + 1 \in 1..Len(s) /\ s[i + 1] = Do(w)
    BY <1>1, <2>1
  <2>3. QED
    BY <2>2 DEF Has
<1>3. ASSUME Has(s, w), Head(s) # Do(w) PROVE Has(Tail(s), w)
  <2>1. PICK i \in 1..Len(s) : s[i] = Do(w)
    BY <1>3 DEF Has
  <2>2. i # 1
    BY <1>1, <1>3, <2>1
  <2>3. i - 1 \in 1..Len(Tail(s)) /\ Tail(s)[i - 1] = s[(i - 1) + 1] /\ (i - 1) + 1 = i
    BY <1>1, <2>2
  <2>4. QED
    BY <2>1, <2>3 DEF Has
<1>4. QED
  BY <1>2, <1>3

\* What must follow still must: in the rest of a script, and after its first instruction.
LEMMA FollowsTail ==
    ASSUME NEW S, NEW s \in Seq(S), s # <<>>, NEW a, NEW b, Follows(s, a, b)
    PROVE  /\ Follows(Tail(s), a, b)
           /\ Head(s) = Do(a) => Has(Tail(s), b)
           /\ Has(s, a) => Has(s, b)
<1>1. /\ Head(s) = s[1] /\ Len(s) \in Nat \ {0} /\ Len(Tail(s)) = Len(s) - 1
      /\ \A i \in 1..Len(Tail(s)) : Tail(s)[i] = s[i + 1]
  BY TailFacts
<1>2. ASSUME NEW i \in 0..Len(Tail(s)), s[i + 1] = Do(a)
      PROVE  \E j \in (i + 1)..Len(Tail(s)) : Tail(s)[j] = Do(b)
  <2>1. PICK j \in (i + 2)..Len(s) : s[j] = Do(b)
    <3>1. i + 1 \in 1..Len(s) /\ (i + 1) + 1 = i + 2
      BY <1>1
    <3>2. QED
      BY <1>2, <3>1 DEF Follows
  <2>2. j - 1 \in (i + 1)..Len(Tail(s)) /\ j - 1 \in 1..Len(Tail(s)) /\ (j - 1) + 1 = j
    BY <1>1
  <2>3. QED
    BY <1>1, <2>1, <2>2
<1>3. Follows(Tail(s), a, b)
  <2>1. SUFFICES ASSUME NEW i \in 1..Len(Tail(s)), Tail(s)[i] = Do(a)
                 PROVE  \E j \in (i + 1)..Len(Tail(s)) : Tail(s)[j] = Do(b)
    BY DEF Follows
  <2>2. i \in 0..Len(Tail(s)) /\ s[i + 1] = Do(a)
    BY <1>1, <2>1
  <2>3. QED
    BY <1>2, <2>2
<1>4. Head(s) = Do(a) => Has(Tail(s), b)
  <2>1. SUFFICES ASSUME Head(s) = Do(a) PROVE Has(Tail(s), b)
    OBVIOUS
  <2>2. 0 \in 0..Len(Tail(s)) /\ s[0 + 1] = Do(a) /\ 0 + 1 = 1
    BY <1>1, <2>1
  <2>3. QED
    BY <1>2, <2>2 DEF Has
<1>5. Has(s, a) => Has(s, b)
  <2>1. SUFFICES ASSUME NEW i \in 1..Len(s), s[i] = Do(a) PROVE Has(s, b)
    BY DEF Has
  <2>2. PICK j \in (i + 1)..Len(s) : s[j] = Do(b)
    BY <2>1 DEF Follows
  <2>3. j \in 1..Len(s)
    BY <1>1
  <2>4. QED
    BY <2>2, <2>3 DEF Has
<1>6. QED
  BY <1>3, <1>4, <1>5

\* What may not come any more does not: in the rest of a script, nor after its first
\* instruction.
LEMMA PrecedesTail ==
    ASSUME NEW S, NEW s \in Seq(S), s # <<>>, NEW a, NEW b, Precedes(s, a, b)
    PROVE  /\ Precedes(Tail(s), a, b)
           /\ Head(s) = Do(b) => ~Has(Tail(s), a)
<1>1. /\ Head(s) = s[1] /\ Len(s) \in Nat \ {0} /\ Len(Tail(s)) = Len(s) - 1
      /\ \A i \in 1..Len(Tail(s)) : Tail(s)[i] = s[i + 1]
  BY TailFacts
<1>2. ASSUME NEW i \in 0..Len(Tail(s)), s[i + 1] = Do(b), NEW j \in (i + 1)..Len(Tail(s))
      PROVE  Tail(s)[j] # Do(a)
  <2>1. i + 1 \in 1..Len(s) /\ j + 1 \in (i + 1 + 1)..Len(s) /\ j \in 1..Len(Tail(s))
    BY <1>1
  <2>2. s[j + 1] # Do(a)
    BY <1>2, <2>1 DEF Precedes
  <2>3. QED
    BY <1>1, <2>1, <2>2
<1>3. Precedes(Tail(s), a, b)
  <2>1. SUFFICES ASSUME NEW i \in 1..Len(Tail(s)), Tail(s)[i] = Do(b), NEW j \in (i + 1)..Len(Tail(s))
                 PROVE  Tail(s)[j] # Do(a)
    BY DEF Precedes
  <2>2. i \in 0..Len(Tail(s)) /\ s[i + 1] = Do(b)
    BY <1>1, <2>1
  <2>3. QED
    BY <1>2, <2>2
<1>4. Head(s) = Do(b) => ~Has(Tail(s), a)
  <2>1. SUFFICES ASSUME Head(s) = Do(b), NEW j \in 1..Len(Tail(s)), Tail(s)[j] = Do(a) PROVE FALSE
    BY DEF Has
  <2>2. 0 \in 0..Len(Tail(s)) /\ s[0 + 1] = Do(b) /\ j \in (0 + 1)..Len(Tail(s))
    BY <1>1, <2>1
  <2>3. QED
    BY <1>2, <2>1, <2>2
<1>5. QED
  BY <1>3, <1>4

\* the next instruction needs lock l: it gives it back, or uses the list it guards
Needs(x, l) == \/ x = Unlock(l)
               \/ l = "List" /\ x \in {Do("clearOperations"), Do("operation"), Do("backtrace"), Do("search")}
Takes(x, l) == x = Read(l) \/ x = Write(l)

\* s takes l before it needs it, from its beginning, or from where it gave it back
Guarded(s, l) == \A k \in 1..Len(s) : Needs(s[k], l) => \E j \in 1..(k - 1) : Takes(s[j], l)
Retakes(s, l) ==
    \A i \in 1..Len(s) : s[i] = Unlock(l) =>
        \A k \in (i + 1)..Len(s) : Needs(s[k], l) => \E j \in (i + 1)..(k - 1) : Takes(s[j], l)

\* A script whose next instruction needs a lock holds it, and a script that holds none
\* or gives it back takes it again before it needs it.
LEMMA GuardedTail ==
    ASSUME NEW S, NEW s \in Seq(S), s # <<>>, NEW l
    PROVE  /\ Guarded(s, l) => ~Needs(Head(s), l)
           /\ Guarded(s, l) /\ ~Takes(Head(s), l) => Guarded(Tail(s), l)
           /\ Retakes(s, l) /\ Head(s) = Unlock(l) => Guarded(Tail(s), l)
           /\ Retakes(s, l) => Retakes(Tail(s), l)
<1>1. /\ Head(s) = s[1] /\ Len(s) \in Nat \ {0} /\ Len(Tail(s)) = Len(s) - 1
      /\ \A i \in 1..Len(Tail(s)) : Tail(s)[i] = s[i + 1]
  BY TailFacts
<1>2. Guarded(s, l) => ~Needs(Head(s), l)
  <2>1. 1 \in 1..Len(s) /\ 1..(1 - 1) = {}
    BY <1>1
  <2>2. QED
    BY <1>1, <2>1 DEF Guarded
<1>3. ASSUME NEW i \in 0..Len(Tail(s)), NEW k \in (i + 1)..Len(Tail(s)), Needs(Tail(s)[k], l),
             NEW j \in (i + 2)..k, Takes(s[j], l)
      PROVE  \E m \in (i + 1)..(k - 1) : Takes(Tail(s)[m], l)
  <2>1. j - 1 \in (i + 1)..(k - 1) /\ j - 1 \in 1..Len(Tail(s)) /\ (j - 1) + 1 = j
    BY <1>1
  <2>2. QED
    BY <1>1, <1>3, <2>1
<1>4. ASSUME Guarded(s, l), ~Takes(Head(s), l) PROVE Guarded(Tail(s), l)
  <2>1. SUFFICES ASSUME NEW k \in 1..Len(Tail(s)), Needs(Tail(s)[k], l)
                 PROVE  \E j \in 1..(k - 1) : Takes(Tail(s)[j], l)
    BY DEF Guarded
  <2>2. k + 1 \in 1..Len(s) /\ Needs(s[k + 1], l) /\ (k + 1) - 1 = k
    BY <1>1, <2>1
  <2>3. PICK j \in 1..k : Takes(s[j], l)
    BY <1>4, <2>2 DEF Guarded
  <2>4. j # 1
    BY <1>1, <1>4, <2>3
  <2>5. j \in (0 + 2)..k /\ 0 \in 0..Len(Tail(s)) /\ k \in (0 + 1)..Len(Tail(s)) /\ 0 + 1 = 1
    BY <1>1, <2>4
  <2>6. QED
    BY <1>3, <2>1, <2>3, <2>5
<1>5. ASSUME NEW i \in 0..Len(Tail(s)), Retakes(s, l), s[i + 1] = Unlock(l),
             NEW k \in (i + 1)..Len(Tail(s)), Needs(Tail(s)[k], l)
      PROVE  \E j \in (i + 1)..(k - 1) : Takes(Tail(s)[j], l)
  <2>1. i + 1 \in 1..Len(s) /\ k + 1 \in ((i + 1) + 1)..Len(s) /\ Needs(s[k + 1], l)
    BY <1>1, <1>5
  <2>2. PICK j \in ((i + 1) + 1)..((k + 1) - 1) : Takes(s[j], l)
    BY <1>5, <2>1 DEF Retakes
  <2>3. j \in (i + 2)..k
    BY <1>1
  <2>4. QED
    BY <1>3, <1>5, <2>2, <2>3
<1>6. ASSUME Retakes(s, l), Head(s) = Unlock(l) PROVE Guarded(Tail(s), l)
  <2>1. SUFFICES ASSUME NEW k \in 1..Len(Tail(s)), Needs(Tail(s)[k], l)
                 PROVE  \E j \in 1..(k - 1) : Takes(Tail(s)[j], l)
    BY DEF Guarded
  <2>2. 0 \in 0..Len(Tail(s)) /\ s[0 + 1] = Unlock(l) /\ k \in (0 + 1)..Len(Tail(s)) /\ 0 + 1 = 1
    BY <1>1, <1>6
  <2>3. QED
    BY <1>5, <1>6, <2>1, <2>2
<1>7. ASSUME Retakes(s, l) PROVE Retakes(Tail(s), l)
  <2>1. SUFFICES ASSUME NEW i \in 1..Len(Tail(s)), Tail(s)[i] = Unlock(l),
                        NEW k \in (i + 1)..Len(Tail(s)), Needs(Tail(s)[k], l)
                 PROVE  \E j \in (i + 1)..(k - 1) : Takes(Tail(s)[j], l)
    BY DEF Retakes
  <2>2. i \in 0..Len(Tail(s)) /\ s[i + 1] = Unlock(l)
    BY <1>1, <2>1
  <2>3. QED
    BY <1>5, <1>7, <2>1, <2>2
<1>8. QED
  BY <1>2, <1>4, <1>6, <1>7

-----------------------------------------------------------------------------
(* The handlers and the order of what they do *)

\* The order in which clearData and the handlers work on what the window shows:
\* everything of a session that is cleared is followed by what is made of it, and the
\* time of the chart is reset after the statistics and before its value.
ReceiverOrder(s) ==
    /\ Follows(s, "clearOperations", "clearStats") /\ Follows(s, "clearOperations", "clearFilter")
    /\ Follows(s, "clearStats", "clearThreadRows") /\ Follows(s, "clearStats", "clearChart")
    /\ Follows(s, "clearFilter", "clearRows")
    /\ Follows(s, "clearStats", "clearFilter") /\ Follows(s, "resetSearch", "clearRows")
    /\ Precedes(s, "clearOperations", "resetSearch") /\ Precedes(s, "clearOperations", "clearFilter")
    /\ Precedes(s, "operation", "operation")
    /\ Precedes(s, "clearOperations", "clearOperations") /\ Precedes(s, "clearOperations", "clearStats")
    /\ Precedes(s, "clearStats", "clearStats")
    /\ Precedes(s, "clearFilter", "clearFilter") /\ Precedes(s, "clearFilter", "clearRows")
    /\ Precedes(s, "clearRows", "operation") /\ Precedes(s, "clearRows", "backtrace")
    /\ Follows(s, "clearStats", "resetLastTime") /\ Follows(s, "clearChart", "resetLastTime")
    /\ Precedes(s, "clearStats", "clearChart") /\ Precedes(s, "clearStats", "resetLastValue")
    /\ Precedes(s, "resetLastTime", "resetLastValue")
    /\ Precedes(s, "operation", "clearStats") /\ Precedes(s, "resetLastValue", "operation")

\* A callback that changed the rows it shows will count them again; it clears before it
\* searches, searches once, and gives the list back right after.  The timer looks at the
\* seconds once, and draws what it has found.
GuiOrder(s) ==
    /\ Follows(s, "clearFilter", "fetchTo") /\ Follows(s, "search", "fetchTo")
    /\ Follows(s, "clearRows", "fetchTo")
    /\ Precedes(s, "resetSearch", "search") /\ Precedes(s, "clearFilter", "search")
    /\ Precedes(s, "search", "search") /\ Precedes(s, "search", "fetchTo")
    /\ Follows(s, "usage", "draw") /\ Precedes(s, "usage", "usage")
    /\ \A i \in 1..(Len(s) - 1) : s[i + 1] = Unlock("List") => s[i] = Do("search")

\* what may be left of a script of each thread
ReceiverScript(s) ==
    s \in Seq(ReceiverInstruction) /\ (\A l \in Lock : Retakes(s, l)) /\ ReceiverOrder(s)

GuiScriptOK(s) ==
    s \in Seq(GuiInstruction) /\ (\A l \in Lock : Retakes(s, l)) /\ GuiOrder(s)

\* a callback that searches clears what was found before it does, and takes the list first
WholeSearch(s) ==
    /\ Has(s, "search") => Has(s, "resetSearch") /\ Has(s, "clearFilter")
    /\ s # <<>> => Head(s) # Unlock("List")

\* a handler that clears the rows or the statistics clears the operations first, and one
\* that resets the chart clears the statistics
WholeClear(s) ==
    /\ Has(s, "clearRows") => Has(s, "clearFilter") /\ Has(s, "clearOperations")
    /\ Has(s, "clearStats") => Has(s, "clearOperations")
    /\ Has(s, "resetLastValue") => Has(s, "clearStats")

\* What is done under a write lock is three instructions.
LEMMA WrittenIs ==
    ASSUME NEW l \in Lock, NEW w \in ReceiverDoes
    PROVE  LET s == Written(l, w) IN
           s \in Seq(ReceiverInstruction) /\ Len(s) = 3 /\ s[1] = Write(l) /\ s[2] = Do(w) /\ s[3] = Unlock(l)
BY DEF Written, Write, Unlock, Do, ReceiverInstruction, Instruction

\* c is a, then b
IsJoined(c, a, b) ==
    /\ c \in Seq(ReceiverInstruction) /\ Len(c) = Len(a) + Len(b)
    /\ \A i \in 1..Len(a) : c[i] = a[i]
    /\ \A i \in 1..Len(b) : c[Len(a) + i] = b[i]

\* \o joins scripts.
LEMMA Joined == \A a, b \in Seq(ReceiverInstruction) : IsJoined(a \o b, a, b)
<1> SUFFICES ASSUME NEW a \in Seq(ReceiverInstruction), NEW b \in Seq(ReceiverInstruction)
             PROVE  IsJoined(a \o b, a, b)
  OBVIOUS
<1>1. /\ a \o b \in Seq(ReceiverInstruction) /\ Len(a \o b) = Len(a) + Len(b)
      /\ \A i \in 1..(Len(a) + Len(b)) : (a \o b)[i] = IF i <= Len(a) THEN a[i] ELSE b[i - Len(a)]
  BY ConcatProperties
<1>2. Len(a) \in Nat /\ Len(b) \in Nat
  BY LenProperties
<1>3. ASSUME NEW i \in 1..Len(b) PROVE (a \o b)[Len(a) + i] = b[i]
  <2>1. Len(a) + i \in 1..(Len(a) + Len(b)) /\ ~(Len(a) + i <= Len(a)) /\ (Len(a) + i) - Len(a) = i
    BY <1>2
  <2>2. QED
    BY <1>1, <2>1
<1>4. QED
  BY <1>1, <1>2, <1>3 DEF IsJoined

\* onMemoryOperation takes the lock of the list, and inside it that of the statistics.
LEMMA HandlerOfOperation ==
    LET s == <<Write("List")>> \o Written("Stats", "operation") \o <<Unlock("List")>>
    IN  /\ s \in Seq(ReceiverInstruction) /\ Len(s) = 5
        /\ s[1] = Write("List") /\ s[2] = Write("Stats") /\ s[3] = Do("operation")
        /\ s[4] = Unlock("Stats") /\ s[5] = Unlock("List")
<1> DEFINE a == <<Write("List")>>
           b == Written("Stats", "operation")
           c == <<Unlock("List")>>
<1>1. a \in Seq(ReceiverInstruction) /\ Len(a) = 1 /\ a[1] = Write("List")
  BY DEF Write, ReceiverInstruction, Instruction, Lock
<1>2. b \in Seq(ReceiverInstruction) /\ Len(b) = 3 /\ b[1] = Write("Stats") /\ b[2] = Do("operation") /\ b[3] = Unlock("Stats")
  BY WrittenIs DEF Lock, ReceiverDoes
<1>3. c \in Seq(ReceiverInstruction) /\ Len(c) = 1 /\ c[1] = Unlock("List")
  BY DEF Unlock, ReceiverInstruction, Instruction, Lock
<1> HIDE DEF a, b, c
<1> DEFINE d == a \o b
           s == d \o c
<1>4. d \in Seq(ReceiverInstruction) /\ Len(d) = 4 /\ d[1] = a[1] /\ d[2] = b[1] /\ d[3] = b[2] /\ d[4] = b[3]
  <2>1. a \in Seq(ReceiverInstruction) /\ b \in Seq(ReceiverInstruction)
    BY <1>1, <1>2
  <2>2. IsJoined(d, a, b)
    BY ONLY <2>1, Joined
  <2> HIDE DEF d
  <2>3. QED
    BY ONLY <1>1, <1>2, <2>2 DEF IsJoined
<1> HIDE DEF d
<1>5. /\ s \in Seq(ReceiverInstruction) /\ Len(s) = 5
      /\ s[1] = d[1] /\ s[2] = d[2] /\ s[3] = d[3] /\ s[4] = d[4] /\ s[5] = c[1]
  <2>1. d \in Seq(ReceiverInstruction) /\ c \in Seq(ReceiverInstruction)
    BY <1>3, <1>4
  <2>2. IsJoined(s, d, c)
    BY ONLY <2>1, Joined
  <2> HIDE DEF s
  <2>3. QED
    BY ONLY <1>3, <1>4, <2>2 DEF IsJoined
<1>6. QED
  BY <1>1, <1>2, <1>3, <1>4, <1>5 DEF a, b, c, d, s

\* The handler of a new connection, clearData and the count of the message, spelled out.
LEMMA HandlerOfInit ==
    LET s == ClearScript \o Written("Stats", "count")
    IN  /\ s \in Seq(ReceiverInstruction) /\ Len(s) = 19
        /\ s[1] = Write("List") /\ s[2] = Do("clearOperations") /\ s[3] = Unlock("List")
        /\ s[4] = Write("Symbols") /\ s[5] = Do("nothing") /\ s[6] = Unlock("Symbols")
        /\ s[7] = Do("resetSearch")
        /\ s[8] = Write("Stats") /\ s[9] = Do("clearStats") /\ s[10] = Unlock("Stats")
        /\ s[11] = Do("clearFilter") /\ s[12] = Do("clearRows") /\ s[13] = Do("clearThreadRows")
        /\ s[14] = Do("clearChart") /\ s[15] = Do("resetLastTime") /\ s[16] = Do("resetLastValue")
        /\ s[17] = Write("Stats") /\ s[18] = Do("count") /\ s[19] = Unlock("Stats")
<1> DEFINE a == Written("List", "clearOperations")
           b == Written("Symbols", "nothing")
           c == <<Do("resetSearch")>>
           d == Written("Stats", "clearStats")
           e == <<Do("clearFilter"), Do("clearRows"), Do("clearThreadRows"),
                  Do("clearChart"), Do("resetLastTime"), Do("resetLastValue")>>
           f == Written("Stats", "count")
<1>1. a \in Seq(ReceiverInstruction) /\ Len(a) = 3 /\ a[1] = Write("List") /\ a[2] = Do("clearOperations") /\ a[3] = Unlock("List")
  BY WrittenIs DEF Lock, ReceiverDoes, ClearDoes
<1>2. b \in Seq(ReceiverInstruction) /\ Len(b) = 3 /\ b[1] = Write("Symbols") /\ b[2] = Do("nothing") /\ b[3] = Unlock("Symbols")
  BY WrittenIs DEF Lock, ReceiverDoes, ClearDoes
<1>3. c \in Seq(ReceiverInstruction) /\ Len(c) = 1 /\ c[1] = Do("resetSearch")
  BY DEF Do, ReceiverInstruction, Instruction, ReceiverDoes, ClearDoes
<1>4. d \in Seq(ReceiverInstruction) /\ Len(d) = 3 /\ d[1] = Write("Stats") /\ d[2] = Do("clearStats") /\ d[3] = Unlock("Stats")
  BY WrittenIs DEF Lock, ReceiverDoes, ClearDoes
<1>5. /\ e \in Seq(ReceiverInstruction) /\ Len(e) = 6 /\ e[1] = Do("clearFilter") /\ e[2] = Do("clearRows") /\ e[3] = Do("clearThreadRows")
      /\ e[4] = Do("clearChart") /\ e[5] = Do("resetLastTime") /\ e[6] = Do("resetLastValue")
  BY DEF Do, ReceiverInstruction, Instruction, ReceiverDoes, ClearDoes
<1>6. f \in Seq(ReceiverInstruction) /\ Len(f) = 3 /\ f[1] = Write("Stats") /\ f[2] = Do("count") /\ f[3] = Unlock("Stats")
  BY WrittenIs DEF Lock, ReceiverDoes, ClearDoes
<1>7. ClearScript \o f = (a \o b \o c \o d \o e) \o f
  BY DEF ClearScript
<1> HIDE DEF a, b, c, d, e, f
<1> DEFINE ab == a \o b
           abc == ab \o c
           abcd == abc \o d
           abcde == abcd \o e
           all == abcde \o f
<1>8. /\ ab \in Seq(ReceiverInstruction) /\ Len(ab) = 6 /\ ab[1] = a[1] /\ ab[2] = a[2] /\ ab[3] = a[3]
      /\ ab[4] = b[1] /\ ab[5] = b[2] /\ ab[6] = b[3]
  <2>1. a \in Seq(ReceiverInstruction) /\ b \in Seq(ReceiverInstruction)
    BY <1>1, <1>2
  <2>2. IsJoined(ab, a, b)
    BY ONLY <2>1, Joined
  <2> HIDE DEF ab
  <2>3. QED
    BY ONLY <1>1, <1>2, <2>2 DEF IsJoined
<1> HIDE DEF ab
<1>9. abc \in Seq(ReceiverInstruction) /\ Len(abc) = 7 /\ (\A i \in 1..6 : abc[i] = ab[i]) /\ abc[7] = c[1]
  <2>1. ab \in Seq(ReceiverInstruction) /\ c \in Seq(ReceiverInstruction)
    BY <1>3, <1>8
  <2>2. IsJoined(abc, ab, c)
    BY ONLY <2>1, Joined
  <2> HIDE DEF abc
  <2>3. QED
    BY ONLY <1>3, <1>8, <2>2 DEF IsJoined
<1> HIDE DEF abc
<1>10. /\ abcd \in Seq(ReceiverInstruction) /\ Len(abcd) = 10 /\ (\A i \in 1..7 : abcd[i] = abc[i])
       /\ abcd[8] = d[1] /\ abcd[9] = d[2] /\ abcd[10] = d[3]
  <2>1. abc \in Seq(ReceiverInstruction) /\ d \in Seq(ReceiverInstruction)
    BY <1>4, <1>9
  <2>2. IsJoined(abcd, abc, d)
    BY ONLY <2>1, Joined
  <2> HIDE DEF abcd
  <2>3. QED
    BY ONLY <1>4, <1>9, <2>2 DEF IsJoined
<1> HIDE DEF abcd
<1>11. /\ abcde \in Seq(ReceiverInstruction) /\ Len(abcde) = 16 /\ (\A i \in 1..10 : abcde[i] = abcd[i])
       /\ abcde[11] = e[1] /\ abcde[12] = e[2] /\ abcde[13] = e[3]
       /\ abcde[14] = e[4] /\ abcde[15] = e[5] /\ abcde[16] = e[6]
  <2>1. abcd \in Seq(ReceiverInstruction) /\ e \in Seq(ReceiverInstruction)
    BY <1>5, <1>10
  <2>2. IsJoined(abcde, abcd, e)
    BY ONLY <2>1, Joined
  <2> HIDE DEF abcde
  <2>3. QED
    BY ONLY <1>5, <1>10, <2>2 DEF IsJoined
<1> HIDE DEF abcde
<1>12. /\ all \in Seq(ReceiverInstruction) /\ Len(all) = 19 /\ (\A i \in 1..16 : all[i] = abcde[i])
       /\ all[17] = f[1] /\ all[18] = f[2] /\ all[19] = f[3]
  <2>1. abcde \in Seq(ReceiverInstruction) /\ f \in Seq(ReceiverInstruction)
    BY <1>6, <1>11
  <2>2. IsJoined(all, abcde, f)
    BY ONLY <2>1, Joined
  <2> HIDE DEF all
  <2>3. QED
    BY ONLY <1>6, <1>11, <2>2 DEF IsJoined
<1>13. ClearScript \o f = all
  BY <1>7 DEF ab, abc, abcd, abcde
<1> HIDE DEF all
<1>14. \A i \in 1..10 : all[i] = abcd[i]
  BY <1>11, <1>12
<1>15. \A i \in 1..7 : all[i] = abc[i]
  BY <1>10, <1>14
<1>16. \A i \in 1..6 : all[i] = ab[i]
  BY <1>9, <1>15
<1>17. /\ all[1] = Write("List") /\ all[2] = Do("clearOperations") /\ all[3] = Unlock("List")
       /\ all[4] = Write("Symbols") /\ all[5] = Do("nothing") /\ all[6] = Unlock("Symbols")
  BY <1>1, <1>2, <1>8, <1>16
<1>18. /\ all[7] = Do("resetSearch")
       /\ all[8] = Write("Stats") /\ all[9] = Do("clearStats") /\ all[10] = Unlock("Stats")
  BY <1>3, <1>4, <1>9, <1>10, <1>14, <1>15
<1>19. /\ all[11] = Do("clearFilter") /\ all[12] = Do("clearRows") /\ all[13] = Do("clearThreadRows")
       /\ all[14] = Do("clearChart") /\ all[15] = Do("resetLastTime") /\ all[16] = Do("resetLastValue")
  BY <1>5, <1>11, <1>12
<1>20. QED
  BY <1>6, <1>12, <1>13, <1>17, <1>18, <1>19 DEF f

-----------------------------------------------------------------------------
(* Every handler and every callback is a good script *)

\* a whole script of a thread: it is in order, and takes every lock before it needs it
GoodHandler(s) == ReceiverScript(s) /\ WholeClear(s) /\ \A l \in Lock : Guarded(s, l)
GoodGui(s) == GuiScriptOK(s) /\ WholeSearch(s) /\ \A l \in Lock : Guarded(s, l)

\* The handler of a thread message is a good one.
LEMMA ThreadIsGood ==
    ASSUME NEW s, s \in Seq(ReceiverInstruction), Len(s) = 3,
           s[1] = Write("Stats"), s[2] = Do("thread"), s[3] = Unlock("Stats")
    PROVE  GoodHandler(s)
<1>1. \A i \in 1..Len(s) : i = 1 \/ i = 2 \/ i = 3
  OBVIOUS
<1>2. /\ ~Has(s, "clearRows") /\ ~Has(s, "clearStats") /\ ~Has(s, "clearOperations") /\ ~Has(s, "clearFilter")
      /\ ~Has(s, "resetSearch") /\ ~Has(s, "operation") /\ ~Has(s, "clearChart") /\ ~Has(s, "resetLastValue")
  BY <1>1 DEF Has, Do, Write, Unlock
<1>3. ReceiverOrder(s) /\ WholeClear(s)
  BY <1>2 DEF Has, ReceiverOrder, WholeClear, Follows, Precedes
<1>4. ASSUME NEW k \in Lock PROVE Guarded(s, k) /\ Retakes(s, k)
  BY <1>1 DEF Guarded, Retakes, Needs, Takes, Do, Write, Read, Unlock, Lock
<1>5. QED
  BY <1>3, <1>4 DEF GoodHandler, ReceiverScript

\* So is a handler that does one thing under a lock and counts the message.
LEMMA CountedIsGood ==
    ASSUME NEW l \in {"List", "Symbols"}, NEW w \in {"nothing", "backtrace"}, w = "backtrace" => l = "List",
           NEW s, s \in Seq(ReceiverInstruction), Len(s) = 6,
           s[1] = Write(l), s[2] = Do(w), s[3] = Unlock(l),
           s[4] = Write("Stats"), s[5] = Do("count"), s[6] = Unlock("Stats")
    PROVE  GoodHandler(s) /\ ~Has(s, "operation")
<1>1. \A i \in 1..Len(s) : i = 1 \/ i = 2 \/ i = 3 \/ i = 4 \/ i = 5 \/ i = 6
  OBVIOUS
<1>2. /\ ~Has(s, "clearRows") /\ ~Has(s, "clearStats") /\ ~Has(s, "clearOperations") /\ ~Has(s, "clearFilter")
      /\ ~Has(s, "resetSearch") /\ ~Has(s, "operation") /\ ~Has(s, "clearChart") /\ ~Has(s, "resetLastValue")
  BY <1>1 DEF Has, Do, Write, Unlock
<1>3. ReceiverOrder(s) /\ WholeClear(s)
  BY <1>2 DEF Has, ReceiverOrder, WholeClear, Follows, Precedes
<1>4. ASSUME NEW k \in Lock PROVE Guarded(s, k) /\ Retakes(s, k)
  <2>1. \A i \in 1..Len(s) : Needs(s[i], k) => (k = l /\ (i = 2 \/ i = 3)) \/ (k = "Stats" /\ i = 6)
    BY <1>1 DEF Needs, Do, Write, Unlock, Lock
  <2>2. Takes(s[1], l) /\ Takes(s[4], "Stats") /\ l # "Stats"
    BY DEF Takes
  <2>3. Guarded(s, k)
    BY <2>1, <2>2 DEF Guarded
  <2>4. \A i \in 1..Len(s) : s[i] = Unlock(k) => (k = l /\ i = 3) \/ (k = "Stats" /\ i = 6)
    BY <1>1 DEF Do, Write, Unlock, Lock
  <2>5. Retakes(s, k)
    BY <2>1, <2>2, <2>4 DEF Retakes
  <2>6. QED
    BY <2>3, <2>5
<1>5. ~Has(s, "operation")
  BY <1>1 DEF Has, Do, Write, Unlock
<1>6. QED
  BY <1>3, <1>4, <1>5 DEF GoodHandler, ReceiverScript

\* That is what the handlers of backtraces and symbols do.
LEMMA HandlerOfCounted ==
    ASSUME NEW l \in {"List", "Symbols"}, NEW w \in {"nothing", "backtrace"}, w = "backtrace" => l = "List"
    PROVE  LET s == Written(l, w) \o Written("Stats", "count") IN GoodHandler(s) /\ ~Has(s, "operation")
<1> DEFINE a == Written(l, w)
           b == Written("Stats", "count")
           s == a \o b
<1>1. /\ a \in Seq(ReceiverInstruction) /\ Len(a) = 3 /\ a[1] = Write(l) /\ a[2] = Do(w) /\ a[3] = Unlock(l)
  BY WrittenIs DEF Lock, ReceiverDoes, ClearDoes
<1>2. b \in Seq(ReceiverInstruction) /\ Len(b) = 3 /\ b[1] = Write("Stats") /\ b[2] = Do("count") /\ b[3] = Unlock("Stats")
  BY WrittenIs DEF Lock, ReceiverDoes, ClearDoes
<1> HIDE DEF a, b
<1>3. a \in Seq(ReceiverInstruction) /\ b \in Seq(ReceiverInstruction)
  BY <1>1, <1>2
<1>4. IsJoined(s, a, b)
  BY ONLY <1>3, Joined
<1> HIDE DEF s
<1>5. /\ s \in Seq(ReceiverInstruction) /\ Len(s) = 6 /\ s[1] = a[1] /\ s[2] = a[2] /\ s[3] = a[3]
      /\ s[4] = b[1] /\ s[5] = b[2] /\ s[6] = b[3]
  BY ONLY <1>1, <1>2, <1>4 DEF IsJoined
<1>6. GoodHandler(s) /\ ~Has(s, "operation")
  BY <1>1, <1>2, <1>5, CountedIsGood
<1>7. QED
  BY <1>6 DEF s, a, b

\* The handler of a memory message is a good one.
LEMMA OperationIsGood ==
    ASSUME NEW s, s \in Seq(ReceiverInstruction), Len(s) = 5,
           s[1] = Write("List"), s[2] = Write("Stats"), s[3] = Do("operation"),
           s[4] = Unlock("Stats"), s[5] = Unlock("List")
    PROVE  GoodHandler(s)
<1>1. \A i \in 1..Len(s) : i = 1 \/ i = 2 \/ i = 3 \/ i = 4 \/ i = 5
  OBVIOUS
<1>2. /\ ~Has(s, "clearRows") /\ ~Has(s, "clearStats") /\ ~Has(s, "clearOperations") /\ ~Has(s, "clearFilter")
      /\ ~Has(s, "resetSearch") /\ ~Has(s, "clearChart") /\ ~Has(s, "resetLastValue")
  BY <1>1 DEF Has, Do, Write, Unlock
<1>6. \A i \in 1..Len(s) : s[i] = Do("operation") => i = 3
  BY <1>1 DEF Do, Write, Unlock
<1>7. Precedes(s, "operation", "operation")
  BY <1>6 DEF Precedes
<1>3. ReceiverOrder(s) /\ WholeClear(s)
  BY <1>2, <1>7 DEF Has, ReceiverOrder, WholeClear, Follows, Precedes
<1>4. ASSUME NEW k \in Lock PROVE Guarded(s, k) /\ Retakes(s, k)
  BY <1>1 DEF Guarded, Retakes, Needs, Takes, Do, Write, Read, Unlock, Lock
<1>5. QED
  BY <1>3, <1>4 DEF GoodHandler, ReceiverScript

\* The handler of a new connection is a good one.
LEMMA InitIsGood ==
    ASSUME NEW s, s \in Seq(ReceiverInstruction), Len(s) = 19,
           s[1] = Write("List"), s[2] = Do("clearOperations"), s[3] = Unlock("List"),
           s[4] = Write("Symbols"), s[5] = Do("nothing"), s[6] = Unlock("Symbols"),
           s[7] = Do("resetSearch"),
           s[8] = Write("Stats"), s[9] = Do("clearStats"), s[10] = Unlock("Stats"),
           s[11] = Do("clearFilter"), s[12] = Do("clearRows"), s[13] = Do("clearThreadRows"),
           s[14] = Do("clearChart"), s[15] = Do("resetLastTime"), s[16] = Do("resetLastValue"),
           s[17] = Write("Stats"), s[18] = Do("count"), s[19] = Unlock("Stats")
    PROVE  GoodHandler(s)
<1>1. \A i \in 1..Len(s) : i \in {1, 2, 3, 4, 5, 6, 7, 8, 9, 10, 11, 12, 13, 14, 15, 16, 17, 18, 19}
  OBVIOUS
<1>2. ASSUME NEW i \in 1..Len(s)
      PROVE  /\ s[i] = Do("clearOperations") <=> i = 2
             /\ s[i] = Do("resetSearch") <=> i = 7
             /\ s[i] = Do("clearStats") <=> i = 9
             /\ s[i] = Do("clearFilter") <=> i = 11
             /\ s[i] = Do("clearRows") <=> i = 12
             /\ s[i] = Do("clearThreadRows") <=> i = 13
             /\ s[i] = Do("clearChart") <=> i = 14
             /\ s[i] = Do("resetLastTime") <=> i = 15
             /\ s[i] = Do("resetLastValue") <=> i = 16
             /\ s[i] # Do("operation") /\ s[i] # Do("backtrace") /\ s[i] # Do("search")
  BY <1>1 DEF Do, Write, Unlock
<1>3. /\ 2 \in 1..Len(s) /\ 9 \in 1..Len(s) /\ 11 \in 1..Len(s) /\ 12 \in 1..Len(s) /\ 13 \in 1..Len(s) /\ 14 \in 1..Len(s)
      /\ 9 \in (2 + 1)..Len(s) /\ 11 \in (2 + 1)..Len(s) /\ 13 \in (9 + 1)..Len(s) /\ 14 \in (9 + 1)..Len(s)
      /\ 12 \in (11 + 1)..Len(s) /\ 11 \in (9 + 1)..Len(s) /\ 12 \in (7 + 1)..Len(s)
      /\ 15 \in (9 + 1)..Len(s) /\ 15 \in (14 + 1)..Len(s)
  OBVIOUS
<1>4. /\ Follows(s, "clearOperations", "clearStats") /\ Follows(s, "clearOperations", "clearFilter")
      /\ Follows(s, "clearStats", "clearThreadRows") /\ Follows(s, "clearStats", "clearChart")
      /\ Follows(s, "clearFilter", "clearRows")
      /\ Follows(s, "clearStats", "clearFilter") /\ Follows(s, "resetSearch", "clearRows")
      /\ Follows(s, "clearStats", "resetLastTime") /\ Follows(s, "clearChart", "resetLastTime")
  BY <1>2, <1>3 DEF Follows
<1>5. ReceiverOrder(s)
  <2>1. \A i, j \in 1..Len(s) : i = j => ~(j \in (i + 1)..Len(s))
    OBVIOUS
  <2>2. \A i \in 1..Len(s) : \A j \in (i + 1)..Len(s) : j \in 1..Len(s) /\ i < j
    OBVIOUS
  <2>3. /\ Precedes(s, "clearOperations", "clearOperations") /\ Precedes(s, "clearOperations", "clearStats")
        /\ Precedes(s, "clearStats", "clearStats")
        /\ Precedes(s, "clearFilter", "clearFilter") /\ Precedes(s, "clearFilter", "clearRows")
        /\ Precedes(s, "clearRows", "operation") /\ Precedes(s, "clearRows", "backtrace")
        /\ Precedes(s, "clearOperations", "resetSearch") /\ Precedes(s, "clearOperations", "clearFilter")
        /\ Precedes(s, "operation", "operation")
        /\ Precedes(s, "clearStats", "clearChart") /\ Precedes(s, "clearStats", "resetLastValue")
        /\ Precedes(s, "resetLastTime", "resetLastValue")
        /\ Precedes(s, "operation", "clearStats") /\ Precedes(s, "resetLastValue", "operation")
    BY <1>2, <2>2 DEF Precedes
  <2>4. QED
    BY <1>4, <2>3 DEF ReceiverOrder
<1>6. WholeClear(s)
  BY <1>2, <1>3 DEF WholeClear, Has
<1>7. ASSUME NEW k \in Lock PROVE Guarded(s, k) /\ Retakes(s, k)
  <2>1. ASSUME NEW i \in 1..Len(s)
        PROVE  /\ s[i] = Unlock("List") <=> i = 3
               /\ s[i] = Unlock("Symbols") <=> i = 6
               /\ s[i] = Unlock("Stats") <=> i = 10 \/ i = 19
    <3>1. s[i] = Unlock("List") <=> i = 3
      BY <1>1 DEF Do, Write, Unlock
    <3>2. s[i] = Unlock("Symbols") <=> i = 6
      BY <1>1 DEF Do, Write, Unlock
    <3>3. s[i] = Unlock("Stats") <=> i = 10 \/ i = 19
      BY <1>1 DEF Do, Write, Unlock
    <3>4. QED
      BY <3>1, <3>2, <3>3
  <2>2. /\ \A i \in 1..Len(s) : Needs(s[i], "List") => i = 2 \/ i = 3
        /\ \A i \in 1..Len(s) : Needs(s[i], "Symbols") => i = 6
        /\ \A i \in 1..Len(s) : Needs(s[i], "Stats") => i = 10 \/ i = 19
    BY <1>2, <2>1 DEF Needs
  <2>3. Takes(s[1], "List") /\ Takes(s[4], "Symbols") /\ Takes(s[8], "Stats") /\ Takes(s[17], "Stats")
    BY DEF Takes
  <2>4. Guarded(s, k)
    <3>1. SUFFICES ASSUME NEW i \in 1..Len(s), Needs(s[i], k) PROVE \E j \in 1..(i - 1) : Takes(s[j], k)
      BY DEF Guarded
    <3>2. CASE k = "List"
      <4>1. 1 \in 1..(i - 1)
        BY <2>2, <3>1, <3>2
      <4>2. QED
        BY <2>3, <3>2, <4>1
    <3>3. CASE k = "Symbols"
      <4>1. 4 \in 1..(i - 1)
        BY <2>2, <3>1, <3>3
      <4>2. QED
        BY <2>3, <3>3, <4>1
    <3>4. CASE k = "Stats"
      <4>1. 8 \in 1..(i - 1)
        BY <2>2, <3>1, <3>4
      <4>2. QED
        BY <2>3, <3>4, <4>1
    <3>5. QED
      BY <3>2, <3>3, <3>4 DEF Lock
  <2>5. Retakes(s, k)
    <3>1. SUFFICES ASSUME NEW i \in 1..Len(s), s[i] = Unlock(k), NEW j \in (i + 1)..Len(s), Needs(s[j], k)
                   PROVE  \E n \in (i + 1)..(j - 1) : Takes(s[n], k)
      BY DEF Retakes
    <3>2. j \in 1..Len(s) /\ i < j
      OBVIOUS
    <3>3. k = "Stats" /\ i = 10 /\ j = 19
      <4>1. k = "List" => i = 3 /\ (j = 2 \/ j = 3)
        BY <2>1, <2>2, <3>1, <3>2
      <4>2. k = "Symbols" => i = 6 /\ j = 6
        BY <2>1, <2>2, <3>1, <3>2
      <4>3. k = "Stats" => (i = 10 \/ i = 19) /\ (j = 10 \/ j = 19)
        BY <2>1, <2>2, <3>1, <3>2
      <4>4. QED
        BY ONLY <3>2, <4>1, <4>2, <4>3, k \in Lock DEF Lock
    <3>4. 17 \in (i + 1)..(j - 1)
      BY <3>3
    <3>5. QED
      BY <2>3, <3>3, <3>4
  <2>6. QED
    BY <2>4, <2>5
<1>8. QED
  BY <1>5, <1>6, <1>7 DEF GoodHandler, ReceiverScript

\* Every handler of the receiving thread is a good script.
LEMMA HandlersAreGood ==
    ASSUME NEW m
    PROVE  GoodHandler(Handler(m))
<1>1. CASE m.code = "init"
  <2> DEFINE s == ClearScript \o Written("Stats", "count")
  <2>1. Handler(m) = s
    BY <1>1 DEF Handler
  <2>2. /\ s \in Seq(ReceiverInstruction) /\ Len(s) = 19
        /\ s[1] = Write("List") /\ s[2] = Do("clearOperations") /\ s[3] = Unlock("List")
        /\ s[4] = Write("Symbols") /\ s[5] = Do("nothing") /\ s[6] = Unlock("Symbols")
        /\ s[7] = Do("resetSearch")
        /\ s[8] = Write("Stats") /\ s[9] = Do("clearStats") /\ s[10] = Unlock("Stats")
        /\ s[11] = Do("clearFilter") /\ s[12] = Do("clearRows") /\ s[13] = Do("clearThreadRows")
        /\ s[14] = Do("clearChart") /\ s[15] = Do("resetLastTime") /\ s[16] = Do("resetLastValue")
        /\ s[17] = Write("Stats") /\ s[18] = Do("count") /\ s[19] = Unlock("Stats")
    BY HandlerOfInit
  <2> HIDE DEF s
  <2>3. QED
    BY <2>1, <2>2, InitIsGood
<1>2. CASE m.code = "backtrace" /\ m.code # "init"
  BY <1>2, HandlerOfCounted DEF Handler
<1>3. CASE m.code = "symbol" /\ m.code # "init" /\ m.code # "backtrace"
  BY <1>3, HandlerOfCounted DEF Handler
<1>4. CASE m.code \in ThreadCode /\ m.code \notin {"init", "backtrace", "symbol"}
  <2> DEFINE s == Written("Stats", "thread")
  <2>1. Handler(m) = s
    BY <1>4 DEF Handler
  <2>2. s \in Seq(ReceiverInstruction) /\ Len(s) = 3 /\ s[1] = Write("Stats") /\ s[2] = Do("thread") /\ s[3] = Unlock("Stats")
    BY WrittenIs DEF Lock, ReceiverDoes
  <2> HIDE DEF s
  <2>3. QED
    BY <2>1, <2>2, ThreadIsGood
<1>5. CASE m.code \notin ThreadCode /\ m.code \notin {"init", "backtrace", "symbol"}
  <2> DEFINE s == <<Write("List")>> \o Written("Stats", "operation") \o <<Unlock("List")>>
  <2>1. Handler(m) = s
    BY <1>5 DEF Handler
  <2>2. /\ s \in Seq(ReceiverInstruction) /\ Len(s) = 5
        /\ s[1] = Write("List") /\ s[2] = Write("Stats") /\ s[3] = Do("operation")
        /\ s[4] = Unlock("Stats") /\ s[5] = Unlock("List")
    BY HandlerOfOperation
  <2> HIDE DEF s
  <2>3. QED
    BY <2>1, <2>2, OperationIsGood
<1>6. QED
  BY <1>1, <1>2, <1>3, <1>4, <1>5

\* So is every callback of the GUI thread.
LEMMA GuiScriptsAreGood == GoodGui(FilterScript) /\ GoodGui(TimerScript) /\ GoodGui(DoubleClickScript)
<1>1. GoodGui(FilterScript)
  <2> DEFINE s == FilterScript
  <2>1. /\ s \in Seq(GuiInstruction) /\ Len(s) = 8
        /\ s[1] = Do("resetSearch") /\ s[2] = Do("clearFilter") /\ s[3] = Read("List") /\ s[4] = Do("search")
        /\ s[5] = Unlock("List") /\ s[6] = Do("clearRows") /\ s[7] = Do("countRows") /\ s[8] = Do("fetchTo")
    BY DEF FilterScript, Do, Read, Unlock, GuiInstruction, Instruction, GuiDoes, Lock
  <2> HIDE DEF s
  <2>2. \A i \in 1..Len(s) : i \in {1, 2, 3, 4, 5, 6, 7, 8}
    BY <2>1
  <2>3. /\ \A i \in 1..Len(s) : s[i] = Do("clearFilter") => i = 2
        /\ \A i \in 1..Len(s) : s[i] = Do("search") => i = 4
        /\ \A i \in 1..Len(s) : s[i] = Do("clearRows") => i = 6
        /\ \A i \in 1..Len(s) : s[i] = Do("resetSearch") => i = 1
        /\ \A i \in 1..Len(s) : s[i] = Do("fetchTo") => i = 8
        /\ \A i \in 1..Len(s) : s[i] = Unlock("List") => i = 5
        /\ \A i \in 1..Len(s) : s[i] # Do("usage")
    BY <2>1, <2>2 DEF Do, Read, Unlock
  <2>4. 8 \in (2 + 1)..Len(s) /\ 8 \in (4 + 1)..Len(s) /\ 8 \in (6 + 1)..Len(s)
    BY <2>1
  <2>5. GuiOrder(s) /\ WholeSearch(s)
    <3>1. /\ Follows(s, "clearFilter", "fetchTo") /\ Follows(s, "search", "fetchTo")
          /\ Follows(s, "clearRows", "fetchTo") /\ Follows(s, "usage", "draw")
      BY <2>1, <2>3, <2>4 DEF Follows
    <3>2. \A i \in 1..Len(s) : \A j \in (i + 1)..Len(s) : j \in 1..Len(s) /\ i < j
      OBVIOUS
    <3>3. /\ Precedes(s, "resetSearch", "search") /\ Precedes(s, "clearFilter", "search")
          /\ Precedes(s, "search", "search") /\ Precedes(s, "search", "fetchTo")
          /\ Precedes(s, "usage", "usage")
      BY <2>3, <3>2 DEF Precedes
    <3>4. ASSUME NEW i \in 1..(Len(s) - 1), s[i + 1] = Unlock("List") PROVE s[i] = Do("search")
      <4>1. i + 1 \in 1..Len(s)
        BY <2>1
      <4>2. i + 1 = 5
        BY <2>3, <3>4, <4>1
      <4>3. QED
        BY <2>1, <4>2
    <3>5. GuiOrder(s)
      BY <3>1, <3>3, <3>4 DEF GuiOrder
    <3>6. Has(s, "resetSearch") /\ Has(s, "clearFilter") /\ Head(s) # Unlock("List")
      BY <2>1 DEF Has, Do, Unlock
    <3>7. QED
      BY <3>5, <3>6 DEF WholeSearch
  <2>6. ASSUME NEW l \in Lock PROVE Guarded(s, l) /\ Retakes(s, l)
    <3>1. \A i \in 1..Len(s) : Needs(s[i], l) => l = "List" /\ (i = 4 \/ i = 5)
      BY <2>1, <2>2 DEF Needs, Do, Read, Unlock
    <3>2. Takes(s[3], "List") /\ \A i \in 1..Len(s) : s[i] = Unlock(l) => l = "List" /\ i = 5
      BY <2>1, <2>2 DEF Takes, Do, Read, Unlock
    <3>3. Guarded(s, l)
      BY <3>1, <3>2 DEF Guarded
    <3>4. Retakes(s, l)
      BY <2>1, <3>1, <3>2 DEF Retakes
    <3>5. QED
      BY <3>3, <3>4
  <2>7. QED
    BY <2>1, <2>5, <2>6 DEF GoodGui, GuiScriptOK, s
<1>2. GoodGui(TimerScript)
  <2> DEFINE s == TimerScript
  <2>1. /\ s \in Seq(GuiInstruction) /\ Len(s) = 7
        /\ s[1] = Read("Stats") /\ s[2] = Read("Symbols") /\ s[3] = Unlock("Symbols") /\ s[4] = Do("threadRows")
        /\ s[5] = Do("usage") /\ s[6] = Unlock("Stats") /\ s[7] = Do("draw")
    BY DEF TimerScript, Do, Read, Unlock, GuiInstruction, Instruction, GuiDoes, Lock
  <2> HIDE DEF s
  <2>2. \A i \in 1..Len(s) : i \in {1, 2, 3, 4, 5, 6, 7}
    BY <2>1
  <2>3. \A i \in 1..Len(s) : s[i] # Do("clearFilter") /\ s[i] # Do("search") /\ s[i] # Do("clearRows")
                            /\ s[i] # Do("resetSearch") /\ s[i] # Do("fetchTo") /\ s[i] # Unlock("List")
    BY <2>1, <2>2 DEF Do, Read, Unlock
  <2>7. /\ \A i \in 1..Len(s) : s[i] = Do("usage") => i = 5
        /\ s[7] = Do("draw") /\ 7 \in (5 + 1)..Len(s) /\ \A j \in (5 + 1)..Len(s) : j \in 1..Len(s) /\ j # 5
    BY <2>1, <2>2 DEF Do, Read, Unlock
  <2>8. Follows(s, "usage", "draw") /\ Precedes(s, "usage", "usage")
    BY <2>7 DEF Follows, Precedes
  <2>4. GuiOrder(s) /\ WholeSearch(s)
    <3>1. \A i \in 1..(Len(s) - 1) : i + 1 \in 1..Len(s)
      BY <2>1
    <3>2. GuiOrder(s)
      BY <2>3, <2>8, <3>1 DEF GuiOrder, Follows, Precedes
    <3>3. Head(s) = s[1] /\ 1 \in 1..Len(s)
      BY <2>1
    <3>4. QED
      BY <2>3, <3>2, <3>3 DEF WholeSearch, Has
  <2>5. ASSUME NEW l \in Lock PROVE Guarded(s, l) /\ Retakes(s, l)
    <3>1. \A i \in 1..Len(s) : Needs(s[i], l) => (l = "Symbols" /\ i = 3) \/ (l = "Stats" /\ i = 6)
      BY <2>1, <2>2 DEF Needs, Do, Read, Unlock
    <3>2. /\ Takes(s[1], "Stats") /\ Takes(s[2], "Symbols")
          /\ \A i \in 1..Len(s) : s[i] = Unlock(l) => (l = "Symbols" /\ i = 3) \/ (l = "Stats" /\ i = 6)
      BY <2>1, <2>2 DEF Takes, Do, Read, Unlock
    <3>3. Guarded(s, l)
      BY <3>1, <3>2 DEF Guarded
    <3>4. Retakes(s, l)
      BY <2>1, <3>1, <3>2 DEF Retakes
    <3>5. QED
      BY <3>3, <3>4
  <2>6. QED
    BY <2>1, <2>4, <2>5 DEF GoodGui, GuiScriptOK, s
<1>3. GoodGui(DoubleClickScript)
  <2> DEFINE s == DoubleClickScript
  <2>1. s \in Seq(GuiInstruction) /\ Len(s) = 2 /\ s[1] = Read("Symbols") /\ s[2] = Unlock("Symbols")
    BY DEF DoubleClickScript, Read, Unlock, GuiInstruction, Instruction, Lock
  <2> HIDE DEF s
  <2>2. \A i \in 1..Len(s) : i \in {1, 2}
    BY <2>1
  <2>3. \A i \in 1..Len(s) : s[i] # Do("clearFilter") /\ s[i] # Do("search") /\ s[i] # Do("clearRows")
                            /\ s[i] # Do("resetSearch") /\ s[i] # Do("fetchTo") /\ s[i] # Unlock("List")
                            /\ s[i] # Do("usage")
    BY <2>1, <2>2 DEF Do, Read, Unlock
  <2>4. GuiOrder(s) /\ WholeSearch(s)
    <3>1. \A i \in 1..(Len(s) - 1) : i + 1 \in 1..Len(s)
      BY <2>1
    <3>2. GuiOrder(s)
      BY <2>3, <3>1 DEF GuiOrder, Follows, Precedes
    <3>3. Head(s) = s[1] /\ 1 \in 1..Len(s)
      BY <2>1
    <3>4. QED
      BY <2>3, <3>2, <3>3 DEF WholeSearch, Has
  <2>5. ASSUME NEW l \in Lock PROVE Guarded(s, l) /\ Retakes(s, l)
    BY <2>1, <2>2 DEF Guarded, Retakes, Needs, Takes, Do, Read, Write, Unlock
  <2>6. QED
    BY <2>1, <2>4, <2>5 DEF GoodGui, GuiScriptOK, s
<1>4. QED
  BY <1>1, <1>2, <1>3

-----------------------------------------------------------------------------
(* The invariant of the scripts *)

\* What is left of the scripts is in order.
ScriptInv ==
    /\ todo = [t \in ServerThread |-> todo[t]]
    /\ ReceiverScript(todo[Receiver])
    /\ GuiScriptOK(todo[Gui])

\* The receiving thread only writes and the GUI thread only reads, a lock is not held
\* for both, and who does not hold a lock takes it before needing it.
HoldInv ==
    /\ writing \in [Lock -> {Receiver, NULL}] /\ reading \in [Lock -> SUBSET {Gui}]
    /\ \A l \in Lock : writing[l] # NULL => reading[l] = {}
    /\ \A l \in Lock : Gui \in reading[l] \/ Guarded(todo[Gui], l)
    /\ \A l \in Lock : writing[l] = Receiver \/ Guarded(todo[Receiver], l)

\* a loop that is not at its end
Repeats(w) == (w = "search" /\ ~SearchDone) \/ (w = "draw" /\ memoryUsageUpdate # <<>>)

\* The end of a script is in order.
LEMMA EmptyScript ==
    /\ ReceiverScript(<<>>) /\ GuiScriptOK(<<>>) /\ WholeClear(<<>>)
    /\ \A l : Guarded(<<>>, l)
    /\ \A w : ~Has(<<>>, w)
<1>1. Len(<<>>) = 0 /\ 1..0 = {}
  OBVIOUS
<1>2. <<>> \in Seq(ReceiverInstruction) /\ <<>> \in Seq(GuiInstruction)
  OBVIOUS
<1>3. QED
  BY <1>1, <1>2 DEF ReceiverScript, GuiScriptOK, ReceiverOrder, GuiOrder, Follows, Precedes, Retakes, Guarded, Has, WholeClear

\* The rest of a script in order is in order.
LEMMA ScriptTail ==
    ASSUME NEW s, s # <<>>
    PROVE  /\ ReceiverScript(s) => ReceiverScript(Tail(s))
           /\ GuiScriptOK(s) => GuiScriptOK(Tail(s))
<1>1. ASSUME ReceiverScript(s) PROVE ReceiverScript(Tail(s))
  <2>1. s \in Seq(ReceiverInstruction)
    BY <1>1 DEF ReceiverScript
  <2>2. Tail(s) \in Seq(ReceiverInstruction)
    BY <2>1, TailFacts
  <2>3. \A l \in Lock : Retakes(Tail(s), l)
    BY <1>1, <2>1, GuardedTail DEF ReceiverScript
  <2>4. ReceiverOrder(Tail(s))
    BY <1>1, <2>1, FollowsTail, PrecedesTail DEF ReceiverScript, ReceiverOrder
  <2>5. QED
    BY <2>2, <2>3, <2>4 DEF ReceiverScript
<1>2. ASSUME GuiScriptOK(s) PROVE GuiScriptOK(Tail(s))
  <2>1. s \in Seq(GuiInstruction)
    BY <1>2 DEF GuiScriptOK
  <2>2. Tail(s) \in Seq(GuiInstruction)
    BY <2>1, TailFacts
  <2>3. \A l \in Lock : Retakes(Tail(s), l)
    BY <1>2, <2>1, GuardedTail DEF GuiScriptOK
  <2>4. GuiOrder(Tail(s))
    <3>1. ASSUME NEW i \in 1..(Len(Tail(s)) - 1), Tail(s)[i + 1] = Unlock("List")
          PROVE  Tail(s)[i] = Do("search")
      <4>1. /\ Len(s) \in Nat /\ Len(Tail(s)) = Len(s) - 1
            /\ \A k \in 1..Len(Tail(s)) : Tail(s)[k] = s[k + 1]
        BY <2>1, TailFacts
      <4>2. /\ i + 1 \in 1..(Len(s) - 1) /\ i \in 1..Len(Tail(s)) /\ i + 1 \in 1..Len(Tail(s))
        BY <4>1
      <4>3. QED
        BY <1>2, <3>1, <4>1, <4>2 DEF GuiScriptOK, GuiOrder
    <3>2. QED
      BY <1>2, <2>1, <3>1, FollowsTail, PrecedesTail DEF GuiScriptOK, GuiOrder
  <2>5. QED
    BY <2>2, <2>3, <2>4 DEF GuiScriptOK
<1>3. QED
  BY <1>1, <1>2

\* The next instruction of a thread is one of its own.
LEMMA NextInstruction ==
    ASSUME ScriptInv
    PROVE  /\ Busy(Gui) => /\ At(Gui) = Head(todo[Gui]) /\ Head(todo[Gui]) \in GuiInstruction
           /\ Busy(Receiver) => At(Receiver) = Head(todo[Receiver]) /\ Head(todo[Receiver]) \in ReceiverInstruction
           /\ \A t : ~Busy(t) => At(t)[1] = "none"
<1>1. todo[Gui] \in Seq(GuiInstruction) /\ todo[Receiver] \in Seq(ReceiverInstruction)
  BY DEF ScriptInv, ReceiverScript, GuiScriptOK
<1>2. Busy(Gui) => /\ At(Gui) = Head(todo[Gui]) /\ Head(todo[Gui]) \in GuiInstruction
  BY <1>1, TailFacts DEF Busy, At
<1>3. Busy(Receiver) => At(Receiver) = Head(todo[Receiver]) /\ Head(todo[Receiver]) \in ReceiverInstruction
  BY <1>1, TailFacts DEF Busy, At
<1>4. QED
  BY <1>2, <1>3 DEF At

\* What the GUI thread does to the locks: it reads and gives back.
LEMMA LockingOfGui ==
    ASSUME ScriptInv, Locking(Gui)
    PROVE  /\ Busy(Gui) /\ Advance(Gui)
           /\ \E l \in Lock :
                \/ /\ Head(todo[Gui]) = Read(l) /\ writing[l] = NULL
                   /\ reading' = [reading EXCEPT ![l] = @ \cup {Gui}] /\ writing' = writing
                \/ /\ Head(todo[Gui]) = Unlock(l)
                   /\ reading' = [reading EXCEPT ![l] = @ \ {Gui}] /\ writing' = [writing EXCEPT ![l] = NULL]
<1>1. At(Gui)[1] \in {"read", "write", "unlock"} /\ Advance(Gui)
  BY DEF Locking
<1>2. Busy(Gui)
  BY <1>1, NextInstruction
<1>3. At(Gui) = Head(todo[Gui]) /\ Head(todo[Gui]) \in GuiInstruction
  BY <1>2, NextInstruction
<1>4. PICK l \in Lock : Head(todo[Gui]) = <<"read", l>> \/ Head(todo[Gui]) = <<"unlock", l>>
  BY <1>1, <1>3 DEF GuiInstruction, Instruction, Do
<1>5. CASE Head(todo[Gui]) = <<"read", l>>
  <2>1. At(Gui)[1] = "read" /\ At(Gui)[2] = l
    BY <1>3, <1>5
  <2>2. /\ FreeToRead(l) /\ reading' = [reading EXCEPT ![l] = @ \cup {Gui}] /\ writing' = writing
    BY <2>1 DEF Locking
  <2>3. QED
    BY <1>1, <1>2, <1>5, <2>2 DEF Read, FreeToRead
<1>6. CASE Head(todo[Gui]) = <<"unlock", l>>
  <2>1. At(Gui)[1] = "unlock" /\ At(Gui)[2] = l
    BY <1>3, <1>6
  <2>2. /\ reading' = [reading EXCEPT ![l] = @ \ {Gui}] /\ writing' = [writing EXCEPT ![l] = NULL]
    BY <2>1 DEF Locking
  <2>3. QED
    BY <1>1, <1>2, <1>6, <2>2 DEF Unlock
<1>7. QED
  BY <1>4, <1>5, <1>6

\* What the receiving thread does to the locks: it writes and gives back.
LEMMA LockingOfReceiver ==
    ASSUME ScriptInv, Locking(Receiver)
    PROVE  /\ Busy(Receiver) /\ Advance(Receiver)
           /\ \E l \in Lock :
                \/ /\ Head(todo[Receiver]) = Write(l) /\ writing[l] = NULL /\ reading[l] = {}
                   /\ writing' = [writing EXCEPT ![l] = Receiver] /\ reading' = reading
                \/ /\ Head(todo[Receiver]) = Unlock(l)
                   /\ reading' = [reading EXCEPT ![l] = @ \ {Receiver}] /\ writing' = [writing EXCEPT ![l] = NULL]
<1>1. At(Receiver)[1] \in {"read", "write", "unlock"} /\ Advance(Receiver)
  BY DEF Locking
<1>2. Busy(Receiver)
  BY <1>1, NextInstruction
<1>3. At(Receiver) = Head(todo[Receiver]) /\ Head(todo[Receiver]) \in ReceiverInstruction
  BY <1>2, NextInstruction
<1>4. PICK l \in Lock : Head(todo[Receiver]) = <<"write", l>> \/ Head(todo[Receiver]) = <<"unlock", l>>
  BY <1>1, <1>3 DEF ReceiverInstruction, Instruction, Do
<1>5. CASE Head(todo[Receiver]) = <<"write", l>>
  <2>1. At(Receiver)[1] = "write" /\ At(Receiver)[2] = l
    BY <1>3, <1>5
  <2>2. /\ FreeToWrite(l) /\ writing' = [writing EXCEPT ![l] = Receiver] /\ reading' = reading
    BY <2>1 DEF Locking
  <2>3. QED
    BY <1>1, <1>2, <1>5, <2>2 DEF Write, FreeToWrite
<1>6. CASE Head(todo[Receiver]) = <<"unlock", l>>
  <2>1. At(Receiver)[1] = "unlock" /\ At(Receiver)[2] = l
    BY <1>3, <1>6
  <2>2. /\ reading' = [reading EXCEPT ![l] = @ \ {Receiver}] /\ writing' = [writing EXCEPT ![l] = NULL]
    BY <2>1 DEF Locking
  <2>3. QED
    BY <1>1, <1>2, <1>6, <2>2 DEF Unlock
<1>7. QED
  BY <1>4, <1>5, <1>6

\* What the GUI thread does, and that only its loops stay where they are.
LEMMA DoingOfGui ==
    ASSUME ScriptInv, Doing(Gui)
    PROVE  \E w \in GuiDoes :
            /\ At(Gui) = <<"do", w>> /\ Busy(Gui) /\ Head(todo[Gui]) = Do(w)
            /\ Repeats(w) => todo' = todo
            /\ ~Repeats(w) => Advance(Gui)
<1>1. At(Gui)[1] = "do"
  BY DEF Doing
<1>2. Busy(Gui)
  BY <1>1, NextInstruction
<1>3. At(Gui) = Head(todo[Gui]) /\ Head(todo[Gui]) \in GuiInstruction
  BY <1>2, NextInstruction
<1>4. PICK w \in GuiDoes : Head(todo[Gui]) = Do(w)
  BY <1>1, <1>3 DEF GuiInstruction, Instruction, Do
<1>5. At(Gui) = <<"do", w>> /\ At(Gui)[2] = w
  BY <1>3, <1>4 DEF Do
<1>6. Looping(Gui) <=> Repeats(w)
  BY <1>5 DEF Looping, Repeats
<1>7. IF Looping(Gui) THEN todo' = todo ELSE Advance(Gui)
  BY DEF Doing
<1>8. QED
  BY <1>2, <1>4, <1>5, <1>6, <1>7

\* What the receiving thread does: it has no loop.
LEMMA DoingOfReceiver ==
    ASSUME ScriptInv, Doing(Receiver)
    PROVE  \E w \in ReceiverDoes :
            At(Receiver) = <<"do", w>> /\ Busy(Receiver) /\ Head(todo[Receiver]) = Do(w) /\ Advance(Receiver)
<1>1. At(Receiver)[1] = "do"
  BY DEF Doing
<1>2. Busy(Receiver)
  BY <1>1, NextInstruction
<1>3. At(Receiver) = Head(todo[Receiver]) /\ Head(todo[Receiver]) \in ReceiverInstruction
  BY <1>2, NextInstruction
<1>4. PICK w \in ReceiverDoes : Head(todo[Receiver]) = Do(w)
  BY <1>1, <1>3 DEF ReceiverInstruction, Instruction, Do
<1>5. At(Receiver) = <<"do", w>> /\ At(Receiver)[2] = w
  BY <1>3, <1>4 DEF Do
<1>6. ~Looping(Receiver)
  BY <1>5 DEF Looping, ReceiverDoes, ClearDoes
<1>7. IF Looping(Receiver) THEN todo' = todo ELSE Advance(Receiver)
  BY DEF Doing
<1>8. QED
  BY <1>2, <1>4, <1>5, <1>6, <1>7

\* A thread that advances leaves scripts in order.
LEMMA AdvanceScripts ==
    ASSUME ScriptInv, NEW t \in ServerThread, Busy(t), Advance(t)
    PROVE  /\ ScriptInv' /\ todo'[t] = Tail(todo[t])
           /\ \A u \in ServerThread \ {t} : todo'[u] = todo[u]
<1>1. /\ todo' = [u \in ServerThread |-> todo'[u]] /\ todo'[t] = Tail(todo[t])
      /\ \A u \in ServerThread \ {t} : todo'[u] = todo[u]
  BY DEF Advance, ScriptInv
<1>2. todo[t] # <<>> /\ Gui \in ServerThread /\ Receiver \in ServerThread /\ Gui # Receiver
  BY DEF Busy, ServerThread, Gui, Receiver
<1>3. ReceiverScript(todo'[Receiver])
  BY <1>1, <1>2, ScriptTail DEF ScriptInv
<1>4. GuiScriptOK(todo'[Gui])
  BY <1>1, <1>2, ScriptTail DEF ScriptInv
<1>5. QED
  BY <1>1, <1>3, <1>4 DEF ScriptInv

\* So does a handler and a callback that starts.
LEMMA StartScripts ==
    ASSUME ScriptInv
    PROVE  /\ \A m : todo' = [todo EXCEPT ![Receiver] = Handler(m)] =>
                /\ ScriptInv' /\ todo'[Receiver] = Handler(m) /\ todo'[Gui] = todo[Gui]
           /\ \A s : todo' = [todo EXCEPT ![Gui] = s] /\ GoodGui(s) =>
                /\ ScriptInv' /\ todo'[Gui] = s /\ todo'[Receiver] = todo[Receiver]
<1>1. Gui \in ServerThread /\ Receiver \in ServerThread /\ Gui # Receiver
  BY DEF ServerThread, Gui, Receiver
<1>2. ASSUME NEW m, todo' = [todo EXCEPT ![Receiver] = Handler(m)]
      PROVE  ScriptInv' /\ todo'[Receiver] = Handler(m) /\ todo'[Gui] = todo[Gui]
  <2>1. /\ todo' = [u \in ServerThread |-> todo'[u]] /\ todo'[Receiver] = Handler(m) /\ todo'[Gui] = todo[Gui]
    BY <1>1, <1>2 DEF ScriptInv
  <2>2. QED
    BY <2>1, HandlersAreGood DEF ScriptInv, GoodHandler
<1>3. ASSUME NEW s, todo' = [todo EXCEPT ![Gui] = s], GoodGui(s)
      PROVE  ScriptInv' /\ todo'[Gui] = s /\ todo'[Receiver] = todo[Receiver]
  <2>1. /\ todo' = [u \in ServerThread |-> todo'[u]] /\ todo'[Gui] = s /\ todo'[Receiver] = todo[Receiver]
    BY <1>1, <1>3 DEF ScriptInv
  <2>2. QED
    BY <1>3, <2>1 DEF ScriptInv, GoodGui
<1>4. QED
  BY <1>2, <1>3

-----------------------------------------------------------------------------
(* The locks *)

\* The instructions are all different.
LEMMA InstructionsDiffer ==
    /\ \A w, l : Do(w) # Unlock(l) /\ Do(w) # Read(l) /\ Do(w) # Write(l)
    /\ \A k, l : Unlock(k) # Read(l) /\ Unlock(k) # Write(l) /\ Read(k) # Write(l)
    /\ \A v, w : Do(v) = Do(w) => v = w
    /\ \A k, l : Read(k) = Read(l) \/ Write(k) = Write(l) \/ Unlock(k) = Unlock(l) => k = l
BY DEF Do, Unlock, Read, Write

\* A script goes on while it holds what its next step needs.
LEMMA GuardedOn ==
    ASSUME NEW S, NEW s \in Seq(S), s # <<>>, NEW k
    PROVE  /\ Head(s) = Unlock(k) =>
                /\ ~Guarded(s, k)
                /\ Retakes(s, k) => Guarded(Tail(s), k)
                /\ \A l : l # k /\ Guarded(s, l) => Guarded(Tail(s), l)
           /\ Head(s) = Read(k) \/ Head(s) = Write(k) => \A l : l # k /\ Guarded(s, l) => Guarded(Tail(s), l)
           /\ Head(s) = Do(k) => \A l : Guarded(s, l) => Guarded(Tail(s), l)
<1>1. ASSUME Head(s) = Unlock(k)
      PROVE  /\ ~Guarded(s, k)
             /\ Retakes(s, k) => Guarded(Tail(s), k)
             /\ \A l : l # k /\ Guarded(s, l) => Guarded(Tail(s), l)
  <2>1. Needs(Head(s), k) /\ \A l : ~Takes(Head(s), l)
    BY <1>1, InstructionsDiffer DEF Needs, Takes
  <2>2. QED
    BY <1>1, <2>1, GuardedTail
<1>2. ASSUME Head(s) = Read(k) \/ Head(s) = Write(k)
      PROVE  \A l : l # k /\ Guarded(s, l) => Guarded(Tail(s), l)
  <2>1. \A l : l # k => ~Takes(Head(s), l)
    BY <1>2, InstructionsDiffer DEF Takes
  <2>2. QED
    BY <2>1, GuardedTail
<1>3. ASSUME Head(s) = Do(k) PROVE \A l : Guarded(s, l) => Guarded(Tail(s), l)
  <2>1. \A l : ~Takes(Head(s), l)
    BY <1>3, InstructionsDiffer DEF Takes
  <2>2. QED
    BY <2>1, GuardedTail
<1>4. QED
  BY <1>1, <1>2, <1>3

\* The GUI thread keeps the order of the scripts and the rules of the locks when it
\* takes or gives back a lock.
LEMMA GuiLocksHold ==
    ASSUME ScriptInv, HoldInv, Locking(Gui)
    PROVE  ScriptInv' /\ HoldInv'
<1>1. Busy(Gui) /\ Advance(Gui) /\ Gui \in ServerThread /\ Receiver \in ServerThread \ {Gui}
  BY LockingOfGui DEF ServerThread, Gui, Receiver
<1>2. ScriptInv' /\ todo'[Gui] = Tail(todo[Gui]) /\ todo'[Receiver] = todo[Receiver]
  BY <1>1, AdvanceScripts
<1>3. todo[Gui] \in Seq(GuiInstruction) /\ todo[Gui] # <<>> /\ \A l \in Lock : Retakes(todo[Gui], l)
  BY <1>1 DEF ScriptInv, GuiScriptOK, Busy
<1>4. PICK l \in Lock :
        \/ /\ Head(todo[Gui]) = Read(l) /\ writing[l] = NULL
           /\ reading' = [reading EXCEPT ![l] = @ \cup {Gui}] /\ writing' = writing
        \/ /\ Head(todo[Gui]) = Unlock(l)
           /\ reading' = [reading EXCEPT ![l] = @ \ {Gui}] /\ writing' = [writing EXCEPT ![l] = NULL]
  BY LockingOfGui
<1>5. CASE /\ Head(todo[Gui]) = Read(l) /\ writing[l] = NULL
           /\ reading' = [reading EXCEPT ![l] = @ \cup {Gui}] /\ writing' = writing
  <2>1. /\ reading' \in [Lock -> SUBSET {Gui}] /\ Gui \in reading'[l]
        /\ \A k \in Lock \ {l} : reading'[k] = reading[k]
    BY <1>5 DEF HoldInv
  <2>2. \A k \in Lock \ {l} : Guarded(todo[Gui], k) => Guarded(Tail(todo[Gui]), k)
    BY <1>3, <1>5, GuardedOn
  <2>3. \A k \in Lock : Gui \in reading'[k] \/ Guarded(todo'[Gui], k)
    BY <1>2, <2>1, <2>2 DEF HoldInv
  <2>4. \A k \in Lock : writing'[k] # NULL => reading'[k] = {}
    BY <1>5, <2>1 DEF HoldInv
  <2>5. QED
    BY <1>2, <1>5, <2>1, <2>3, <2>4 DEF HoldInv
<1>6. CASE /\ Head(todo[Gui]) = Unlock(l)
           /\ reading' = [reading EXCEPT ![l] = @ \ {Gui}] /\ writing' = [writing EXCEPT ![l] = NULL]
  <2>1. ~Guarded(todo[Gui], l) /\ Guarded(Tail(todo[Gui]), l)
        /\ \A k \in Lock \ {l} : Guarded(todo[Gui], k) => Guarded(Tail(todo[Gui]), k)
    BY <1>3, <1>6, GuardedOn
  <2>2. Gui \in reading[l] /\ writing[l] = NULL
    BY <2>1 DEF HoldInv
  <2>3. writing' = writing
    BY <1>6, <2>2 DEF HoldInv
  <2>4. /\ reading' \in [Lock -> SUBSET {Gui}] /\ \A k \in Lock \ {l} : reading'[k] = reading[k]
    BY <1>6 DEF HoldInv
  <2>5. \A k \in Lock : Gui \in reading'[k] \/ Guarded(todo'[Gui], k)
    BY <1>2, <2>1, <2>4 DEF HoldInv
  <2>6. \A k \in Lock : writing'[k] # NULL => reading'[k] = {}
    BY <2>2, <2>3, <2>4 DEF HoldInv
  <2>7. QED
    BY <1>2, <2>3, <2>4, <2>5, <2>6 DEF HoldInv
<1>7. QED
  BY <1>4, <1>5, <1>6

\* So does the receiving thread.
LEMMA ReceiverLocksHold ==
    ASSUME ScriptInv, HoldInv, Locking(Receiver)
    PROVE  ScriptInv' /\ HoldInv'
<1>1. Busy(Receiver) /\ Advance(Receiver) /\ Receiver \in ServerThread /\ Gui \in ServerThread \ {Receiver}
  BY LockingOfReceiver DEF ServerThread, Gui, Receiver
<1>2. ScriptInv' /\ todo'[Receiver] = Tail(todo[Receiver]) /\ todo'[Gui] = todo[Gui]
  BY <1>1, AdvanceScripts
<1>3. todo[Receiver] \in Seq(ReceiverInstruction) /\ todo[Receiver] # <<>> /\ \A l \in Lock : Retakes(todo[Receiver], l)
  BY <1>1 DEF ScriptInv, ReceiverScript, Busy
<1>4. PICK l \in Lock :
        \/ /\ Head(todo[Receiver]) = Write(l) /\ writing[l] = NULL /\ reading[l] = {}
           /\ writing' = [writing EXCEPT ![l] = Receiver] /\ reading' = reading
        \/ /\ Head(todo[Receiver]) = Unlock(l)
           /\ reading' = [reading EXCEPT ![l] = @ \ {Receiver}] /\ writing' = [writing EXCEPT ![l] = NULL]
  BY LockingOfReceiver
<1>5. CASE /\ Head(todo[Receiver]) = Write(l) /\ writing[l] = NULL /\ reading[l] = {}
           /\ writing' = [writing EXCEPT ![l] = Receiver] /\ reading' = reading
  <2>1. /\ writing' \in [Lock -> {Receiver, NULL}] /\ writing'[l] = Receiver
        /\ \A k \in Lock \ {l} : writing'[k] = writing[k]
    BY <1>5 DEF HoldInv
  <2>2. \A k \in Lock \ {l} : Guarded(todo[Receiver], k) => Guarded(Tail(todo[Receiver]), k)
    BY <1>3, <1>5, GuardedOn
  <2>3. \A k \in Lock : writing'[k] = Receiver \/ Guarded(todo'[Receiver], k)
    BY <1>2, <2>1, <2>2 DEF HoldInv
  <2>4. \A k \in Lock : writing'[k] # NULL => reading'[k] = {}
    BY <1>5, <2>1 DEF HoldInv
  <2>5. QED
    BY <1>2, <1>5, <2>1, <2>3, <2>4 DEF HoldInv
<1>6. CASE /\ Head(todo[Receiver]) = Unlock(l)
           /\ reading' = [reading EXCEPT ![l] = @ \ {Receiver}] /\ writing' = [writing EXCEPT ![l] = NULL]
  <2>1. Guarded(Tail(todo[Receiver]), l)
        /\ \A k \in Lock \ {l} : Guarded(todo[Receiver], k) => Guarded(Tail(todo[Receiver]), k)
    BY <1>3, <1>6, GuardedOn
  <2>2. reading' = reading
    BY <1>6 DEF HoldInv, Gui, Receiver
  <2>3. /\ writing' \in [Lock -> {Receiver, NULL}] /\ writing'[l] = NULL
        /\ \A k \in Lock \ {l} : writing'[k] = writing[k]
    BY <1>6 DEF HoldInv
  <2>4. \A k \in Lock : writing'[k] = Receiver \/ Guarded(todo'[Receiver], k)
    BY <1>2, <2>1, <2>3 DEF HoldInv
  <2>5. \A k \in Lock : writing'[k] # NULL => reading'[k] = {}
    BY <2>2, <2>3 DEF HoldInv
  <2>6. QED
    BY <1>2, <2>2, <2>3, <2>4, <2>5 DEF HoldInv
<1>7. QED
  BY <1>4, <1>5, <1>6

\* So does a thread that works.
LEMMA DoingHolds ==
    ASSUME ScriptInv, HoldInv, NEW t \in ServerThread, Doing(t)
    PROVE  ScriptInv' /\ HoldInv'
<1>1. reading' = reading /\ writing' = writing
  BY DEF Doing, lockVars
<1>2. CASE t = Gui
  <2>1. PICK w \in GuiDoes : /\ Busy(Gui) /\ Head(todo[Gui]) = Do(w)
                             /\ Repeats(w) => todo' = todo
                             /\ ~Repeats(w) => Advance(Gui)
    BY <1>2, DoingOfGui
  <2>2. CASE todo' = todo
    BY <1>1, <2>2 DEF ScriptInv, HoldInv
  <2>3. CASE Advance(Gui)
    <3>1. Gui \in ServerThread /\ Receiver \in ServerThread \ {Gui}
      BY DEF ServerThread, Gui, Receiver
    <3>2. ScriptInv' /\ todo'[Gui] = Tail(todo[Gui]) /\ todo'[Receiver] = todo[Receiver]
      BY <2>1, <2>3, <3>1, AdvanceScripts
    <3>3. todo[Gui] \in Seq(GuiInstruction) /\ todo[Gui] # <<>>
      BY <2>1 DEF ScriptInv, GuiScriptOK, Busy
    <3>4. \A l : Guarded(todo[Gui], l) => Guarded(Tail(todo[Gui]), l)
      BY <2>1, <3>3, GuardedOn
    <3>5. QED
      BY <1>1, <3>2, <3>4 DEF HoldInv
  <2>4. QED
    BY <2>1, <2>2, <2>3
<1>3. CASE t = Receiver
  <2>1. PICK w \in ReceiverDoes : Busy(Receiver) /\ Head(todo[Receiver]) = Do(w) /\ Advance(Receiver)
    BY <1>3, DoingOfReceiver
  <2>2. Receiver \in ServerThread /\ Gui \in ServerThread \ {Receiver}
    BY DEF ServerThread, Gui, Receiver
  <2>3. ScriptInv' /\ todo'[Receiver] = Tail(todo[Receiver]) /\ todo'[Gui] = todo[Gui]
    BY <2>1, <2>2, AdvanceScripts
  <2>4. todo[Receiver] \in Seq(ReceiverInstruction) /\ todo[Receiver] # <<>>
    BY <2>1 DEF ScriptInv, ReceiverScript, Busy
  <2>5. \A l : Guarded(todo[Receiver], l) => Guarded(Tail(todo[Receiver]), l)
    BY <2>1, <2>4, GuardedOn
  <2>6. QED
    BY <1>1, <2>3, <2>5 DEF HoldInv
<1>4. QED
  BY <1>2, <1>3 DEF ServerThread

\* So does a handler or a callback that starts.
LEMMA StartingHolds ==
    ASSUME ScriptInv, HoldInv, (\E m \in Messages : Receive(m)) \/ FilterClicked \/ Timeout \/ DoubleClicked
    PROVE  ScriptInv' /\ HoldInv'
<1>1. ASSUME NEW m \in Messages, Receive(m) PROVE ScriptInv' /\ HoldInv'
  <2>1. reading' = reading /\ writing' = writing /\ todo' = [todo EXCEPT ![Receiver] = Handler(m)]
    BY <1>1 DEF Receive, lockVars
  <2>2. ScriptInv' /\ todo'[Receiver] = Handler(m) /\ todo'[Gui] = todo[Gui]
    BY <2>1, StartScripts
  <2>3. \A l \in Lock : Guarded(Handler(m), l)
    BY HandlersAreGood DEF GoodHandler
  <2>4. QED
    BY <2>1, <2>2, <2>3 DEF HoldInv
<1>2. ASSUME NEW s, GoodGui(s), GuiStarts(s) PROVE ScriptInv' /\ HoldInv'
  <2>1. reading' = reading /\ writing' = writing /\ todo' = [todo EXCEPT ![Gui] = s]
    BY <1>2 DEF GuiStarts, lockVars
  <2>2. ScriptInv' /\ todo'[Gui] = s /\ todo'[Receiver] = todo[Receiver]
    BY <1>2, <2>1, StartScripts
  <2>3. QED
    BY <1>2, <2>1, <2>2 DEF HoldInv, GoodGui
<1>3. QED
  BY <1>1, <1>2, GuiScriptsAreGood DEF FilterClicked, Timeout, DoubleClicked

\* Every step keeps the order of the scripts and the rules of the locks.
LEMMA NextHolds == ScriptInv /\ HoldInv /\ [Next]_vars => ScriptInv' /\ HoldInv'
<1> SUFFICES ASSUME ScriptInv, HoldInv, [Next]_vars PROVE ScriptInv' /\ HoldInv'
  OBVIOUS
<1>1. CASE \E t \in ServerThread : Step(t)
  BY <1>1, GuiLocksHold, ReceiverLocksHold, DoingHolds DEF Step, ServerThread
<1>2. CASE (\E m \in Messages : Receive(m)) \/ FilterClicked \/ Timeout \/ DoubleClicked
  BY <1>2, StartingHolds
<1>3. CASE WindowClosed
  BY <1>3 DEF WindowClosed, lockVars, ScriptInv, HoldInv
<1>4. CASE UNCHANGED vars
  BY <1>4 DEF vars, controlVars, lockVars, ScriptInv, HoldInv
<1>5. QED
  BY <1>1, <1>2, <1>3, <1>4 DEF Next

\* They hold in the beginning.
LEMMA InitHolds == Init => ScriptInv /\ HoldInv
<1> SUFFICES ASSUME Init PROVE ScriptInv /\ HoldInv
  OBVIOUS
<1>1. todo = [t \in ServerThread |-> <<>>] /\ writing = [l \in Lock |-> NULL] /\ reading = [l \in Lock |-> {}]
  BY DEF Init
<1>2. todo[Gui] = <<>> /\ todo[Receiver] = <<>> /\ todo = [t \in ServerThread |-> todo[t]]
  BY <1>1 DEF ServerThread
<1>3. QED
  BY <1>1, <1>2, EmptyScript DEF ScriptInv, HoldInv

-----------------------------------------------------------------------------
(* The types *)

\* s is a sequence of something
IsList(s) == \E S : s \in Seq(S)

\* A sequence over a set is one over every larger set.
LEMMA SeqMore == ASSUME NEW S, NEW T, S \subseteq T, NEW s \in Seq(S) PROVE s \in Seq(T)
<1>1. Len(s) \in Nat /\ s \in [1..Len(s) -> S]
  BY LenProperties
<1>2. s \in [1..Len(s) -> T]
  BY <1>1
<1>3. QED
  BY <1>1, <1>2, SeqDef

\* A list with x at its end.
LEMMA ListAppend ==
    ASSUME NEW s, IsList(s), NEW x
    PROVE  /\ IsList(Append(s, x)) /\ Len(s) \in Nat /\ Len(Append(s, x)) = Len(s) + 1
           /\ \A i \in 1..Len(s) : Append(s, x)[i] = s[i]
           /\ Append(s, x)[Len(s) + 1] = x
<1>1. PICK S : s \in Seq(S)
  BY DEF IsList
<1>2. s \in Seq(S \cup {x}) /\ x \in S \cup {x}
  BY <1>1, SeqMore
<1>3. QED
  BY <1>2, AppendProperties, LenProperties DEF IsList

\* The rest of a list is a list.
LEMMA ListTail ==
    ASSUME NEW s, IsList(s), s # <<>>
    PROVE  IsList(Tail(s))
BY TailFacts DEF IsList

\* So is a list with another element at some place.
LEMMA ListExcept ==
    ASSUME NEW s, IsList(s), NEW e, NEW x
    PROVE  IsList([s EXCEPT ![e] = x])
<1>1. PICK S : s \in Seq(S)
  BY DEF IsList
<1>2. Len(s) \in Nat /\ s \in [1..Len(s) -> S]
  BY <1>1, LenProperties
<1>3. [s EXCEPT ![e] = x] \in [1..Len(s) -> S \cup {x}]
  BY <1>2
<1>4. [s EXCEPT ![e] = x] \in Seq(S \cup {x})
  BY <1>2, <1>3, SeqDef
<1>5. QED
  BY <1>4 DEF IsList

\* A set of seconds up to n is finite, and has a last one unless it is empty.
LEMMA FiniteSeconds ==
    ASSUME NEW n \in Nat, NEW S, S \subseteq 1..n
    PROVE  IsFiniteSet(S) /\ S \subseteq Int /\ (S # {} => Max(S) \in S)
<1>1. IsFiniteSet(1..n)
  BY FS_Interval
<1>2. IsFiniteSet(S)
  BY <1>1, FS_Subset
<1>3. S \subseteq Int
  OBVIOUS
<1>4. QED
  BY <1>2, <1>3, MaxOfFinite

-----------------------------------------------------------------------------

\* an entry of m_listMemoryOperation
OpType == [num : Nat, code : {"malloc", "free"}, thread : {Main, NULL}, ptr : Addr \cup {NULL}, size : Nat,
           free : Addr \cup {NULL}, freed : BOOLEAN, bt : Nat \cup {NULL}]

\* The list of operations, the table of threads, the usage by second and the statistics.
OpsOK ==
    /\ m_listMemoryOperation \in Seq(OpType)
    /\ m_listMemoryOperationNonFreed \subseteq 1..Len(m_listMemoryOperation)
    /\ m_listMemoryOperationWithoutBacktrace \subseteq 1..Len(m_listMemoryOperation)

TableOK(T) ==
    /\ T = [infos |-> T.infos, listed |-> T.listed, alive |-> T.alive]
    /\ IsList(T.infos) /\ T.listed \subseteq Nat

UsageOK(u) == DOMAIN u.sizes \subseteq 1..MaxTime /\ \A t \in DOMAIN u.sizes : u.sizes[t] \in Nat

StatsOK(s) ==
    /\ s = [messages |-> s.messages, start |-> s.start, last |-> s.last, ops |-> s.ops,
            allocCount |-> s.allocCount, allocSize |-> s.allocSize, freeCount |-> s.freeCount, freeSize |-> s.freeSize,
            remainingCount |-> s.remainingCount, remainingSize |-> s.remainingSize, peak |-> s.peak,
            byCode |-> s.byCode, usage |-> s.usage]
    /\ s.last \in 0..MaxTime /\ s.remainingSize \in Nat /\ UsageOK(s.usage)

\* the messages of a traced process in this model
MsgType == [code : {"init", "symbol", "backtrace", "pthread_create", "malloc", "free"}, thread : {Main, NULL},
            num : Nat, time : Nat, ptr : Addr \cup {NULL}, size : Nat, free : Addr \cup {NULL},
            tid : {Main, NULL}, origin : Nat, born : {NULL}]

\* a memory message, with the second it was sent in
IsOperation(m) == m.code \in {"malloc", "free"} /\ m.time \in 1..MaxTime

\* Only a memory message is handled as one.
MsgOK == msg \in MsgType /\ (Has(todo[Receiver], "operation") => IsOperation(msg))

\* what the window is made of
SourcesOK ==
    /\ OpsOK /\ TableOK(Table) /\ StatsOK(m_globalStats)
    /\ opsSession \in Nat /\ statsSession \in Nat

\* A search is under way only between two instructions of onFilterButtonClicked's loop,
\* and has not gone further than the list.
SearchOK ==
    /\ searched \in 0..Len(m_listMemoryOperation)
    /\ searched # 0 => Busy(Gui) /\ Head(todo[Gui]) = Do("search")
    /\ m_listFilterMemoryOperation \in Seq(Nat \X Nat)

\* the rows, the chart, and the rest
RowsOK ==
    /\ filter \in Filters \cup {NULL} /\ rowCount \in Nat /\ m_iLoadedCount \in Nat
    /\ m_listFilterThreadInfos \subseteq Nat \X Nat

ChartOK ==
    /\ IsList(memoryUsageUpdate) /\ IsList(chart)
    /\ m_iLastUpdateTime \in 0..MaxTime /\ m_iLastUpdateValue \in Nat

ScalarOK == stopping \in BOOLEAN /\ late \in BOOLEAN /\ received \in 0..MaxReceived

\* The type of every variable.
TypeInv == MsgOK /\ SourcesOK /\ SearchOK /\ RowsOK /\ ChartOK /\ ScalarOK

\* The initial values have their types.
LEMMA InitTypes == Init => TypeInv
<1> SUFFICES ASSUME Init PROVE TypeInv
  OBVIOUS
<1>1. todo[Receiver] = <<>> /\ todo[Gui] = <<>>
  BY DEF Init, ServerThread
<1>2. MsgOK
  BY <1>1, EmptyScript DEF Init, MsgOK, MsgType, NoMsg, Msg
<1>3. OpsOK /\ TableOK(Table)
  BY DEF Init, ControllerInit, OpsOK, TableOK, Table, IsList
<1>4. StatsOK(m_globalStats)
  BY ViewAssumption DEF Init, ControllerInit, StatsOK, NewStats, UsageOK, EmptyUsage
<1>5. SearchOK
  BY DEF Init, ControllerInit, SearchOK
<1>6. RowsOK /\ ScalarOK
  <2>1. RowsOK
    BY DEF Init, RowsOK
  <2>2. received = 0 /\ 0 \in 0..MaxReceived
    BY ViewAssumption DEF Init
  <2>3. ScalarOK
    BY <2>2 DEF Init, ScalarOK
  <2>4. QED
    BY <2>1, <2>3
<1>7. ChartOK
  BY ViewAssumption DEF Init, ChartOK, IsList
<1>8. QED
  BY <1>2, <1>3, <1>4, <1>5, <1>6, <1>7 DEF TypeInv, SourcesOK, Init

\* The invariants say more than TypeOK.
LEMMA TypesGiveTypeOK == ScriptInv /\ HoldInv /\ TypeInv => TypeOK
<1> SUFFICES ASSUME ScriptInv, HoldInv, TypeInv PROVE TypeOK
  OBVIOUS
<1>1. \A l \in Lock : /\ writing[l] \in ServerThread \cup {NULL} /\ reading[l] \subseteq ServerThread
                      /\ writing[l] # NULL => reading[l] = {}
  BY DEF HoldInv, ServerThread
<1>2. \A i \in 1..Len(m_listFilterMemoryOperation) : m_listFilterMemoryOperation[i] \in Nat \X Nat
  BY ElementOfSeq DEF TypeInv, SearchOK
<1>3. QED
  BY <1>1, <1>2 DEF TypeInv, TypeOK, SourcesOK, SearchOK, RowsOK, ChartOK, ScalarOK

-----------------------------------------------------------------------------
(* What the types allow: tables, statistics, lists *)

\* A machine word is a natural number.
LEMMA WordsAreNat == \A x \in Int : ToWord(x) \in Nat
BY RangeAssumption DEF ToWord

\* A table with another thread information in a place is a table.
LEMMA InfosExcept ==
    ASSUME NEW T, TableOK(T), NEW e, NEW x
    PROVE  TableOK([T EXCEPT !.infos[e] = x])
<1>1. IsList([T.infos EXCEPT ![e] = x])
  BY ListExcept DEF TableOK
<1>2. [T EXCEPT !.infos[e] = x] = [infos |-> [T.infos EXCEPT ![e] = x], listed |-> T.listed, alive |-> T.alive]
  BY DEF TableOK
<1> DEFINE i == [T.infos EXCEPT ![e] = x]
<1> HIDE DEF i
<1>3. IsList(i)
  BY <1>1 DEF i
<1>4. TableOK([infos |-> i, listed |-> T.listed, alive |-> T.alive])
  BY <1>3 DEF TableOK
<1>5. QED
  BY <1>2, <1>4 DEF i

\* A table with one more entry is one.
LEMMA AddEntryTable ==
    ASSUME NEW T, TableOK(T), NEW tid
    PROVE  TableOK(AddEntry(T, tid))
<1> DEFINE i == Append(T.infos, NewThreadInfos(tid, IF T.listed = {} THEN "main" ELSE ""))
           e == Len(T.infos) + 1
<1>1. IsList(i) /\ e \in Nat
  BY ListAppend DEF TableOK
<1>2. AddEntry(T, tid) = [infos |-> i, listed |-> T.listed \cup {e}, alive |-> T.alive \cup {e}]
  BY DEF AddEntry
<1> HIDE DEF i, e
<1>3. QED
  BY <1>1, <1>2 DEF TableOK

\* A table with one more thread is one.
LEMMA WithThreadInfosTable ==
    ASSUME NEW T, TableOK(T), NEW tid, NEW created
    PROVE  TableOK(withThreadInfos(T, tid, created))
<1>1. TableOK(Retire(T, tid))
  <2> DEFINE g == getById(T, T.alive, tid)
             r == removeById(T, T.alive, tid)
             i == [T.infos EXCEPT ![g].terminated = TRUE]
  <2>1. i = [T.infos EXCEPT ![g] = [T.infos[g] EXCEPT !.terminated = TRUE]]
    OBVIOUS
  <2>2. IsList(i)
    BY <2>1, ListExcept DEF TableOK
  <2>3. Retire(T, tid) = [T EXCEPT !.infos[g].terminated = TRUE, !.alive = r]
    BY DEF Retire
  <2> HIDE DEF g, r
  <2>4. Retire(T, tid) = [infos |-> i, listed |-> T.listed, alive |-> r]
    BY <2>3 DEF TableOK
  <2> HIDE DEF i
  <2>5. QED
    BY <2>2, <2>4 DEF TableOK
<1>2. QED
  BY <1>1, AddEntryTable DEF withThreadInfos

\* A table that counted an operation is one.
LEMMA CountingTable ==
    ASSUME NEW T, TableOK(T), NEW o
    PROVE  TableOK(AddAlloc(T, o)) /\ TableOK(AddFree(T, o))
<1>1. TableOK(AddAlloc(T, o))
  <2> DEFINE U == withThreadInfos(T, o.thread, FALSE)
             e == getById(U, U.alive, o.thread)
             x == Allocated(U.infos[e], o)
  <2>1. TableOK(U)
    BY WithThreadInfosTable
  <2>2. AddAlloc(T, o) = [U EXCEPT !.infos[e] = x]
    BY DEF AddAlloc
  <2> HIDE DEF U, e, x
  <2>3. QED
    BY <2>1, <2>2, InfosExcept
<1>2. TableOK(AddFree(T, o))
  <2> DEFINE known == getThreadInfosForMsgNum(T, o.thread, o.num)
             U == IF known = NULL THEN withThreadInfos(T, o.thread, FALSE) ELSE T
             e == IF known = NULL THEN getById(U, U.alive, o.thread) ELSE known
             x == Released(U.infos[e], o)
  <2>1. TableOK(U)
    BY WithThreadInfosTable
  <2>2. AddFree(T, o) = [U EXCEPT !.infos[e] = x]
    BY DEF AddFree
  <2> HIDE DEF U, e, x
  <2>3. QED
    BY <2>1, <2>2, InfosExcept
<1>3. QED
  BY <1>1, <1>2

\* A table the thread variables are set to is theirs.
LEMMA SetTableOK ==
    ASSUME NEW T, TableOK(T), SetTable(T)
    PROVE  TableOK(Table)'
<1>1. Table' = T
  BY DEF SetTable, Table, TableOK
<1>2. TableOK(Table')
  BY <1>1
<1>3. QED
  BY <1>2 DEF TableOK

\* A usage by second that a size was added to is one.
LEMMA UpdateUsage ==
    ASSUME NEW u, UsageOK(u), NEW t \in 1..MaxTime, NEW size \in Nat
    PROVE  UsageOK(update(u, t, size))
<1>1. UsageOK(Insert(u, t, size))
  BY DEF Insert, UsageOK
<1>2. QED
  BY <1>1 DEF update

\* Statistics that counted a message are statistics.
LEMMA CountMessageOK == ASSUME NEW s, StatsOK(s) PROVE StatsOK(CountMessage(s))
BY DEF StatsOK, CountMessage

\* So are cleared ones.
LEMMA ResetStatsOK == \A s : StatsOK(ResetStats(s))
<1> SUFFICES ASSUME NEW s PROVE StatsOK(ResetStats(s))
  OBVIOUS
<1>1. UsageOK(EmptyUsage)
  BY DEF UsageOK, EmptyUsage
<1> DEFINE r == ResetStats(s)
<1>2. /\ r = [messages |-> r.messages, start |-> r.start, last |-> r.last, ops |-> r.ops,
              allocCount |-> r.allocCount, allocSize |-> r.allocSize, freeCount |-> r.freeCount, freeSize |-> r.freeSize,
              remainingCount |-> r.remainingCount, remainingSize |-> r.remainingSize, peak |-> r.peak,
              byCode |-> r.byCode, usage |-> r.usage]
      /\ r.last = 0 /\ r.remainingSize = 0 /\ r.usage = EmptyUsage
  BY DEF ResetStats, NewStats
<1> HIDE DEF r
<1>3. StatsOK(r)
  BY <1>1, <1>2, ViewAssumption DEF StatsOK
<1>4. QED
  BY <1>3 DEF r

\* So are those that counted an operation; the size that remains stays one.
LEMMA CountOperationOK ==
    ASSUME NEW s, StatsOK(s), NEW m \in MsgType, m.time \in 1..MaxTime, NEW freedSize \in Nat \cup {NULL}
    PROVE  StatsOK(CountOperation(s, m, freedSize)) /\ Grown(s, m) \in Nat
<1>1. m.size \in Nat /\ s.remainingSize \in Nat
  BY DEF MsgType, StatsOK
<1>2. Grown(s, m) \in Nat
  BY <1>1, WordsAreNat DEF Grown
<1>3. Remaining(s, m, freedSize) \in Nat
  <2>1. CASE freedSize = NULL
    BY <1>2, <2>1 DEF Remaining
  <2>2. CASE freedSize \in Nat
    <3>1. freedSize # NULL
      BY <2>2, CodeAssumption
    <3>2. Grown(s, m) - freedSize \in Int
      BY <1>2, <2>2
    <3>3. QED
      BY <3>1, <3>2, WordsAreNat DEF Remaining
  <2>3. QED
    BY <2>1, <2>2
<1>4. UsageOK(update(s.usage, m.time, Remaining(s, m, freedSize)))
  BY <1>3, UpdateUsage DEF StatsOK
<1> DEFINE r == CountOperation(s, m, freedSize)
<1>5. /\ r = [messages |-> r.messages, start |-> r.start, last |-> r.last, ops |-> r.ops,
              allocCount |-> r.allocCount, allocSize |-> r.allocSize, freeCount |-> r.freeCount, freeSize |-> r.freeSize,
              remainingCount |-> r.remainingCount, remainingSize |-> r.remainingSize, peak |-> r.peak,
              byCode |-> r.byCode, usage |-> r.usage]
      /\ r.last = m.time /\ r.remainingSize = Remaining(s, m, freedSize)
      /\ r.usage = update(s.usage, m.time, Remaining(s, m, freedSize))
  BY DEF CountOperation
<1> HIDE DEF r
<1>6. r.last \in 0..MaxTime
  BY <1>5
<1>7. StatsOK(r)
  BY <1>3, <1>4, <1>5, <1>6 DEF StatsOK
<1>8. QED
  BY <1>2, <1>7 DEF r

\* What is looked up in the list of operations is in it.
LEMMA OperationInList ==
    ASSUME OpsOK
    PROVE  /\ Len(m_listMemoryOperation) \in Nat
           /\ \A i \in 1..Len(m_listMemoryOperation) : m_listMemoryOperation[i] \in OpType
           /\ \A p \in Addr \cup {NULL} : LET i == takeByPtrNotFreed(p) IN i # NULL => i \in 1..Len(m_listMemoryOperation)
           /\ \A n \in Nat : LET i == takeByMsgNum(n) IN i # NULL => i \in 1..Len(m_listMemoryOperation)
<1> DEFINE n == Len(m_listMemoryOperation)
<1>1. n \in Nat /\ \A i \in 1..n : m_listMemoryOperation[i] \in OpType
  BY LenProperties, ElementOfSeq DEF OpsOK
<1>2. \A p : LET i == takeByPtrNotFreed(p) IN i # NULL => i \in 1..n
  <2> SUFFICES ASSUME NEW p PROVE LET i == takeByPtrNotFreed(p) IN i # NULL => i \in 1..n
    OBVIOUS
  <2> DEFINE found == {i \in m_listMemoryOperationNonFreed : m_listMemoryOperation[i].ptr = p /\ ~m_listMemoryOperation[i].freed}
  <2>1. takeByPtrNotFreed(p) = IF p = NULL \/ found = {} THEN NULL ELSE Max(found)
    BY DEF takeByPtrNotFreed
  <2>2. found \subseteq 1..n
    BY DEF OpsOK
  <2> HIDE DEF found, n
  <2>3. found # {} => Max(found) \in 1..n
    BY <1>1, <2>2, FiniteSeconds
  <2>4. QED
    BY <2>1, <2>3
<1>3. \A m : LET i == takeByMsgNum(m) IN i # NULL => i \in 1..n
  <2> SUFFICES ASSUME NEW m PROVE LET i == takeByMsgNum(m) IN i # NULL => i \in 1..n
    OBVIOUS
  <2> DEFINE found == {i \in m_listMemoryOperationWithoutBacktrace : m_listMemoryOperation[i].num = m}
  <2>1. takeByMsgNum(m) = IF found = {} THEN NULL ELSE Max(found)
    BY DEF takeByMsgNum
  <2>2. found \subseteq 1..n
    BY DEF OpsOK
  <2> HIDE DEF found, n
  <2>3. found # {} => Max(found) \in 1..n
    BY <1>1, <2>2, FiniteSeconds
  <2>4. QED
    BY <2>1, <2>3
<1>4. QED
  BY <1>1, <1>2, <1>3

\* A memory message keeps the types, and adds one operation.
LEMMA OperationKeeps ==
    ASSUME OpsOK, TableOK(Table), StatsOK(m_globalStats), msg \in MsgType, IsOperation(msg), addMemoryOperation(msg)
    PROVE  /\ OpsOK' /\ TableOK(Table)' /\ StatsOK(m_globalStats)'
           /\ Len(m_listMemoryOperation') = Len(m_listMemoryOperation) + 1
<1> DEFINE freed == takeByPtrNotFreed(msg.free)
           n == Len(m_listMemoryOperation)
           freedOp == m_listMemoryOperation[freed]
           o == [freedOp EXCEPT !.freed = TRUE]
           marked == IF freed = NULL THEN m_listMemoryOperation ELSE [m_listMemoryOperation EXCEPT ![freed] = o]
           new == [num |-> msg.num, code |-> msg.code, thread |-> msg.thread, ptr |-> msg.ptr, size |-> msg.size,
                   free |-> msg.free, freed |-> FALSE, bt |-> NULL]
           afterFree == IF freed = NULL THEN Table ELSE AddFree(Table, freedOp)
           size == IF freed = NULL THEN NULL ELSE freedOp.size
<1>1. /\ m_listMemoryOperation' = Append(marked, new)
      /\ m_listMemoryOperationNonFreed' = (m_listMemoryOperationNonFreed \ {freed}) \cup {n + 1}
      /\ m_listMemoryOperationWithoutBacktrace' = m_listMemoryOperationWithoutBacktrace \cup {n + 1}
      /\ m_globalStats' = CountOperation(m_globalStats, msg, size)
      /\ SetTable(IF msg.ptr = NULL THEN afterFree ELSE AddAlloc(afterFree, msg))
  BY DEF addMemoryOperation
<1>2. new \in OpType
  BY DEF OpType, MsgType, IsOperation
<1>3. n \in Nat /\ (freed # NULL => freed \in 1..n /\ freedOp \in OpType)
  <2>1. msg.free \in Addr \cup {NULL}
    BY DEF MsgType
  <2>2. QED
    BY <2>1, OperationInList
<1>4. freed # NULL => o \in OpType
  BY <1>3 DEF OpType
<1>5. size \in Nat \cup {NULL}
  BY <1>3 DEF OpType
<1>6. m_listMemoryOperation \in Seq(OpType)
  BY DEF OpsOK
<1> HIDE DEF freed, freedOp, o, new, afterFree, size
<1>7. marked \in Seq(OpType) /\ Len(marked) = n
  BY <1>3, <1>4, <1>6, ExceptSeq
<1> HIDE DEF marked
<1>8. m_listMemoryOperation' \in Seq(OpType) /\ Len(m_listMemoryOperation') = n + 1
  BY <1>1, <1>2, <1>7, AppendProperties
<1>9. OpsOK'
  <2>1. 1..n \subseteq 1..(n + 1) /\ n + 1 \in 1..(n + 1)
    BY <1>3
  <2> HIDE DEF n
  <2>2. QED
    BY <1>1, <1>8, <2>1 DEF OpsOK, n
<1>10. StatsOK(m_globalStats)'
  <2>1. StatsOK(m_globalStats')
    BY <1>1, <1>5, CountOperationOK DEF IsOperation
  <2>2. QED
    BY <2>1 DEF StatsOK, UsageOK
<1>11. TableOK(Table)'
  <2>1. TableOK(afterFree)
    BY CountingTable DEF afterFree
  <2>2. TableOK(IF msg.ptr = NULL THEN afterFree ELSE AddAlloc(afterFree, msg))
    BY <2>1, CountingTable
  <2>3. QED
    BY <1>1, <2>2, SetTableOK
<1>12. QED
  BY <1>8, <1>9, <1>10, <1>11

\* A thread message keeps the types and the list of operations.
LEMMA ThreadKeeps ==
    ASSUME TableOK(Table), StatsOK(m_globalStats), updateThreadInfos(msg)
    PROVE  TableOK(Table)' /\ StatsOK(m_globalStats)' /\ UNCHANGED listVars
<1> DEFINE T == withThreadInfos(Table, msg.tid, msg.code = "pthread_create")
           e == getById(T, T.alive, msg.tid)
           created == [T.infos[e] EXCEPT !.creation = msg.num]
           x == [created EXCEPT !.last = msg.num]
           named == [T.infos[e] EXCEPT !.name = "set"]
<1>1. /\ SetTable(IF msg.code = "pthread_create"
                  THEN [T EXCEPT !.infos[e].creation = msg.num, !.infos[e].last = msg.num]
                  ELSE [T EXCEPT !.infos[e].name = "set"])
      /\ m_globalStats' = CountMessage(m_globalStats) /\ UNCHANGED listVars
  BY DEF updateThreadInfos
<1>2. TableOK(T)
  BY WithThreadInfosTable
<1> HIDE DEF T, e
<1>3. /\ [T EXCEPT !.infos[e].name = "set"] = [T EXCEPT !.infos[e] = named]
  OBVIOUS
<1>4. TableOK([T EXCEPT !.infos[e].creation = msg.num, !.infos[e].last = msg.num])
  <2> DEFINE U == [T EXCEPT !.infos[e] = created]
             y == [U.infos[e] EXCEPT !.last = msg.num]
  <2>1. [T EXCEPT !.infos[e].creation = msg.num, !.infos[e].last = msg.num] = [U EXCEPT !.infos[e] = y]
    OBVIOUS
  <2> HIDE DEF created, y
  <2>2. TableOK(U)
    BY <1>2, InfosExcept
  <2> HIDE DEF U
  <2>3. QED
    BY <2>1, <2>2, InfosExcept
<1>5. TableOK([T EXCEPT !.infos[e].name = "set"])
  <2> HIDE DEF named
  <2>1. QED
    BY <1>2, <1>3, InfosExcept
<1>6. TableOK(Table)'
  BY <1>1, <1>4, <1>5, SetTableOK
<1>7. StatsOK(m_globalStats')
  BY <1>1, CountMessageOK
<1>8. QED
  BY <1>1, <1>6, <1>7 DEF StatsOK, UsageOK

\* A backtrace keeps the types and the length of the list.
LEMMA BacktraceKeeps ==
    ASSUME OpsOK, msg \in MsgType, setBacktrace(msg)
    PROVE  OpsOK' /\ Len(m_listMemoryOperation') = Len(m_listMemoryOperation)
<1> DEFINE i == takeByMsgNum(msg.origin)
           n == Len(m_listMemoryOperation)
           o == [m_listMemoryOperation[i] EXCEPT !.bt = msg.num]
<1>1. /\ m_listMemoryOperation' = IF i = NULL THEN m_listMemoryOperation ELSE [m_listMemoryOperation EXCEPT ![i] = o]
      /\ m_listMemoryOperationWithoutBacktrace' = m_listMemoryOperationWithoutBacktrace \ {i}
      /\ m_listMemoryOperationNonFreed' = m_listMemoryOperationNonFreed
  BY DEF setBacktrace
<1>2. msg.origin \in Nat /\ msg.num \in Nat
  BY DEF MsgType
<1>3. n \in Nat /\ (i # NULL => i \in 1..n /\ m_listMemoryOperation[i] \in OpType)
  BY <1>2, OperationInList
<1>4. i # NULL => o \in OpType
  BY <1>2, <1>3 DEF OpType
<1>5. m_listMemoryOperation \in Seq(OpType)
  BY DEF OpsOK
<1> HIDE DEF i, o
<1>6. m_listMemoryOperation' \in Seq(OpType) /\ Len(m_listMemoryOperation') = n
  BY <1>1, <1>3, <1>4, <1>5, ExceptSeq
<1>7. QED
  BY <1>1, <1>6 DEF OpsOK

-----------------------------------------------------------------------------
(* The types: what the steps of each thread keep *)

\* What a step of the GUI thread does, and what it leaves alone.
LEMMA GuiEffects ==
    ASSUME NEW w \in GuiDoes, At(Gui) = <<"do", w>>, Doing(Gui)
    PROVE  /\ UNCHANGED <<msg, received, stopping, lockVars, sourceVars>>
           /\ \/ /\ w \in {"resetSearch", "clearFilter", "search"}
                 /\ DoSearch(w) /\ UNCHANGED <<rowVars, chartVars, late>>
              \/ /\ w \in {"clearRows", "countRows", "fetchTo", "threadRows"}
                 /\ DoRows(w) /\ UNCHANGED <<searchVars, chartVars>>
              \/ /\ w \in {"usage", "draw"}
                 /\ DoChart(w) /\ UNCHANGED <<searchVars, rowVars>>
<1>1. At(Gui)[2] = w
  OBVIOUS
<1>2. ~DoSources(w) /\ w # "nothing"
  BY DEF DoSources, GuiDoes
<1>3. DoSearch(w) => w \in {"resetSearch", "clearFilter", "search"}
  BY DEF DoSearch
<1>4. DoRows(w) => w \in {"clearRows", "countRows", "fetchTo", "threadRows"}
  BY DEF DoRows, GuiDoes
<1>5. DoChart(w) => w \in {"usage", "draw"}
  BY DEF DoChart, GuiDoes
<1>6. QED
  BY <1>1, <1>2, <1>3, <1>4, <1>5 DEF Doing

\* What a step of the receiving thread does, and what it leaves alone.
LEMMA ReceiverEffects ==
    ASSUME NEW w \in ReceiverDoes, At(Receiver) = <<"do", w>>, Doing(Receiver)
    PROVE  /\ UNCHANGED <<msg, received, stopping, lockVars>>
           /\ \/ /\ w \in {"clearOperations", "clearStats", "count", "backtrace", "thread", "operation"}
                 /\ DoSources(w) /\ UNCHANGED <<searchVars, rowVars, chartVars, late>>
              \/ /\ w \in {"resetSearch", "clearFilter"}
                 /\ DoSearch(w) /\ UNCHANGED <<sourceVars, rowVars, chartVars, late>>
              \/ /\ w \in {"clearRows", "clearThreadRows"}
                 /\ DoRows(w) /\ UNCHANGED <<sourceVars, searchVars, chartVars>>
              \/ /\ w \in {"clearChart", "resetLastTime", "resetLastValue"}
                 /\ DoChart(w) /\ UNCHANGED <<sourceVars, searchVars, rowVars>>
              \/ w = "nothing" /\ UNCHANGED <<sourceVars, searchVars, rowVars, chartVars, late>>
<1>1. At(Receiver)[2] = w
  OBVIOUS
<1>2. DoSources(w) => w \in {"clearOperations", "clearStats", "count", "backtrace", "thread", "operation"}
  BY DEF DoSources
<1>3. DoSearch(w) => w \in {"resetSearch", "clearFilter"}
  BY DEF DoSearch, ReceiverDoes, ClearDoes
<1>4. DoRows(w) => w \in {"clearRows", "clearThreadRows"}
  BY DEF DoRows, ReceiverDoes, ClearDoes
<1>5. DoChart(w) => w \in {"clearChart", "resetLastTime", "resetLastValue"}
  BY DEF DoChart, ReceiverDoes, ClearDoes
<1>6. QED
  BY <1>1, <1>2, <1>3, <1>4, <1>5 DEF Doing

\* What is done to the lists and the statistics keeps their types; only clearData
\* makes the list shorter.
LEMMA SourcesKeep ==
    ASSUME SourcesOK, msg \in MsgType, NEW w, w = "operation" => IsOperation(msg), DoSources(w)
    PROVE  /\ SourcesOK'
           /\ w # "clearOperations" =>
                /\ opsSession' = opsSession
                /\ Len(m_listMemoryOperation) \in Nat
                /\ Len(m_listMemoryOperation') \in {Len(m_listMemoryOperation), Len(m_listMemoryOperation) + 1}
<1> DEFINE Keeps == /\ OpsOK' /\ TableOK(Table)' /\ StatsOK(m_globalStats)'
                    /\ opsSession' \in {opsSession, opsSession + 1} /\ statsSession' \in {statsSession, statsSession + 1}
           Longer == /\ opsSession' = opsSession
                     /\ Len(m_listMemoryOperation') \in {Len(m_listMemoryOperation), Len(m_listMemoryOperation) + 1}
<1>1. OpsOK /\ TableOK(Table) /\ StatsOK(m_globalStats) /\ Len(m_listMemoryOperation) \in Nat
      /\ opsSession \in Nat /\ statsSession \in Nat
  BY OperationInList DEF SourcesOK
<1>2. UNCHANGED listVars => OpsOK' /\ Len(m_listMemoryOperation') = Len(m_listMemoryOperation)
  BY <1>1 DEF listVars, OpsOK
<1>3. UNCHANGED threadVars => TableOK(Table)'
  BY <1>1 DEF threadVars, Table, TableOK
<1>4. \A s : StatsOK(s) /\ m_globalStats' = s => StatsOK(m_globalStats)'
  BY DEF StatsOK, UsageOK
<1>5. CASE w = "clearOperations"
  <2>1. OpsOK'
    BY <1>5 DEF DoSources, clearOperations, OpsOK
  <2>2. UNCHANGED <<threadVars, m_globalStats, statsSession>> /\ opsSession' = opsSession + 1
    BY <1>5 DEF DoSources
  <2>3. Keeps
    BY <1>1, <1>3, <1>4, <2>1, <2>2
  <2>4. QED
    BY <1>1, <1>5, <2>3 DEF SourcesOK
<1>6. CASE w = "clearStats"
  <2>1. /\ clearThreads /\ m_globalStats' = ResetStats(m_globalStats) /\ statsSession' = statsSession + 1
        /\ UNCHANGED <<listVars, opsSession>>
    BY <1>6 DEF DoSources
  <2>2. TableOK(Table)'
    BY <1>1, <2>1 DEF clearThreads, TableOK, Table
  <2>3. Keeps /\ Longer
    BY <1>1, <1>2, <1>4, <2>1, <2>2, ResetStatsOK
  <2>4. QED
    BY <1>1, <2>3 DEF SourcesOK
<1>7. CASE w = "count"
  <2>1. m_globalStats' = CountMessage(m_globalStats) /\ UNCHANGED <<listVars, threadVars, opsSession, statsSession>>
    BY <1>7 DEF DoSources
  <2>2. StatsOK(CountMessage(m_globalStats))
    BY <1>1, CountMessageOK
  <2>3. Keeps /\ Longer
    BY <1>1, <1>2, <1>3, <1>4, <2>1, <2>2
  <2>4. QED
    BY <1>1, <2>3 DEF SourcesOK
<1>8. CASE w = "backtrace"
  <2>1. setBacktrace(msg) /\ UNCHANGED <<threadVars, m_globalStats, opsSession, statsSession>>
    BY <1>8 DEF DoSources
  <2>2. Keeps /\ Longer
    BY <1>1, <1>3, <1>4, <2>1, BacktraceKeeps
  <2>3. QED
    BY <1>1, <2>2 DEF SourcesOK
<1>9. CASE w = "thread"
  <2>1. updateThreadInfos(msg) /\ UNCHANGED <<opsSession, statsSession>>
    BY <1>9 DEF DoSources
  <2>2. Keeps /\ Longer
    BY <1>1, <1>2, <2>1, ThreadKeeps
  <2>3. QED
    BY <1>1, <2>2 DEF SourcesOK
<1>10. CASE w = "operation"
  <2>1. addMemoryOperation(msg) /\ UNCHANGED <<opsSession, statsSession>> /\ IsOperation(msg)
    BY <1>10 DEF DoSources
  <2>2. Keeps /\ Longer
    BY <1>1, <2>1, OperationKeeps
  <2>3. QED
    BY <1>1, <2>2 DEF SourcesOK
<1>11. QED
  BY <1>5, <1>6, <1>7, <1>8, <1>9, <1>10 DEF DoSources

\* What is done to the rows keeps their types.
LEMMA RowsKeep ==
    ASSUME SourcesOK, RowsOK, late \in BOOLEAN, NEW w, DoRows(w), m_listFilterMemoryOperation \in Seq(Nat \X Nat)
    PROVE  RowsOK' /\ late' \in BOOLEAN
<1>1. Len(m_listFilterMemoryOperation) \in Nat
  BY LenProperties
<1>2. CASE w = "clearRows"
  BY <1>2 DEF DoRows, RowsOK
<1>3. CASE w = "countRows"
  BY <1>1, <1>3 DEF DoRows, RowsOK
<1>4. CASE w = "fetchTo"
  <2>1. /\ m_iLoadedCount' = rowCount /\ filter' = NULL /\ rowCount' = 0 /\ UNCHANGED m_listFilterThreadInfos
        /\ late' = (late \/ rowCount # Len(m_listFilterMemoryOperation))
    BY <1>4 DEF DoRows
  <2>2. RowsOK'
    BY <2>1 DEF RowsOK
  <2>3. late' \in BOOLEAN
    BY <2>1
  <2>4. QED
    BY <2>2, <2>3
<1>5. CASE w = "clearThreadRows"
  BY <1>5 DEF DoRows, RowsOK
<1>6. CASE w = "threadRows"
  <2>1. m_listFilterThreadInfos' = {<<statsSession, e>> : e \in m_listThreadInfos}
        /\ UNCHANGED <<filter, rowCount, m_iLoadedCount, late>>
    BY <1>6 DEF DoRows
  <2>2. statsSession \in Nat /\ m_listThreadInfos \subseteq Nat
    BY DEF SourcesOK, TableOK, Table
  <2>3. QED
    BY <2>1, <2>2 DEF RowsOK
<1>7. QED
  BY <1>2, <1>3, <1>4, <1>5, <1>6 DEF DoRows

\* What is done to the chart keeps its types: the second drawn last is one of those the
\* statistics have.
LEMMA ChartKeeps ==
    ASSUME StatsOK(m_globalStats), ChartOK, late \in BOOLEAN, NEW w, DoChart(w)
    PROVE  ChartOK' /\ late' \in BOOLEAN
<1>1. CASE w = "usage"
  <2>1. /\ memoryUsageUpdate' = Points /\ UNCHANGED <<chart, late>>
        /\ IF ToDraw = {} THEN UNCHANGED <<m_iLastUpdateTime, m_iLastUpdateValue>>
           ELSE m_iLastUpdateTime' = Max(ToDraw) /\ m_iLastUpdateValue' = value(m_globalStats.usage, Max(Looked))
    BY <1>1 DEF DoChart
  <2>2. Looked \subseteq 1..MaxTime /\ Looked \subseteq DOMAIN m_globalStats.usage.sizes /\ ToDraw \subseteq Looked
    BY DEF Looked, ToDraw, StatsOK, UsageOK
  <2>3. ToDraw # {} => Max(ToDraw) \in 1..MaxTime /\ Max(Looked) \in Looked
    BY <2>2, ViewAssumption, FiniteSeconds
  <2>4. ToDraw # {} => value(m_globalStats.usage, Max(Looked)) \in Nat
    BY <2>2, <2>3 DEF value, StatsOK, UsageOK
  <2>5. IsList(Points)
    <3>1. ToDraw \subseteq 1..MaxTime
      BY <2>2
    <3>2. IsFiniteSet(ToDraw)
      BY <3>1, ViewAssumption, FiniteSeconds
    <3>3. Cardinality(ToDraw) \in Nat
      BY <3>2, FS_CardinalityType
    <3> DEFINE n == Cardinality(ToDraw)
               P == {Point(InOrder(ToDraw)[i]) : i \in 1..n}
    <3>4. Points \in [1..n -> P]
      BY DEF Points
    <3> HIDE DEF P, n
    <3>5. Points \in Seq(P)
      BY <3>3, <3>4, SeqDef DEF n
    <3>6. QED
      BY <3>5 DEF IsList
  <2>6. QED
    BY <2>1, <2>3, <2>4, <2>5 DEF ChartOK
<1>2. CASE w = "draw" /\ memoryUsageUpdate # <<>>
  <2>1. /\ chart' = Append(chart, Head(memoryUsageUpdate)) /\ memoryUsageUpdate' = Tail(memoryUsageUpdate)
        /\ late' = (late \/ Head(memoryUsageUpdate).session # statsSession)
        /\ UNCHANGED <<m_iLastUpdateTime, m_iLastUpdateValue>>
    BY <1>2 DEF DoChart
  <2>2. IsList(chart') /\ IsList(memoryUsageUpdate')
    BY <1>2, <2>1, ListAppend, ListTail DEF ChartOK
  <2>3. late' \in BOOLEAN
    BY <2>1
  <2>4. QED
    BY <2>1, <2>2, <2>3 DEF ChartOK
<1>3. CASE w = "draw" /\ memoryUsageUpdate = <<>>
  BY <1>3 DEF DoChart, ChartOK, chartVars
<1>4. CASE w = "clearChart"
  BY <1>4 DEF DoChart, ChartOK, IsList
<1>5. CASE w = "resetLastTime"
  BY <1>5, ViewAssumption DEF DoChart, ChartOK
<1>6. CASE w = "resetLastValue"
  BY <1>6 DEF DoChart, ChartOK
<1>7. QED
  BY <1>1, <1>2, <1>3, <1>4, <1>5, <1>6 DEF DoChart

-----------------------------------------------------------------------------
(* The types: messages *)

\* What a step of a thread leaves of the scripts.
LEMMA StepScripts ==
    ASSUME ScriptInv, NEW t \in ServerThread, Step(t)
    PROVE  /\ UNCHANGED <<msg, received, stopping>> /\ Busy(t)
           /\ todo'[t] = todo[t] \/ todo'[t] = Tail(todo[t])
           /\ \A u \in ServerThread \ {t} : todo'[u] = todo[u]
<1>1. CASE Locking(t)
  <2>1. Busy(t) /\ Advance(t)
    BY <1>1, LockingOfGui, LockingOfReceiver DEF ServerThread
  <2>2. todo'[t] = Tail(todo[t]) /\ \A u \in ServerThread \ {t} : todo'[u] = todo[u]
    BY <2>1, AdvanceScripts
  <2>3. UNCHANGED <<msg, received, stopping>>
    BY <1>1 DEF Locking
  <2>4. QED
    BY <2>1, <2>2, <2>3
<1>2. CASE Doing(t)
  <2>1. Busy(t)
    BY <1>2, DoingOfGui, DoingOfReceiver DEF ServerThread
  <2>2. UNCHANGED <<msg, received, stopping>> /\ (todo' = todo \/ Advance(t))
    BY <1>2 DEF Doing
  <2>3. CASE todo' = todo
    BY <2>1, <2>2, <2>3
  <2>4. CASE Advance(t)
    <3>1. todo'[t] = Tail(todo[t]) /\ \A u \in ServerThread \ {t} : todo'[u] = todo[u]
      BY <2>1, <2>4, AdvanceScripts
    <3>2. QED
      BY <2>1, <2>2, <3>1
  <2>5. QED
    BY <2>2, <2>3, <2>4
<1>3. QED
  BY <1>1, <1>2 DEF Step

\* Only a memory message is handled as one.
LEMMA HandlerHasOperation ==
    ASSUME NEW m \in MsgType, Has(Handler(m), "operation")
    PROVE  m.code \in {"malloc", "free"}
<1>1. m.code \in {"init", "symbol", "backtrace", "pthread_create", "malloc", "free"}
  BY DEF MsgType
<1>2. m.code # "init"
  <2>1. SUFFICES ASSUME m.code = "init" PROVE FALSE
    OBVIOUS
  <2>2. Handler(m) = ClearScript \o Written("Stats", "count")
    BY <2>1 DEF Handler
  <2>3. \A i \in 1..19 : i \in {1, 2, 3, 4, 5, 6, 7, 8, 9, 10, 11, 12, 13, 14, 15, 16, 17, 18, 19}
    OBVIOUS
  <2>4. Len(Handler(m)) = 19 /\ \A i \in 1..19 : Handler(m)[i] # Do("operation")
    <3> DEFINE s == ClearScript \o Written("Stats", "count")
    <3>1. /\ Len(s) = 19
          /\ s[1] = Write("List") /\ s[2] = Do("clearOperations") /\ s[3] = Unlock("List")
          /\ s[4] = Write("Symbols") /\ s[5] = Do("nothing") /\ s[6] = Unlock("Symbols")
          /\ s[7] = Do("resetSearch")
          /\ s[8] = Write("Stats") /\ s[9] = Do("clearStats") /\ s[10] = Unlock("Stats")
          /\ s[11] = Do("clearFilter") /\ s[12] = Do("clearRows") /\ s[13] = Do("clearThreadRows")
          /\ s[14] = Do("clearChart") /\ s[15] = Do("resetLastTime") /\ s[16] = Do("resetLastValue")
          /\ s[17] = Write("Stats") /\ s[18] = Do("count") /\ s[19] = Unlock("Stats")
      BY HandlerOfInit
    <3>2. Handler(m) = s
      BY <2>2
    <3> HIDE DEF s
    <3>3. \A i \in 1..19 : s[i] # Do("operation")
      BY <2>3, <3>1 DEF Do, Write, Unlock
    <3>4. QED
      BY <3>1, <3>2, <3>3
  <2>5. QED
    BY <2>4 DEF Has
<1>3. m.code \notin {"backtrace", "symbol"}
  <2>1. m.code = "backtrace" => Handler(m) = Written("List", "backtrace") \o Written("Stats", "count")
    BY DEF Handler
  <2>2. m.code = "symbol" => Handler(m) = Written("Symbols", "nothing") \o Written("Stats", "count")
    BY DEF Handler
  <2>3. QED
    BY <2>1, <2>2, HandlerOfCounted
<1>4. m.code # "pthread_create"
  <2>1. SUFFICES ASSUME m.code = "pthread_create" PROVE FALSE
    OBVIOUS
  <2>2. Handler(m) = Written("Stats", "thread")
    BY <2>1 DEF Handler, ThreadCode
  <2>3. Len(Handler(m)) = 3 /\ Handler(m)[1] = Write("Stats") /\ Handler(m)[2] = Do("thread") /\ Handler(m)[3] = Unlock("Stats")
    BY <2>2, WrittenIs DEF Lock, ReceiverDoes
  <2>4. \A i \in 1..3 : Handler(m)[i] # Do("operation")
    <3>1. \A i \in 1..3 : i = 1 \/ i = 2 \/ i = 3
      OBVIOUS
    <3>2. QED
      BY <2>3, <3>1 DEF Do, Write, Unlock
  <2>5. QED
    BY <2>3, <2>4 DEF Has
<1>5. QED
  BY <1>1, <1>2, <1>3, <1>4

\* Every message a traced process sends is a message, in a second of the model.
LEMMA MessageTypes ==
    ASSUME SourcesOK, received \in Nat, NEW m \in Messages
    PROVE  m \in MsgType /\ (m.code \in {"malloc", "free"} => m.time \in 1..MaxTime)
<1>1. OpsOK /\ m_globalStats.last \in Nat
  BY DEF SourcesOK, StatsOK
<1>2. Time \subseteq Nat \ {0}
  BY <1>1 DEF Time
<1>3. OneOf(Addr \ Blocks) \subseteq Addr
  BY DEF OneOf
<1>4. Blocks \subseteq Addr \cup {NULL}
  <2>1. SUFFICES ASSUME NEW j \in m_listMemoryOperationNonFreed PROVE m_listMemoryOperation[j].ptr \in Addr \cup {NULL}
    BY DEF Blocks
  <2>2. m_listMemoryOperation[j] \in OpType
    BY <1>1, OperationInList DEF OpsOK
  <2>3. QED
    BY <2>2 DEF OpType
<1>5. OneOf(Blocks \ {NULL}) \subseteq Addr
  <2>1. OneOf(Blocks \ {NULL}) \subseteq Blocks \ {NULL}
    BY DEF OneOf
  <2>2. QED
    BY <1>4, <2>1
<1>6. received + 1 \in Nat /\ received \in Nat
  OBVIOUS
<1>7. {x \in Time : x <= MaxTime} \subseteq 1..MaxTime
  <2>1. SUFFICES ASSUME NEW x \in Time, x <= MaxTime PROVE x \in 1..MaxTime
    OBVIOUS
  <2>2. x \in Nat /\ x # 0 /\ MaxTime \in Nat
    BY <1>2, ViewAssumption
  <2>3. QED
    BY <2>1, <2>2
<1>8. \/ m \in {[NoMsg EXCEPT !.code = c] : c \in {"symbol"} \cup {x \in {"init"} : opsSession < MaxSession}}
      \/ m = [NoMsg EXCEPT !.code = "backtrace", !.num = received + 1, !.origin = received]
      \/ m = [Numbered(Msg(Main, "pthread_create", NULL, 0, NULL), 1) EXCEPT !.tid = Main]
      \/ \E a \in OneOf(Addr \ Blocks), s \in {x \in Time : x <= MaxTime} : m = Numbered(Msg(Main, "malloc", a, 1, NULL), s)
      \/ \E a \in OneOf(Blocks \ {NULL}), s \in {x \in Time : x <= MaxTime} : m = Numbered(Msg(Main, "free", NULL, 0, a), s)
  BY DEF Messages
<1>9. CASE m \in {[NoMsg EXCEPT !.code = c] : c \in {"symbol"} \cup {x \in {"init"} : opsSession < MaxSession}}
  BY <1>9 DEF NoMsg, Msg, MsgType
<1>10. CASE m = [NoMsg EXCEPT !.code = "backtrace", !.num = received + 1, !.origin = received]
  BY <1>6, <1>10 DEF NoMsg, Msg, MsgType
<1>11. CASE m = [Numbered(Msg(Main, "pthread_create", NULL, 0, NULL), 1) EXCEPT !.tid = Main]
  BY <1>6, <1>11 DEF Numbered, Msg, MsgType
<1>12. ASSUME NEW a \in Addr, NEW s \in 1..MaxTime,
              m = Numbered(Msg(Main, "malloc", a, 1, NULL), s) \/ m = Numbered(Msg(Main, "free", NULL, 0, a), s)
       PROVE  m \in MsgType /\ m.time \in 1..MaxTime
  <2>1. s \in Nat
    BY ViewAssumption
  <2>2. CASE m = Numbered(Msg(Main, "malloc", a, 1, NULL), s)
    BY <1>6, <2>1, <2>2 DEF Numbered, Msg, MsgType
  <2>3. CASE m = Numbered(Msg(Main, "free", NULL, 0, a), s)
    BY <1>6, <2>1, <2>3 DEF Numbered, Msg, MsgType
  <2>4. QED
    BY <1>12, <2>2, <2>3
<1>13. QED
  BY <1>3, <1>5, <1>7, <1>8, <1>9, <1>10, <1>11, <1>12

\* Every step keeps the message being handled.
LEMMA NextMsgOK ==
    ASSUME ScriptInv, MsgOK, SourcesOK, ScalarOK, [Next]_vars
    PROVE  MsgOK' /\ (late' \in BOOLEAN => ScalarOK')
<1>1. received \in Nat /\ MaxReceived \in Nat
  BY ViewAssumption DEF ScalarOK
<1>2. CASE \E t \in ServerThread : Step(t)
  <2>1. PICK t \in ServerThread : Step(t)
    BY <1>2
  <2>2. UNCHANGED <<msg, received, stopping>> /\ (todo'[Receiver] = todo[Receiver] \/ (todo[Receiver] # <<>> /\ todo'[Receiver] = Tail(todo[Receiver])))
    BY <2>1, StepScripts DEF ServerThread, Busy
  <2>3. todo[Receiver] \in Seq(ReceiverInstruction)
    BY DEF ScriptInv, ReceiverScript
  <2>4. Has(todo'[Receiver], "operation") => Has(todo[Receiver], "operation")
    BY <2>2, <2>3, HasTail
  <2>5. MsgOK'
    BY <2>2, <2>4 DEF MsgOK, Has
  <2>6. QED
    BY <2>2, <2>5 DEF ScalarOK
<1>3. CASE \E m \in Messages : Receive(m)
  <2>1. PICK m \in Messages : Receive(m)
    BY <1>3
  <2>2. msg' = m /\ todo' = [todo EXCEPT ![Receiver] = Handler(m)] /\ received < MaxReceived /\ received' = received + 1
        /\ UNCHANGED <<stopping, late>>
    BY <2>1 DEF Receive
  <2>3. todo'[Receiver] = Handler(m)
    BY <2>2, StartScripts
  <2>4. m \in MsgType /\ (Has(Handler(m), "operation") => IsOperation(m))
    BY <1>1, HandlerHasOperation, MessageTypes DEF IsOperation
  <2>5. MsgOK'
    BY <2>2, <2>3, <2>4 DEF MsgOK, Has, IsOperation
  <2>6. received' \in 0..MaxReceived
    BY <1>1, <2>2
  <2>7. QED
    BY <2>2, <2>5, <2>6 DEF ScalarOK
<1>4. CASE FilterClicked \/ Timeout \/ DoubleClicked
  <2>1. PICK s : GuiStarts(s) /\ GoodGui(s)
    BY <1>4, GuiScriptsAreGood DEF FilterClicked, Timeout, DoubleClicked
  <2>2. UNCHANGED <<msg, received, stopping, late>> /\ todo' = [todo EXCEPT ![Gui] = s]
    BY <2>1 DEF GuiStarts
  <2>3. todo'[Receiver] = todo[Receiver]
    BY <2>1, <2>2, StartScripts
  <2>4. QED
    BY <2>2, <2>3 DEF MsgOK, ScalarOK, Has
<1>5. CASE WindowClosed
  BY <1>5 DEF WindowClosed, MsgOK, ScalarOK, Has
<1>6. CASE UNCHANGED vars
  BY <1>6 DEF vars, controlVars, MsgOK, ScalarOK, Has
<1>7. QED
  BY <1>2, <1>3, <1>4, <1>5, <1>6 DEF Next

-----------------------------------------------------------------------------
(* The types: every step *)

\* While a search is under way the GUI thread reads the list, so that clearData cannot
\* clear it: the loop of onFilterButtonClicked never looks for an operation that is gone.
LEMMA SearchHoldsList ==
    ASSUME ScriptInv, HoldInv, SearchOK
    PROVE  /\ Busy(Receiver) /\ Head(todo[Receiver]) = Do("clearOperations") => searched = 0
           /\ Busy(Gui) /\ Head(todo[Gui]) # Do("search") => searched = 0
           /\ ~Busy(Gui) => searched = 0
<1>1. SUFFICES ASSUME Busy(Receiver), Head(todo[Receiver]) = Do("clearOperations"), searched # 0 PROVE FALSE
  BY DEF SearchOK
<1>2. todo[Receiver] \in Seq(ReceiverInstruction) /\ todo[Receiver] # <<>>
      /\ todo[Gui] \in Seq(GuiInstruction) /\ todo[Gui] # <<>>
  BY <1>1 DEF ScriptInv, ReceiverScript, GuiScriptOK, Busy, SearchOK
<1>3. Needs(Head(todo[Receiver]), "List") /\ Needs(Head(todo[Gui]), "List")
  BY <1>1 DEF Needs, SearchOK
<1>4. ~Guarded(todo[Receiver], "List") /\ ~Guarded(todo[Gui], "List")
  BY <1>2, <1>3, GuardedTail
<1>5. writing["List"] = Receiver /\ Gui \in reading["List"]
  BY <1>4 DEF HoldInv, Lock
<1>6. Receiver # NULL
  BY ViewAssumption DEF ServerThread
<1>7. QED
  BY <1>5, <1>6 DEF HoldInv, Lock

\* What a step leaves alone keeps its type.
LEMMA SourcesStay == SourcesOK /\ UNCHANGED sourceVars => SourcesOK'
BY DEF SourcesOK, sourceVars, listVars, threadVars, OpsOK, TableOK, Table, StatsOK, UsageOK

\* So does a search the GUI thread does not go on with, while the list only grows.
LEMMA SearchStays ==
    ASSUME SearchOK, UNCHANGED searchVars, searched = 0 \/ todo'[Gui] = todo[Gui],
           searched = 0 \/ Len(m_listMemoryOperation') \in {Len(m_listMemoryOperation), Len(m_listMemoryOperation) + 1},
           Len(m_listMemoryOperation) \in Nat, Len(m_listMemoryOperation') \in Nat
    PROVE  SearchOK'
<1>1. searched' = searched /\ m_listFilterMemoryOperation' = m_listFilterMemoryOperation
  BY DEF searchVars
<1>2. searched' \in 0..Len(m_listMemoryOperation')
  BY <1>1 DEF SearchOK
<1>3. searched' # 0 => todo'[Gui] # <<>> /\ Head(todo'[Gui]) = Do("search")
  BY <1>1 DEF SearchOK, Busy
<1>4. QED
  BY <1>1, <1>2, <1>3 DEF SearchOK, Busy

\* So do the rows and the chart.
LEMMA RowsStay == /\ RowsOK /\ UNCHANGED rowVars => RowsOK'
                  /\ ChartOK /\ UNCHANGED chartVars => ChartOK'
BY DEF RowsOK, rowVars, ChartOK, chartVars

\* what the steps of a thread keep
Kept == SourcesOK' /\ SearchOK' /\ RowsOK' /\ ChartOK' /\ late' \in BOOLEAN

\* Locks keep the types.
LEMMA LockingTypes ==
    ASSUME ScriptInv, HoldInv, TypeInv, NEW t \in ServerThread, Locking(t)
    PROVE  Kept
<1>1. UNCHANGED <<sourceVars, searchVars, rowVars, chartVars, late>>
  BY DEF Locking
<1>2. SourcesOK' /\ RowsOK' /\ ChartOK' /\ late' \in BOOLEAN
  <2>1. SourcesOK'
    BY <1>1, SourcesStay DEF TypeInv
  <2>2. RowsOK' /\ ChartOK'
    BY <1>1, RowsStay DEF TypeInv
  <2>3. late' = late
    BY <1>1
  <2>4. QED
    BY <2>1, <2>2, <2>3 DEF TypeInv, ScalarOK
<1>3. Busy(t) /\ Advance(t) /\ (t = Gui => Head(todo[Gui]) # Do("search"))
  <2>1. CASE t = Gui
    BY <2>1, LockingOfGui, InstructionsDiffer
  <2>2. CASE t = Receiver
    BY <2>2, LockingOfReceiver DEF Gui, Receiver
  <2>3. QED
    BY <2>1, <2>2 DEF ServerThread
<1>4. searched = 0 \/ todo'[Gui] = todo[Gui]
  <2>1. CASE t = Gui
    BY <1>3, <2>1, SearchHoldsList DEF TypeInv
  <2>2. CASE t # Gui
    BY <1>3, <2>2, AdvanceScripts DEF ServerThread
  <2>3. QED
    BY <2>1, <2>2
<1>5. Len(m_listMemoryOperation') = Len(m_listMemoryOperation) /\ Len(m_listMemoryOperation) \in Nat
  BY <1>1, OperationInList DEF sourceVars, listVars, TypeInv, SourcesOK
<1>6. SearchOK'
  BY <1>1, <1>4, <1>5, SearchStays DEF TypeInv
<1>7. QED
  BY <1>2, <1>6 DEF Kept

\* A search keeps its types.
LEMMA GuiSearchTypes ==
    ASSUME ScriptInv, HoldInv, TypeInv, NEW w, Busy(Gui), Head(todo[Gui]) = Do(w), DoSearch(w), UNCHANGED sourceVars,
           w = "search" /\ ~SearchDone => todo' = todo
    PROVE  SearchOK'
<1>1. OpsOK /\ SearchOK /\ opsSession \in Nat /\ Len(m_listMemoryOperation) \in Nat
      /\ m_listMemoryOperation' = m_listMemoryOperation
  BY OperationInList DEF TypeInv, SourcesOK, sourceVars, listVars
<1>2. m_listFilterMemoryOperation \in Seq(Nat \X Nat) /\ searched \in 0..Len(m_listMemoryOperation)
  BY <1>1 DEF SearchOK
<1>3. CASE w = "resetSearch"
  <2>1. searched = 0
    BY <1>1, <1>3, SearchHoldsList, InstructionsDiffer
  <2>2. searched' = searched /\ m_listFilterMemoryOperation' = m_listFilterMemoryOperation
    BY <1>3 DEF DoSearch
  <2>3. QED
    BY <1>1, <1>2, <2>1, <2>2 DEF SearchOK
<1>4. CASE w = "clearFilter"
  <2>1. searched = 0
    BY <1>1, <1>4, SearchHoldsList, InstructionsDiffer
  <2>2. searched' = searched /\ m_listFilterMemoryOperation' = <<>>
    BY <1>4 DEF DoSearch
  <2>3. <<>> \in Seq(Nat \X Nat)
    OBVIOUS
  <2>4. QED
    BY <1>1, <2>1, <2>2, <2>3 DEF SearchOK
<1>5. CASE w = "search" /\ ~SearchDone
  <2>1. searched' = searched + 1
        /\ \/ m_listFilterMemoryOperation' = Append(m_listFilterMemoryOperation, <<opsSession, searched + 1>>)
           \/ m_listFilterMemoryOperation' = m_listFilterMemoryOperation
    BY <1>5 DEF DoSearch
  <2>2. searched' \in 0..Len(m_listMemoryOperation')
    BY <1>1, <1>2, <1>5, <2>1 DEF SearchDone
  <2>3. <<opsSession, searched + 1>> \in Nat \X Nat
    BY <1>1, <1>2
  <2>4. m_listFilterMemoryOperation' \in Seq(Nat \X Nat)
    <3> DEFINE E == Nat \X Nat
               f == m_listFilterMemoryOperation
               e == <<opsSession, searched + 1>>
    <3>1. f \in Seq(E) /\ e \in E
      BY <1>2, <2>3
    <3> HIDE DEF E, f, e
    <3>2. Append(f, e) \in Seq(E)
      BY <3>1, AppendProperties
    <3>3. QED
      BY <1>2, <2>1, <3>2 DEF E, f, e
  <2>5. todo' = todo
    BY <1>5
  <2>6. QED
    BY <1>5, <2>2, <2>4, <2>5 DEF SearchOK, Busy
<1>6. CASE w = "search" /\ SearchDone
  <2>1. searched' = 0 /\ m_listFilterMemoryOperation' = m_listFilterMemoryOperation
    BY <1>6 DEF DoSearch
  <2>2. QED
    BY <1>1, <1>2, <2>1 DEF SearchOK
<1>7. QED
  BY <1>3, <1>4, <1>5, <1>6 DEF DoSearch

\* The GUI thread keeps the types.
LEMMA GuiDoingTypes ==
    ASSUME ScriptInv, HoldInv, TypeInv, Doing(Gui)
    PROVE  Kept
<1>1. PICK w \in GuiDoes :
        /\ At(Gui) = <<"do", w>> /\ Busy(Gui) /\ Head(todo[Gui]) = Do(w)
        /\ Repeats(w) => todo' = todo
  BY DoingOfGui
<1>2. /\ UNCHANGED sourceVars
      /\ \/ /\ w \in {"resetSearch", "clearFilter", "search"}
            /\ DoSearch(w) /\ UNCHANGED <<rowVars, chartVars, late>>
         \/ /\ w \in {"clearRows", "countRows", "fetchTo", "threadRows"}
            /\ DoRows(w) /\ UNCHANGED <<searchVars, chartVars>>
         \/ /\ w \in {"usage", "draw"}
            /\ DoChart(w) /\ UNCHANGED <<searchVars, rowVars>>
  BY <1>1, GuiEffects
<1>3. SourcesOK' /\ late \in BOOLEAN /\ SourcesOK /\ SearchOK /\ RowsOK /\ ChartOK
  BY <1>2, SourcesStay DEF TypeInv, ScalarOK
<1>4. Len(m_listMemoryOperation') = Len(m_listMemoryOperation) /\ Len(m_listMemoryOperation) \in Nat
  BY <1>2, <1>3, OperationInList DEF sourceVars, listVars, SourcesOK
<1>5. w # "search" => searched = 0
  BY <1>1, <1>3, SearchHoldsList, InstructionsDiffer
<1>6. CASE DoSearch(w) /\ UNCHANGED <<rowVars, chartVars, late>>
  <2>1. SearchOK'
    BY <1>1, <1>2, <1>6, GuiSearchTypes DEF Repeats
  <2>2. RowsOK' /\ ChartOK'
    BY <1>3, <1>6, RowsStay
  <2>3. late' = late
    BY <1>6
  <2>4. QED
    BY <1>3, <2>1, <2>2, <2>3 DEF Kept
<1>7. CASE w # "search" /\ DoRows(w) /\ UNCHANGED <<searchVars, chartVars>>
  <2>1. SearchOK'
    BY <1>3, <1>4, <1>5, <1>7, SearchStays
  <2>2. RowsOK' /\ late' \in BOOLEAN
    BY <1>3, <1>7, RowsKeep DEF SearchOK
  <2>3. ChartOK'
    BY <1>3, <1>7, RowsStay
  <2>4. QED
    BY <1>3, <2>1, <2>2, <2>3 DEF Kept
<1>8. CASE w # "search" /\ DoChart(w) /\ UNCHANGED <<searchVars, rowVars>>
  <2>1. SearchOK'
    BY <1>3, <1>4, <1>5, <1>8, SearchStays
  <2>2. ChartOK' /\ late' \in BOOLEAN
    BY <1>3, <1>8, ChartKeeps DEF SourcesOK
  <2>3. RowsOK'
    BY <1>3, <1>8, RowsStay
  <2>4. QED
    BY <1>3, <2>1, <2>2, <2>3 DEF Kept
<1>9. QED
  BY <1>2, <1>6, <1>7, <1>8

\* The receiving thread keeps the types.
LEMMA ReceiverDoingTypes ==
    ASSUME ScriptInv, HoldInv, TypeInv, Doing(Receiver)
    PROVE  Kept
<1>1. PICK w \in ReceiverDoes :
        At(Receiver) = <<"do", w>> /\ Busy(Receiver) /\ Head(todo[Receiver]) = Do(w) /\ Advance(Receiver)
  BY DoingOfReceiver
<1>2. \/ DoSources(w) /\ UNCHANGED <<searchVars, rowVars, chartVars, late>>
      \/ /\ w \in {"resetSearch", "clearFilter"}
         /\ DoSearch(w) /\ UNCHANGED <<sourceVars, rowVars, chartVars, late>>
      \/ DoRows(w) /\ UNCHANGED <<sourceVars, searchVars, chartVars>>
      \/ DoChart(w) /\ UNCHANGED <<sourceVars, searchVars, rowVars>>
      \/ UNCHANGED <<sourceVars, searchVars, rowVars, chartVars, late>>
  BY <1>1, ReceiverEffects
<1>3. late \in BOOLEAN /\ SourcesOK /\ SearchOK /\ RowsOK /\ ChartOK /\ MsgOK
  BY DEF TypeInv, ScalarOK
<1>4. todo'[Gui] = todo[Gui]
  BY <1>1, AdvanceScripts DEF ServerThread, Gui, Receiver
<1>5. Len(m_listMemoryOperation) \in Nat
  BY <1>3, OperationInList DEF SourcesOK
<1>6. UNCHANGED sourceVars => SourcesOK' /\ Len(m_listMemoryOperation') = Len(m_listMemoryOperation)
  BY <1>3, SourcesStay DEF sourceVars, listVars
<1>7. UNCHANGED sourceVars /\ UNCHANGED searchVars => SearchOK'
  BY <1>3, <1>4, <1>5, <1>6, SearchStays
<1>8. CASE DoSources(w) /\ UNCHANGED <<searchVars, rowVars, chartVars, late>>
  <2>1. w = "operation" => IsOperation(msg)
    <3>1. SUFFICES ASSUME w = "operation" PROVE Has(todo[Receiver], "operation")
      BY <1>3 DEF MsgOK
    <3>2. todo[Receiver] \in Seq(ReceiverInstruction) /\ todo[Receiver] # <<>>
      BY <1>1 DEF ScriptInv, ReceiverScript, Busy
    <3>3. 1 \in 1..Len(todo[Receiver]) /\ Head(todo[Receiver]) = todo[Receiver][1]
      BY <3>2, TailFacts
    <3>4. QED
      BY <1>1, <3>1, <3>3 DEF Has
  <2>2. /\ SourcesOK'
        /\ w # "clearOperations" => Len(m_listMemoryOperation') \in {Len(m_listMemoryOperation), Len(m_listMemoryOperation) + 1}
    BY <1>3, <1>8, <2>1, SourcesKeep DEF MsgOK
  <2>3. w = "clearOperations" => searched = 0
    BY <1>1, <1>3, SearchHoldsList
  <2>4. Len(m_listMemoryOperation') \in Nat
    <3>1. m_listMemoryOperation' \in Seq(OpType)
      BY <2>2 DEF SourcesOK, OpsOK
    <3>2. QED
      BY <3>1, LenProperties
  <2>5. SearchOK'
    BY <1>3, <1>4, <1>5, <1>8, <2>2, <2>3, <2>4, SearchStays
  <2>6. RowsOK' /\ ChartOK'
    BY <1>3, <1>8, RowsStay
  <2>7. late' = late
    BY <1>8
  <2>8. QED
    BY <1>3, <2>2, <2>5, <2>6, <2>7 DEF Kept
<1>9. CASE /\ w \in {"resetSearch", "clearFilter"}
           /\ DoSearch(w) /\ UNCHANGED <<sourceVars, rowVars, chartVars, late>>
  <2>1. searched' = searched
        /\ (m_listFilterMemoryOperation' = m_listFilterMemoryOperation \/ m_listFilterMemoryOperation' = <<>>)
    BY <1>9 DEF DoSearch
  <2>2. <<>> \in Seq(Nat \X Nat)
    OBVIOUS
  <2>3. SearchOK'
    BY <1>3, <1>4, <1>6, <1>9, <2>1, <2>2 DEF SearchOK, Busy
  <2>4. RowsOK' /\ ChartOK'
    BY <1>3, <1>9, RowsStay
  <2>5. late' = late
    BY <1>9
  <2>6. QED
    BY <1>3, <1>6, <1>9, <2>3, <2>4, <2>5 DEF Kept
<1>10. CASE DoRows(w) /\ UNCHANGED <<sourceVars, searchVars, chartVars>>
  <2>1. RowsOK' /\ late' \in BOOLEAN
    BY <1>3, <1>10, RowsKeep DEF SearchOK
  <2>2. ChartOK'
    BY <1>3, <1>10, RowsStay
  <2>3. QED
    BY <1>6, <1>7, <1>10, <2>1, <2>2 DEF Kept
<1>11. CASE DoChart(w) /\ UNCHANGED <<sourceVars, searchVars, rowVars>>
  <2>1. ChartOK' /\ late' \in BOOLEAN
    BY <1>3, <1>11, ChartKeeps DEF SourcesOK
  <2>2. RowsOK'
    BY <1>3, <1>11, RowsStay
  <2>3. QED
    BY <1>6, <1>7, <1>11, <2>1, <2>2 DEF Kept
<1>12. CASE UNCHANGED <<sourceVars, searchVars, rowVars, chartVars, late>>
  <2>1. RowsOK' /\ ChartOK'
    BY <1>3, <1>12, RowsStay
  <2>2. late' = late
    BY <1>12
  <2>3. QED
    BY <1>3, <1>6, <1>7, <1>12, <2>1, <2>2 DEF Kept
<1>13. QED
  BY <1>2, <1>8, <1>9, <1>10, <1>11, <1>12

\* Every step keeps the types.
LEMMA NextTypes == ScriptInv /\ HoldInv /\ TypeInv /\ [Next]_vars => TypeInv'
<1> SUFFICES ASSUME ScriptInv, HoldInv, TypeInv, [Next]_vars PROVE TypeInv'
  OBVIOUS
<1>1. late \in BOOLEAN /\ SourcesOK /\ SearchOK /\ RowsOK /\ ChartOK
  BY DEF TypeInv, ScalarOK
<1>2. UNCHANGED <<sourceVars, searchVars, chartVars, late>> /\ (searched = 0 \/ todo'[Gui] = todo[Gui]) /\ RowsOK' => Kept
  <2>1. SUFFICES ASSUME UNCHANGED <<sourceVars, searchVars, chartVars, late>>, searched = 0 \/ todo'[Gui] = todo[Gui], RowsOK'
                 PROVE  Kept
    OBVIOUS
  <2>2. SourcesOK' /\ ChartOK'
    BY <1>1, <2>1, SourcesStay, RowsStay
  <2>3. late' = late
    BY <2>1
  <2>4. Len(m_listMemoryOperation') = Len(m_listMemoryOperation) /\ Len(m_listMemoryOperation) \in Nat
    BY <1>1, <2>1, OperationInList DEF sourceVars, listVars, SourcesOK
  <2>5. SearchOK'
    BY <1>1, <2>1, <2>4, SearchStays
  <2>6. QED
    BY <1>1, <2>1, <2>2, <2>3, <2>5 DEF Kept
<1>3. ASSUME \E t \in ServerThread : Step(t) PROVE Kept
  BY <1>3, LockingTypes, GuiDoingTypes, ReceiverDoingTypes DEF Step, ServerThread
<1>4. ASSUME \E m \in Messages : Receive(m) PROVE Kept
  <2>1. PICK m \in Messages : Receive(m)
    BY <1>4
  <2>2. UNCHANGED <<sourceVars, searchVars, rowVars, chartVars, late>> /\ todo' = [todo EXCEPT ![Receiver] = Handler(m)]
    BY <2>1 DEF Receive
  <2>3. todo'[Gui] = todo[Gui]
    BY <2>2, StartScripts
  <2>4. RowsOK'
    BY <1>1, <2>2, RowsStay
  <2>5. QED
    BY <1>2, <2>2, <2>3, <2>4
<1>5. ASSUME FilterClicked \/ Timeout \/ DoubleClicked PROVE Kept
  <2>1. PICK s : GuiStarts(s)
    BY <1>5 DEF FilterClicked, Timeout, DoubleClicked
  <2>2. ~Busy(Gui) /\ UNCHANGED <<sourceVars, searchVars, chartVars, late>>
    BY <2>1 DEF GuiStarts
  <2>3. searched = 0
    BY <1>1, <2>2, SearchHoldsList
  <2>4. RowsOK'
    BY <1>1, <1>5, RowsStay DEF FilterClicked, Timeout, DoubleClicked, RowsOK
  <2>5. QED
    BY <1>2, <2>2, <2>3, <2>4
<1>6. ASSUME WindowClosed PROVE Kept
  <2>1. UNCHANGED <<todo, sourceVars, searchVars, rowVars, chartVars, late>>
    BY <1>6 DEF WindowClosed
  <2>2. RowsOK'
    BY <1>1, <2>1, RowsStay
  <2>3. QED
    BY <1>2, <2>1, <2>2
<1>7. ASSUME UNCHANGED vars PROVE Kept
  <2>1. UNCHANGED <<todo, sourceVars, searchVars, rowVars, chartVars, late>>
    BY <1>7 DEF vars, controlVars
  <2>2. RowsOK'
    BY <1>1, <2>1, RowsStay
  <2>3. QED
    BY <1>2, <2>1, <2>2
<1>8. Kept
  BY <1>3, <1>4, <1>5, <1>6, <1>7 DEF Next
<1>9. MsgOK' /\ ScalarOK'
  BY <1>1, <1>8, NextMsgOK DEF TypeInv, Kept
<1>10. QED
  BY <1>8, <1>9 DEF TypeInv, Kept

\* Every variable keeps its type, and the search stays within the list it goes through:
\* the receiving thread appends to m_listMemoryOperation and clears it, but not while
\* onFilterButtonClicked reads it (QApplicationWindowController.cpp).
THEOREM SpecTypeOK == Spec => []TypeOK
<1>1. Init => ScriptInv /\ HoldInv /\ TypeInv
  BY InitHolds, InitTypes
<1>2. ScriptInv /\ HoldInv /\ TypeInv /\ [Next]_vars => (ScriptInv /\ HoldInv /\ TypeInv)'
  BY NextHolds, NextTypes
<1>3. ScriptInv /\ HoldInv /\ TypeInv => TypeOK
  BY TypesGiveTypeOK
<1>4. QED
  BY <1>1, <1>2, <1>3, PTL DEF Spec

-----------------------------------------------------------------------------
(* The sessions *)

\* the handler has w still to come, and the callback a count of its rows
Comes(w) == Has(todo[Receiver], w)
Fetches == Has(todo[Gui], "fetchTo")

\* The two sources are of one session, but for the time between clearing them.
SessionsMeet == opsSession = statsSession + (IF Comes("clearStats") /\ ~Comes("clearOperations") THEN 1 ELSE 0)

\* What a search found, the threads and the chart are of the session of their source
\* unless they are still to be cleared.
FoundOfSession ==
    ~Comes("clearFilter") =>
        \A i \in 1..Len(m_listFilterMemoryOperation) : m_listFilterMemoryOperation[i][1] = opsSession

ThreadsOfSession == ~Comes("clearThreadRows") => \A r \in m_listFilterThreadInfos : r[1] = statsSession

ChartOfSession ==
    ~late /\ ~Comes("clearChart") => \A i \in 1..Len(chart) : chart[i].session = statsSession

\* All rows are loaded unless clearData or a search is between the list and its count.
AllLoaded ==
    ~late /\ ~Fetches /\ (Comes("clearRows") => Comes("clearFilter"))
        => m_iLoadedCount = Len(m_listFilterMemoryOperation)

\* Between clearing the operations and clearing the rows nothing can be listed or found.
NothingListed == Comes("clearRows") /\ ~Comes("clearOperations") => m_listMemoryOperation = <<>>
NothingFound == Comes("clearRows") /\ ~Comes("clearFilter") => m_listFilterMemoryOperation = <<>>

\* At each place of clearData, what may still be of the last session.
SessionInv ==
    /\ SessionsMeet /\ FoundOfSession /\ ThreadsOfSession /\ ChartOfSession /\ AllLoaded
    /\ NothingListed /\ NothingFound

\* what SessionInv is about
shownVars == <<m_listMemoryOperation, opsSession, statsSession, m_listFilterMemoryOperation,
               m_listFilterThreadInfos, chart, m_iLoadedCount, late>>

\* What the receiving thread has still to do after an instruction.
LEMMA ReceiverTail ==
    ASSUME ScriptInv, NEW w, Busy(Receiver), Head(todo[Receiver]) = Do(w), todo'[Receiver] = Tail(todo[Receiver])
    PROVE  /\ Comes(w)
           /\ \A v : v # w => (Comes(v)' <=> Comes(v))
           /\ w = "clearOperations" => Comes("clearStats")' /\ Comes("clearFilter")' /\ ~Comes("clearOperations")'
           /\ w = "clearStats" => /\ Comes("clearThreadRows")' /\ Comes("clearChart")'
                                  /\ ~Comes("clearStats")' /\ ~Comes("clearOperations")
           /\ w = "clearFilter" => Comes("clearRows")' /\ ~Comes("clearFilter")'
           /\ w = "clearRows" => ~Comes("clearFilter")
           /\ w \in {"operation", "backtrace"} => ~Comes("clearRows")
<1> DEFINE s == todo[Receiver]
<1>1. s \in Seq(ReceiverInstruction) /\ s # <<>> /\ ReceiverOrder(s) /\ Head(s) = Do(w)
  BY DEF ScriptInv, ReceiverScript, Busy
<1>2. todo'[Receiver] = Tail(s)
  OBVIOUS
<1>3. \A v : Comes(v)' <=> Has(Tail(s), v)
  BY <1>2 DEF Comes, Has
<1>4. \A v : Comes(v) <=> Has(s, v)
  BY DEF Comes
<1> HIDE DEF s
<1>5. \A v : v # w => (Has(Tail(s), v) <=> Has(s, v))
  <2>1. \A v : v # w => Head(s) # Do(v)
    BY <1>1, InstructionsDiffer
  <2>2. QED
    BY <1>1, <2>1, HasTail
<1>6. Has(s, w)
  <2>1. 1 \in 1..Len(s) /\ Head(s) = s[1]
    BY <1>1, TailFacts
  <2>2. QED
    BY <1>1, <2>1 DEF Has
<1>7. \A a, b : Follows(s, a, b) /\ w = a => Has(Tail(s), b)
  BY <1>1, FollowsTail
<1>8. \A a, b : Precedes(s, a, b) /\ w = b => ~Has(Tail(s), a)
  BY <1>1, PrecedesTail
<1>9. w = "clearOperations" => Has(Tail(s), "clearStats") /\ Has(Tail(s), "clearFilter") /\ ~Has(Tail(s), "clearOperations")
  BY <1>1, <1>7, <1>8 DEF ReceiverOrder
<1>10. w = "clearStats" => /\ Has(Tail(s), "clearThreadRows") /\ Has(Tail(s), "clearChart")
                           /\ ~Has(Tail(s), "clearStats") /\ ~Has(Tail(s), "clearOperations")
  BY <1>1, <1>7, <1>8 DEF ReceiverOrder
<1>11. w = "clearFilter" => Has(Tail(s), "clearRows") /\ ~Has(Tail(s), "clearFilter")
  BY <1>1, <1>7, <1>8 DEF ReceiverOrder
<1>12. w = "clearRows" => ~Has(Tail(s), "clearFilter")
  BY <1>1, <1>8 DEF ReceiverOrder
<1>13. w \in {"operation", "backtrace"} => ~Has(Tail(s), "clearRows")
  BY <1>1, <1>8 DEF ReceiverOrder
<1>14. QED
  BY <1>3, <1>4, <1>5, <1>6, <1>9, <1>10, <1>11, <1>12, <1>13

\* What the GUI thread has still to do after an instruction.
LEMMA GuiTail ==
    ASSUME ScriptInv, NEW w, Busy(Gui), Head(todo[Gui]) = Do(w),
           todo'[Gui] = Tail(todo[Gui]) \/ (todo'[Gui] = todo[Gui] /\ w # "fetchTo")
    PROVE  /\ w # "fetchTo" => (Fetches' <=> Fetches)
           /\ w \in {"clearFilter", "search", "clearRows"} => Fetches'
<1> DEFINE s == todo[Gui]
<1>1. s \in Seq(GuiInstruction) /\ s # <<>> /\ GuiOrder(s) /\ Head(s) = Do(w)
  BY DEF ScriptInv, GuiScriptOK, Busy
<1>2. Fetches <=> Has(s, "fetchTo")
  BY DEF Fetches
<1>3. (todo'[Gui] = Tail(s) => (Fetches' <=> Has(Tail(s), "fetchTo"))) /\ (todo'[Gui] = s => (Fetches' <=> Has(s, "fetchTo")))
  BY DEF Fetches, Has
<1> HIDE DEF s
<1>4. w # "fetchTo" => (Has(Tail(s), "fetchTo") <=> Has(s, "fetchTo"))
  <2>1. w # "fetchTo" => Head(s) # Do("fetchTo")
    BY <1>1, InstructionsDiffer
  <2>2. QED
    BY <1>1, <2>1, HasTail
<1>5. \A a : Follows(s, a, "fetchTo") /\ w = a => Has(Tail(s), "fetchTo")
  BY <1>1, FollowsTail
<1>6. w \in {"clearFilter", "search", "clearRows"} => Has(Tail(s), "fetchTo")
  BY <1>1, <1>5 DEF GuiOrder
<1>7. QED
  BY <1>2, <1>3, <1>4, <1>6 DEF s

\* A step that changes nothing of what is shown keeps SessionInv.
LEMMA SessionStays ==
    ASSUME SessionInv, UNCHANGED shownVars, Fetches => Fetches',
           \A v \in ClearDoes : Comes(v)' <=> Comes(v)
    PROVE  SessionInv'
<1>1. /\ (Comes("clearOperations")' <=> Comes("clearOperations")) /\ (Comes("clearStats")' <=> Comes("clearStats"))
      /\ (Comes("clearFilter")' <=> Comes("clearFilter")) /\ (Comes("clearRows")' <=> Comes("clearRows"))
      /\ (Comes("clearThreadRows")' <=> Comes("clearThreadRows")) /\ (Comes("clearChart")' <=> Comes("clearChart"))
  BY DEF ClearDoes
<1>2. QED
  BY <1>1 DEF shownVars, SessionInv, SessionsMeet, FoundOfSession, ThreadsOfSession, ChartOfSession, AllLoaded,
              NothingListed, NothingFound

\* A message that arrives keeps it: all that clearData clears is still to be cleared.
LEMMA ReceiveSession ==
    ASSUME ScriptInv, SessionInv, ~Busy(Receiver), NEW s, WholeClear(s), todo'[Receiver] = s, todo'[Gui] = todo[Gui],
           UNCHANGED shownVars
    PROVE  SessionInv'
<1>1. \A v : ~Comes(v)
  BY EmptyScript DEF Comes, Busy
<1>2. \A v : Comes(v)' <=> Has(s, v)
  BY DEF Comes, Has
<1>3. Fetches' <=> Fetches
  BY DEF Fetches, Has
<1>4. /\ Comes("clearRows")' => Comes("clearFilter")' /\ Comes("clearOperations")'
      /\ Comes("clearStats")' => Comes("clearOperations")'
  BY <1>2 DEF WholeClear
<1>5. QED
  BY <1>1, <1>3, <1>4 DEF shownVars, SessionInv, SessionsMeet, FoundOfSession, ThreadsOfSession, ChartOfSession,
                          AllLoaded, NothingListed, NothingFound

\* Nothing is shown in the beginning.
LEMMA InitSession == Init => SessionInv
<1> SUFFICES ASSUME Init PROVE SessionInv
  OBVIOUS
<1>1. todo[Receiver] = <<>> /\ todo[Gui] = <<>>
  BY DEF Init, ServerThread
<1>2. (\A v : ~Comes(v)) /\ ~Fetches
  BY <1>1, EmptyScript DEF Comes, Fetches
<1>3. opsSession = 0 /\ statsSession = 0 /\ m_listFilterMemoryOperation = <<>> /\ m_listFilterThreadInfos = {}
      /\ chart = <<>> /\ m_iLoadedCount = 0 /\ Len(<<>>) = 0
  BY DEF Init
<1>4. QED
  BY <1>2, <1>3 DEF SessionInv, SessionsMeet, FoundOfSession, ThreadsOfSession, ChartOfSession, AllLoaded,
                    NothingListed, NothingFound

\* When no handler runs, everything shown is of the session.
LEMMA SessionGivesView == SourcesOK /\ SessionInv => ViewOfSession
<1> SUFFICES ASSUME SourcesOK, SessionInv, ~Busy(Receiver) PROVE
        /\ opsSession = statsSession
        /\ \A i \in 1..Len(m_listFilterMemoryOperation) : m_listFilterMemoryOperation[i][1] = opsSession
        /\ \A r \in m_listFilterThreadInfos : r[1] = statsSession
        /\ ~late => /\ \A i \in 1..Len(chart) : chart[i].session = statsSession
                    /\ ~Busy(Gui) => m_iLoadedCount = Len(m_listFilterMemoryOperation)
  BY DEF ViewOfSession
<1>1. \A v : ~Comes(v)
  BY EmptyScript DEF Comes, Busy
<1>2. ~Busy(Gui) => ~Fetches
  BY EmptyScript DEF Fetches, Busy
<1>3. QED
  <2>1. opsSession = statsSession + 0
    BY <1>1 DEF SessionInv, SessionsMeet
  <2>2. opsSession = statsSession
    BY <2>1 DEF SourcesOK
  <2>3. QED
    BY <1>1, <1>2, <2>2 DEF SessionInv, FoundOfSession, ThreadsOfSession, ChartOfSession, AllLoaded

-----------------------------------------------------------------------------
(* The sessions: what the steps of each thread keep *)

\* The receiving thread keeps SessionInv when it works on the lists and the statistics.
LEMMA ReceiverSourcesSession ==
    ASSUME ScriptInv, TypeInv, SessionInv, NEW w, Busy(Receiver), Head(todo[Receiver]) = Do(w),
           todo'[Receiver] = Tail(todo[Receiver]), todo'[Gui] = todo[Gui],
           DoSources(w), UNCHANGED <<searchVars, rowVars, chartVars, late>>
    PROVE  SessionInv'
<1>1. /\ Comes(w)
      /\ \A v : v # w => (Comes(v)' <=> Comes(v))
      /\ w = "clearOperations" => Comes("clearStats")' /\ Comes("clearFilter")' /\ ~Comes("clearOperations")'
      /\ w = "clearStats" => /\ Comes("clearThreadRows")' /\ Comes("clearChart")'
                             /\ ~Comes("clearStats")' /\ ~Comes("clearOperations")
      /\ w \in {"operation", "backtrace"} => ~Comes("clearRows")
  BY ReceiverTail
<1>2. Fetches' <=> Fetches
  BY DEF Fetches, Has
<1>3. UNCHANGED <<m_listFilterMemoryOperation, m_listFilterThreadInfos, chart, m_iLoadedCount, late>>
  BY DEF searchVars, rowVars, chartVars
<1>4. opsSession \in Nat /\ statsSession \in Nat
  BY DEF TypeInv, SourcesOK
<1>5. CASE w = "clearOperations"
  <2>1. m_listMemoryOperation' = <<>> /\ opsSession' = opsSession + 1 /\ statsSession' = statsSession
    BY <1>5 DEF DoSources, clearOperations
  <2>2. opsSession = statsSession
    <3>1. opsSession = statsSession + 0
      BY <1>1, <1>5 DEF SessionInv, SessionsMeet
    <3>2. QED
      BY <1>4, <3>1
  <2>3. SessionsMeet'
    BY <1>1, <1>5, <2>1, <2>2 DEF SessionsMeet
  <2>4. \A v : v # "clearOperations" => (Comes(v)' <=> Comes(v))
    BY <1>1, <1>5
  <2>5. /\ (Comes("clearFilter")' <=> Comes("clearFilter")) /\ (Comes("clearRows")' <=> Comes("clearRows"))
        /\ (Comes("clearThreadRows")' <=> Comes("clearThreadRows")) /\ (Comes("clearChart")' <=> Comes("clearChart"))
    BY <2>4
  <2>6. FoundOfSession' /\ NothingListed'
    BY <1>1, <1>5, <2>1 DEF FoundOfSession, NothingListed
  <2>7. QED
    BY <1>2, <1>3, <2>1, <2>3, <2>5, <2>6 DEF SessionInv, ThreadsOfSession, ChartOfSession, AllLoaded, NothingFound
<1>6. CASE w = "clearStats"
  <2>1. m_listMemoryOperation' = m_listMemoryOperation /\ opsSession' = opsSession /\ statsSession' = statsSession + 1
    BY <1>6 DEF DoSources, listVars
  <2>2. opsSession = statsSession + 1
    BY <1>1, <1>6 DEF SessionInv, SessionsMeet
  <2>3. SessionsMeet'
    <3>1. opsSession' = statsSession' + 0
      BY <1>4, <2>1, <2>2
    <3>2. QED
      BY <1>1, <1>6, <3>1 DEF SessionsMeet
  <2>4. \A v : v # "clearStats" => (Comes(v)' <=> Comes(v))
    BY <1>1, <1>6
  <2>5. /\ (Comes("clearFilter")' <=> Comes("clearFilter")) /\ (Comes("clearRows")' <=> Comes("clearRows"))
        /\ (Comes("clearOperations")' <=> Comes("clearOperations"))
    BY <2>4
  <2>6. ThreadsOfSession' /\ ChartOfSession'
    BY <1>1, <1>6 DEF ThreadsOfSession, ChartOfSession
  <2>7. QED
    BY <1>2, <1>3, <2>1, <2>3, <2>5, <2>6 DEF SessionInv, FoundOfSession, AllLoaded, NothingListed, NothingFound
<1>7. CASE w \in {"operation", "backtrace"}
  <2>1. opsSession' = opsSession /\ statsSession' = statsSession
    BY <1>7 DEF DoSources
  <2>2. \A v \in ClearDoes : v # w
    BY <1>7 DEF ClearDoes
  <2>3. \A v \in ClearDoes : Comes(v)' <=> Comes(v)
    BY <1>1, <2>2
  <2>4. ~Comes("clearRows")'
    BY <1>1, <1>7
  <2>5. /\ (Comes("clearOperations")' <=> Comes("clearOperations")) /\ (Comes("clearStats")' <=> Comes("clearStats"))
        /\ (Comes("clearFilter")' <=> Comes("clearFilter")) /\ (Comes("clearRows")' <=> Comes("clearRows"))
        /\ (Comes("clearThreadRows")' <=> Comes("clearThreadRows")) /\ (Comes("clearChart")' <=> Comes("clearChart"))
    BY <2>3 DEF ClearDoes
  <2>6. NothingListed'
    BY <2>4 DEF NothingListed
  <2>7. QED
    BY <1>2, <1>3, <2>1, <2>5, <2>6 DEF SessionInv, SessionsMeet, FoundOfSession, ThreadsOfSession, ChartOfSession,
                                       AllLoaded, NothingFound
<1>8. CASE w \in {"count", "thread"}
  <2>1. UNCHANGED <<m_listMemoryOperation, opsSession, statsSession>>
    BY <1>8 DEF DoSources, updateThreadInfos, listVars
  <2>2. \A v \in ClearDoes : v # w
    BY <1>8 DEF ClearDoes
  <2>3. \A v \in ClearDoes : Comes(v)' <=> Comes(v)
    BY <1>1, <2>2
  <2>4. UNCHANGED shownVars
    BY <1>3, <2>1 DEF shownVars
  <2>5. QED
    BY <1>2, <2>3, <2>4, SessionStays
<1>9. QED
  BY <1>5, <1>6, <1>7, <1>8 DEF DoSources

\* And when it clears what is shown of them.
LEMMA ReceiverViewSession ==
    ASSUME ScriptInv, SessionInv, NEW w, Busy(Receiver), Head(todo[Receiver]) = Do(w),
           todo'[Receiver] = Tail(todo[Receiver]), todo'[Gui] = todo[Gui],
           UNCHANGED sourceVars,
           \/ /\ w \in {"resetSearch", "clearFilter"}
              /\ DoSearch(w) /\ UNCHANGED <<rowVars, chartVars, late>>
           \/ /\ w \in {"clearRows", "clearThreadRows"}
              /\ DoRows(w) /\ UNCHANGED <<searchVars, chartVars>>
           \/ /\ w \in {"clearChart", "resetLastTime", "resetLastValue"}
              /\ DoChart(w) /\ UNCHANGED <<searchVars, rowVars>>
           \/ w = "nothing" /\ UNCHANGED <<searchVars, rowVars, chartVars, late>>
    PROVE  SessionInv'
<1>1. /\ Comes(w)
      /\ \A v : v # w => (Comes(v)' <=> Comes(v))
      /\ w = "clearFilter" => Comes("clearRows")' /\ ~Comes("clearFilter")'
      /\ w = "clearRows" => ~Comes("clearFilter")
  BY ReceiverTail
<1>2. Fetches' <=> Fetches
  BY DEF Fetches, Has
<1>3. UNCHANGED <<m_listMemoryOperation, opsSession, statsSession>>
  BY DEF sourceVars, listVars
<1>4. w \notin {"clearOperations", "clearStats"}
  OBVIOUS
<1>5. (Comes("clearOperations")' <=> Comes("clearOperations")) /\ (Comes("clearStats")' <=> Comes("clearStats"))
  BY <1>1, <1>4
<1>6. SessionsMeet'
  BY <1>3, <1>5 DEF SessionInv, SessionsMeet
<1>7. CASE w = "clearFilter"
  <2>1. m_listFilterMemoryOperation' = <<>> /\ UNCHANGED <<rowVars, chartVars, late>>
    BY <1>7 DEF DoSearch
  <2>2. UNCHANGED <<m_listFilterThreadInfos, chart, m_iLoadedCount, late>>
    BY <2>1 DEF rowVars, chartVars
  <2>3. /\ (Comes("clearThreadRows")' <=> Comes("clearThreadRows")) /\ (Comes("clearChart")' <=> Comes("clearChart"))
        /\ (Comes("clearRows")' <=> Comes("clearRows"))
    BY <1>1, <1>7
  <2>4. FoundOfSession' /\ NothingFound' /\ AllLoaded'
    <3>1. \A i \in 1..Len(<<>>) : FALSE
      OBVIOUS
    <3>2. QED
      BY <1>1, <1>7, <2>1, <3>1 DEF FoundOfSession, NothingFound, AllLoaded
  <2>5. QED
    BY <1>3, <1>5, <1>6, <2>2, <2>3, <2>4 DEF SessionInv, ThreadsOfSession, ChartOfSession, NothingListed
<1>8. CASE w = "clearRows"
  <2>1. m_iLoadedCount' = 0 /\ UNCHANGED <<m_listFilterThreadInfos, late, searchVars, chartVars>>
    BY <1>8 DEF DoRows
  <2>2. UNCHANGED <<m_listFilterMemoryOperation, m_listFilterThreadInfos, chart, late>>
    BY <2>1 DEF searchVars, chartVars
  <2>3. /\ (Comes("clearThreadRows")' <=> Comes("clearThreadRows")) /\ (Comes("clearChart")' <=> Comes("clearChart"))
        /\ (Comes("clearFilter")' <=> Comes("clearFilter"))
    BY <1>1, <1>8
  <2>4. m_listFilterMemoryOperation = <<>> /\ Len(<<>>) = 0
    BY <1>1, <1>8 DEF SessionInv, NothingFound
  <2>5. AllLoaded' /\ NothingFound'
    BY <2>1, <2>2, <2>4 DEF AllLoaded, NothingFound
  <2>6. NothingListed'
    <3>1. Comes("clearOperations") => Comes("clearFilter")
      <4>1. todo[Receiver] \in Seq(ReceiverInstruction) /\ todo[Receiver] # <<>>
            /\ Follows(todo[Receiver], "clearOperations", "clearFilter")
        BY DEF ScriptInv, ReceiverScript, ReceiverOrder, Busy
      <4>2. QED
        BY <4>1, FollowsTail DEF Comes
    <3>2. m_listMemoryOperation = <<>>
      BY <1>1, <1>8, <3>1 DEF SessionInv, NothingListed
    <3>3. QED
      BY <1>3, <3>2 DEF NothingListed
  <2>7. QED
    BY <1>3, <1>6, <2>2, <2>3, <2>5, <2>6 DEF SessionInv, FoundOfSession, ThreadsOfSession, ChartOfSession
<1>9. CASE w = "clearThreadRows"
  <2>1. m_listFilterThreadInfos' = {} /\ UNCHANGED <<m_iLoadedCount, late, searchVars, chartVars>>
    BY <1>9 DEF DoRows
  <2>2. UNCHANGED <<m_listFilterMemoryOperation, m_iLoadedCount, chart, late>>
    BY <2>1 DEF searchVars, chartVars
  <2>3. /\ (Comes("clearFilter")' <=> Comes("clearFilter")) /\ (Comes("clearChart")' <=> Comes("clearChart"))
        /\ (Comes("clearRows")' <=> Comes("clearRows"))
    BY <1>1, <1>9
  <2>4. ThreadsOfSession'
    BY <2>1 DEF ThreadsOfSession
  <2>5. QED
    BY <1>2, <1>3, <1>5, <1>6, <2>2, <2>3, <2>4 DEF SessionInv, FoundOfSession, ChartOfSession, AllLoaded, NothingListed, NothingFound
<1>10. CASE w = "clearChart"
  <2>1. chart' = <<>> /\ UNCHANGED <<late, searchVars, rowVars>>
    BY <1>10 DEF DoChart
  <2>2. UNCHANGED <<m_listFilterMemoryOperation, m_iLoadedCount, m_listFilterThreadInfos, late>>
    BY <2>1 DEF searchVars, rowVars
  <2>3. /\ (Comes("clearFilter")' <=> Comes("clearFilter")) /\ (Comes("clearThreadRows")' <=> Comes("clearThreadRows"))
        /\ (Comes("clearRows")' <=> Comes("clearRows"))
    BY <1>1, <1>10
  <2>4. ChartOfSession'
    <3>1. \A i \in 1..Len(<<>>) : FALSE
      OBVIOUS
    <3>2. QED
      BY <2>1, <3>1 DEF ChartOfSession
  <2>5. QED
    BY <1>2, <1>3, <1>5, <1>6, <2>2, <2>3, <2>4 DEF SessionInv, FoundOfSession, ThreadsOfSession, AllLoaded, NothingListed, NothingFound
<1>11. CASE w \in {"resetSearch", "resetLastTime", "resetLastValue", "nothing"}
  <2>1. UNCHANGED <<m_listFilterMemoryOperation, m_iLoadedCount, m_listFilterThreadInfos, chart, late>>
    BY <1>11 DEF DoSearch, DoRows, DoChart, searchVars, rowVars, chartVars
  <2>2. UNCHANGED shownVars
    BY <1>3, <2>1 DEF shownVars
  <2>3. w \notin {"clearFilter", "clearRows", "clearThreadRows", "clearChart"}
    BY <1>11
  <2>4. /\ (Comes("clearFilter")' <=> Comes("clearFilter")) /\ (Comes("clearThreadRows")' <=> Comes("clearThreadRows"))
        /\ (Comes("clearRows")' <=> Comes("clearRows")) /\ (Comes("clearChart")' <=> Comes("clearChart"))
    BY <1>1, <2>3
  <2>5. QED
    BY <1>2, <1>5, <2>2, <2>4 DEF SessionInv, SessionsMeet, FoundOfSession, ThreadsOfSession, ChartOfSession, AllLoaded,
                                NothingListed, NothingFound, shownVars
<1>12. QED
  BY <1>7, <1>8, <1>9, <1>10, <1>11

\* The GUI thread keeps it: what it computed before a session was cleared it draws or
\* counts late, and that is noted.
LEMMA GuiSession ==
    ASSUME ScriptInv, TypeInv, SessionInv, Doing(Gui)
    PROVE  SessionInv'
<1>1. PICK w \in GuiDoes :
        /\ At(Gui) = <<"do", w>> /\ Busy(Gui) /\ Head(todo[Gui]) = Do(w)
        /\ Repeats(w) => todo' = todo
        /\ ~Repeats(w) => Advance(Gui)
  BY DoingOfGui
<1>2. /\ UNCHANGED sourceVars
      /\ \/ /\ w \in {"resetSearch", "clearFilter", "search"}
            /\ DoSearch(w) /\ UNCHANGED <<rowVars, chartVars, late>>
         \/ /\ w \in {"clearRows", "countRows", "fetchTo", "threadRows"}
            /\ DoRows(w) /\ UNCHANGED <<searchVars, chartVars>>
         \/ /\ w \in {"usage", "draw"}
            /\ DoChart(w) /\ UNCHANGED <<searchVars, rowVars>>
  BY <1>1, GuiEffects
<1>3. todo'[Receiver] = todo[Receiver] /\ (todo'[Gui] = Tail(todo[Gui]) \/ (todo'[Gui] = todo[Gui] /\ w # "fetchTo"))
  <2>1. CASE Repeats(w)
    BY <1>1, <2>1 DEF Repeats
  <2>2. CASE ~Repeats(w)
    <3>1. Gui \in ServerThread /\ Receiver \in ServerThread \ {Gui}
      BY DEF ServerThread, Gui, Receiver
    <3>2. QED
      BY <1>1, <2>2, <3>1, AdvanceScripts
  <2>3. QED
    BY <2>1, <2>2
<1>4. \A v : Comes(v)' <=> Comes(v)
  BY <1>3 DEF Comes, Has
<1>5. /\ w # "fetchTo" => (Fetches' <=> Fetches)
      /\ w \in {"clearFilter", "search", "clearRows"} => Fetches'
  BY <1>1, <1>3, GuiTail
<1>6. UNCHANGED <<m_listMemoryOperation, opsSession, statsSession>>
  BY <1>2 DEF sourceVars, listVars
<1>7. SessionsMeet' /\ NothingListed'
  BY <1>4, <1>6 DEF SessionInv, SessionsMeet, NothingListed
<1>8. CASE w \in {"clearFilter", "search"} /\ DoSearch(w) /\ UNCHANGED <<rowVars, chartVars, late>>
  <2>1. UNCHANGED <<m_listFilterThreadInfos, chart, late>>
    BY <1>8 DEF rowVars, chartVars
  <2>2. ThreadsOfSession' /\ ChartOfSession'
    BY <1>4, <1>6, <2>1 DEF SessionInv, ThreadsOfSession, ChartOfSession
  <2>3. AllLoaded'
    BY <1>5, <1>8 DEF AllLoaded
  <2>4. FoundOfSession' /\ NothingFound'
    <3>1. CASE m_listFilterMemoryOperation' = m_listFilterMemoryOperation
      BY <1>4, <1>6, <3>1 DEF SessionInv, FoundOfSession, NothingFound
    <3>2. CASE m_listFilterMemoryOperation' = <<>>
      <4>1. \A i \in 1..Len(<<>>) : FALSE
        OBVIOUS
      <4>2. QED
        BY <3>2, <4>1 DEF FoundOfSession, NothingFound
    <3>3. CASE ~SearchDone /\ m_listFilterMemoryOperation' = Append(m_listFilterMemoryOperation, <<opsSession, searched + 1>>)
      <4> DEFINE f == m_listFilterMemoryOperation
                 x == <<opsSession, searched + 1>>
      <4>1. IsList(f)
        BY DEF TypeInv, SearchOK, IsList
      <4>2. x[1] = opsSession
        OBVIOUS
      <4> HIDE DEF f, x
      <4>3. Len(f) \in Nat /\ Len(Append(f, x)) = Len(f) + 1 /\ Append(f, x)[Len(f) + 1] = x
            /\ \A i \in 1..Len(f) : Append(f, x)[i] = f[i]
        BY <4>1, ListAppend
      <4>4. m_listFilterMemoryOperation' = Append(f, x)
        BY <3>3 DEF f, x
      <4>5. (\A i \in 1..Len(f) : f[i][1] = opsSession) =>
                \A i \in 1..Len(Append(f, x)) : Append(f, x)[i][1] = opsSession
        <5>1. SUFFICES ASSUME \A i \in 1..Len(f) : f[i][1] = opsSession, NEW i \in 1..Len(Append(f, x))
                       PROVE  Append(f, x)[i][1] = opsSession
          OBVIOUS
        <5>2. i \in 1..Len(f) \/ i = Len(f) + 1
          BY <4>3
        <5>3. QED
          BY <4>2, <4>3, <5>1, <5>2
      <4>6. FoundOfSession'
        BY <1>4, <1>6, <4>4, <4>5 DEF SessionInv, FoundOfSession, f
      <4>7. NothingFound'
        <5>1. SUFFICES ASSUME Comes("clearRows"), ~Comes("clearFilter") PROVE FALSE
          BY <1>4 DEF NothingFound
        <5>2. Comes("clearOperations") => Comes("clearFilter")
          <6>1. todo[Receiver] \in Seq(ReceiverInstruction) /\ Follows(todo[Receiver], "clearOperations", "clearFilter")
            BY DEF ScriptInv, ReceiverScript, ReceiverOrder
          <6>2. todo[Receiver] # <<>>
            BY <5>1, EmptyScript DEF Comes
          <6>3. QED
            BY <6>1, <6>2, FollowsTail DEF Comes
        <5>3. m_listMemoryOperation = <<>>
          BY <5>1, <5>2 DEF SessionInv, NothingListed
        <5>4. searched \in 0..Len(m_listMemoryOperation) /\ searched # Len(m_listMemoryOperation) /\ Len(<<>>) = 0
          BY <3>3 DEF SearchDone, TypeInv, SearchOK
        <5>5. QED
          BY <5>3, <5>4
      <4>8. QED
        BY <4>6, <4>7
    <3>4. QED
      BY <1>8, <3>1, <3>2, <3>3 DEF DoSearch
  <2>5. QED
    BY <1>7, <2>2, <2>3, <2>4 DEF SessionInv
<1>9. CASE w \in {"clearRows", "fetchTo"} /\ DoRows(w) /\ UNCHANGED <<searchVars, chartVars>>
  <2>1. UNCHANGED <<m_listFilterMemoryOperation, m_listFilterThreadInfos, chart>> /\ late' \in {late, late \/ rowCount # Len(m_listFilterMemoryOperation)}
    BY <1>9 DEF DoRows, searchVars, chartVars
  <2>2. ~late' => ~late
    BY <2>1
  <2>3. FoundOfSession' /\ ThreadsOfSession' /\ NothingFound'
    BY <1>4, <1>6, <2>1 DEF SessionInv, FoundOfSession, ThreadsOfSession, NothingFound
  <2>4. ChartOfSession'
    BY <1>4, <1>6, <2>1, <2>2 DEF SessionInv, ChartOfSession
  <2>5. CASE w = "clearRows"
    BY <1>5, <1>7, <2>3, <2>4, <2>5 DEF SessionInv, AllLoaded
  <2>6. CASE w = "fetchTo"
    <3>1. m_iLoadedCount' = rowCount /\ late' = (late \/ rowCount # Len(m_listFilterMemoryOperation))
      BY <1>9, <2>6 DEF DoRows
    <3>2. AllLoaded'
      BY <2>1, <3>1 DEF AllLoaded
    <3>3. QED
      BY <1>7, <2>3, <2>4, <3>2 DEF SessionInv
  <2>7. QED
    BY <1>9, <2>5, <2>6
<1>10. CASE w = "threadRows" /\ DoRows(w) /\ UNCHANGED <<searchVars, chartVars>>
  <2>1. m_listFilterThreadInfos' = {<<statsSession, e>> : e \in m_listThreadInfos} /\ UNCHANGED <<m_iLoadedCount, late>>
    BY <1>10 DEF DoRows
  <2>2. UNCHANGED <<m_listFilterMemoryOperation, chart>>
    BY <1>10 DEF searchVars, chartVars
  <2>3. \A r \in m_listFilterThreadInfos' : r[1] = statsSession
    BY <2>1
  <2>4. ThreadsOfSession'
    BY <1>6, <2>3 DEF ThreadsOfSession
  <2>5. QED
    BY <1>4, <1>5, <1>6, <1>7, <1>10, <2>1, <2>2, <2>4 DEF SessionInv, FoundOfSession, ChartOfSession, AllLoaded, NothingFound
<1>11. CASE w = "draw" /\ memoryUsageUpdate # <<>> /\ DoChart(w) /\ UNCHANGED <<searchVars, rowVars>>
  <2> DEFINE p == Head(memoryUsageUpdate)
  <2>1. chart' = Append(chart, p) /\ late' = (late \/ p.session # statsSession)
    BY <1>11 DEF DoChart
  <2>2. UNCHANGED <<m_listFilterMemoryOperation, m_listFilterThreadInfos, m_iLoadedCount>>
    BY <1>11 DEF searchVars, rowVars
  <2>3. FoundOfSession' /\ ThreadsOfSession' /\ NothingFound'
    BY <1>4, <1>6, <2>2 DEF SessionInv, FoundOfSession, ThreadsOfSession, NothingFound
  <2>4. AllLoaded'
    BY <1>4, <1>5, <1>11, <2>1, <2>2 DEF SessionInv, AllLoaded
  <2> HIDE DEF p
  <2>5. ChartOfSession'
    <3>1. SUFFICES ASSUME ~late', ~Comes("clearChart"), NEW i \in 1..Len(chart') PROVE chart'[i].session = statsSession
      BY <1>4, <1>6 DEF ChartOfSession
    <3>2. ~late /\ p.session = statsSession
      BY <2>1, <3>1
    <3>3. /\ Len(chart) \in Nat /\ Len(chart') = Len(chart) + 1 /\ chart'[Len(chart) + 1] = p
          /\ \A j \in 1..Len(chart) : chart'[j] = chart[j]
      BY <2>1, ListAppend DEF TypeInv, ChartOK
    <3>4. \A j \in 1..Len(chart) : chart[j].session = statsSession
      BY <3>1, <3>2 DEF SessionInv, ChartOfSession
    <3>5. i \in 1..Len(chart) \/ i = Len(chart) + 1
      BY <3>3
    <3>6. QED
      BY <3>2, <3>3, <3>4, <3>5
  <2>6. QED
    BY <1>7, <2>3, <2>4, <2>5 DEF SessionInv
<1>12. CASE /\ w \in {"resetSearch", "countRows", "usage"} \/ (w = "draw" /\ memoryUsageUpdate = <<>>)
            /\ \/ DoSearch(w) /\ UNCHANGED <<rowVars, chartVars, late>>
               \/ DoRows(w) /\ UNCHANGED <<searchVars, chartVars>>
               \/ DoChart(w) /\ UNCHANGED <<searchVars, rowVars>>
  <2>1. UNCHANGED <<m_listFilterMemoryOperation, m_listFilterThreadInfos, m_iLoadedCount, chart, late>>
    BY <1>12 DEF DoSearch, DoRows, DoChart, searchVars, rowVars, chartVars
  <2>2. UNCHANGED shownVars
    BY <1>6, <2>1 DEF shownVars
  <2>3. Fetches' <=> Fetches
    BY <1>5, <1>12
  <2>4. QED
    BY <1>4, <2>2, <2>3, SessionStays
<1>13. QED
  BY <1>2, <1>8, <1>9, <1>10, <1>11, <1>12

-----------------------------------------------------------------------------
(* The sessions: every step *)

\* Every step of a thread keeps it.
LEMMA StepSession ==
    ASSUME ScriptInv, TypeInv, SessionInv, NEW t \in ServerThread, Step(t)
    PROVE  SessionInv'
<1>1. CASE Locking(t)
  <2>1. UNCHANGED shownVars
    BY <1>1 DEF Locking, sourceVars, listVars, searchVars, rowVars, chartVars, shownVars
  <2>2. CASE t = Gui
    <3>1. Busy(Gui) /\ Advance(Gui) /\ Gui \in ServerThread /\ Receiver \in ServerThread \ {Gui}
      BY <1>1, <2>2, LockingOfGui DEF ServerThread, Gui, Receiver
    <3>2. todo'[Gui] = Tail(todo[Gui]) /\ todo'[Receiver] = todo[Receiver]
      BY <3>1, AdvanceScripts
    <3>3. Head(todo[Gui]) # Do("fetchTo")
      BY <1>1, <2>2, LockingOfGui, InstructionsDiffer
    <3>4. todo[Gui] \in Seq(GuiInstruction) /\ todo[Gui] # <<>>
      BY <3>1 DEF ScriptInv, GuiScriptOK, Busy
    <3>5. Has(todo[Gui], "fetchTo") => Has(Tail(todo[Gui]), "fetchTo")
      BY <3>3, <3>4, HasTail
    <3>6. (Fetches => Fetches') /\ \A v : Comes(v)' <=> Comes(v)
      BY <3>2, <3>5 DEF Fetches, Comes, Has
    <3>7. QED
      BY <2>1, <3>6, SessionStays
  <2>3. CASE t = Receiver
    <3>1. Busy(Receiver) /\ Advance(Receiver) /\ Receiver \in ServerThread /\ Gui \in ServerThread \ {Receiver}
      BY <1>1, <2>3, LockingOfReceiver DEF ServerThread, Gui, Receiver
    <3>2. todo'[Receiver] = Tail(todo[Receiver]) /\ todo'[Gui] = todo[Gui]
      BY <3>1, AdvanceScripts
    <3>3. \A v : Head(todo[Receiver]) # Do(v)
      BY <1>1, <2>3, LockingOfReceiver, InstructionsDiffer
    <3>4. todo[Receiver] \in Seq(ReceiverInstruction) /\ todo[Receiver] # <<>>
      BY <3>1 DEF ScriptInv, ReceiverScript, Busy
    <3>5. \A v : Has(Tail(todo[Receiver]), v) <=> Has(todo[Receiver], v)
      BY <3>3, <3>4, HasTail
    <3>6. (Fetches => Fetches') /\ \A v : Comes(v)' <=> Comes(v)
      BY <3>2, <3>5 DEF Fetches, Comes, Has
    <3>7. QED
      BY <2>1, <3>6, SessionStays
  <2>4. QED
    BY <2>2, <2>3 DEF ServerThread
<1>2. CASE Doing(t) /\ t = Gui
  BY <1>2, GuiSession
<1>3. CASE Doing(t) /\ t = Receiver
  <2>1. PICK w \in ReceiverDoes :
          At(Receiver) = <<"do", w>> /\ Busy(Receiver) /\ Head(todo[Receiver]) = Do(w) /\ Advance(Receiver)
    BY <1>3, DoingOfReceiver
  <2>2. todo'[Receiver] = Tail(todo[Receiver]) /\ todo'[Gui] = todo[Gui]
    BY <2>1, AdvanceScripts DEF ServerThread, Gui, Receiver
  <2>3. \/ DoSources(w) /\ UNCHANGED <<searchVars, rowVars, chartVars, late>>
        \/ /\ w \in {"resetSearch", "clearFilter"}
           /\ DoSearch(w) /\ UNCHANGED <<sourceVars, rowVars, chartVars, late>>
        \/ /\ w \in {"clearRows", "clearThreadRows"}
           /\ DoRows(w) /\ UNCHANGED <<sourceVars, searchVars, chartVars>>
        \/ /\ w \in {"clearChart", "resetLastTime", "resetLastValue"}
           /\ DoChart(w) /\ UNCHANGED <<sourceVars, searchVars, rowVars>>
        \/ w = "nothing" /\ UNCHANGED <<sourceVars, searchVars, rowVars, chartVars, late>>
    BY <1>3, <2>1, ReceiverEffects
  <2>4. CASE DoSources(w) /\ UNCHANGED <<searchVars, rowVars, chartVars, late>>
    BY <2>1, <2>2, <2>4, ReceiverSourcesSession
  <2>5. CASE ~(DoSources(w) /\ UNCHANGED <<searchVars, rowVars, chartVars, late>>)
    BY <2>1, <2>2, <2>3, <2>5, ReceiverViewSession
  <2>6. QED
    BY <2>4, <2>5
<1>4. QED
  BY <1>1, <1>2, <1>3 DEF Step, ServerThread

\* Every step keeps it.
LEMMA NextSession == ScriptInv /\ TypeInv /\ SessionInv /\ [Next]_vars => SessionInv'
<1> SUFFICES ASSUME ScriptInv, TypeInv, SessionInv, [Next]_vars PROVE SessionInv'
  OBVIOUS
<1>1. CASE \E t \in ServerThread : Step(t)
  BY <1>1, StepSession
<1>2. CASE \E m \in Messages : Receive(m)
  <2>1. PICK m \in Messages : Receive(m)
    BY <1>2
  <2>2. ~Busy(Receiver) /\ todo' = [todo EXCEPT ![Receiver] = Handler(m)] /\ UNCHANGED shownVars
    BY <2>1 DEF Receive, sourceVars, listVars, searchVars, rowVars, chartVars, shownVars
  <2>3. todo'[Receiver] = Handler(m) /\ todo'[Gui] = todo[Gui]
    BY <2>2, StartScripts
  <2>4. WholeClear(Handler(m))
    BY HandlersAreGood DEF GoodHandler
  <2>5. QED
    BY <2>2, <2>3, <2>4, ReceiveSession
<1>3. CASE FilterClicked \/ Timeout \/ DoubleClicked
  <2>1. PICK s : GuiStarts(s) /\ GoodGui(s)
    BY <1>3, GuiScriptsAreGood DEF FilterClicked, Timeout, DoubleClicked
  <2>2. ~Busy(Gui) /\ todo' = [todo EXCEPT ![Gui] = s]
    BY <2>1 DEF GuiStarts
  <2>3. todo'[Receiver] = todo[Receiver]
    BY <2>1, <2>2, StartScripts
  <2>4. ~Fetches
    BY <2>2, EmptyScript DEF Busy, Fetches
  <2>5. \A v : Comes(v)' <=> Comes(v)
    BY <2>3 DEF Comes, Has
  <2>6. UNCHANGED <<m_iLoadedCount, m_listFilterThreadInfos>>
    BY <1>3 DEF FilterClicked, Timeout, DoubleClicked, rowVars
  <2>7. UNCHANGED shownVars
    BY <2>1, <2>6 DEF GuiStarts, sourceVars, listVars, searchVars, chartVars, shownVars
  <2>8. QED
    BY <2>4, <2>5, <2>7, SessionStays
<1>4. CASE WindowClosed \/ UNCHANGED vars
  <2>1. UNCHANGED todo /\ UNCHANGED shownVars
    BY <1>4 DEF WindowClosed, vars, controlVars, sourceVars, listVars, searchVars, rowVars, chartVars, shownVars
  <2>2. (Fetches => Fetches') /\ \A v : Comes(v)' <=> Comes(v)
    BY <2>1 DEF Fetches, Comes, Has
  <2>3. QED
    BY <2>1, <2>2, SessionStays
<1>5. QED
  BY <1>1, <1>2, <1>3, <1>4 DEF Next

\* After a new connection everything the window shows is of it, and all its rows are
\* loaded, unless the timer was drawing or a search counting its rows while the handler
\* ran: clearData clears list, statistics, rows and chart one after the other, some of
\* them without a lock, while the GUI thread may be between any two of its own steps
\* (QApplicationWindowController::clearData, onFilterButtonClicked, onTimerUpdate).
THEOREM SpecViewOfSession == Spec => []ViewOfSession
<1>1. Init => ScriptInv /\ HoldInv /\ TypeInv /\ SessionInv
  BY InitHolds, InitTypes, InitSession
<1>2. ScriptInv /\ HoldInv /\ TypeInv /\ SessionInv /\ [Next]_vars => (ScriptInv /\ HoldInv /\ TypeInv /\ SessionInv)'
  BY NextHolds, NextTypes, NextSession
<1>3. ScriptInv /\ HoldInv /\ TypeInv /\ SessionInv => ViewOfSession
  BY SessionGivesView DEF TypeInv
<1>4. QED
  BY <1>1, <1>2, <1>3, PTL DEF Spec

-----------------------------------------------------------------------------
(* The search: what is counted of a list *)

\* the parts of the first k operations of a list: what remains, and what is counted
NotFreed(L, k) == {i \in 1..k : Colour(L[i]) = "red"}
Allocating(L, k) == {i \in 1..k : L[i].code # "free"}
Freeing(L, k) == {i \in 1..k : L[i].free # NULL}
Freed(L, k) == {i \in 1..k : L[i].freed}

\* s counts the first k operations of L as the statistics do
Counted(s, L, k) ==
    /\ s.allocCount = Cardinality(Allocating(L, k))
    /\ s.freeCount = Cardinality(Freeing(L, k))
    /\ s.freeSize = SizeSum(L, Freed(L, k))

\* what a search with the filter that is set shows of them
Shown(L, k) == IF filter.notFreed THEN NotFreed(L, k) ELSE 1..k

\* The search has counted, and listed, what it is to show of the first k operations.
StatsOf(L, k) ==
    filter.thread = NULL =>
        /\ m_searchStats.ops = Cardinality(Shown(L, k))
        /\ m_searchStats.remainingSize = SizeSum(L, NotFreed(L, k))
        /\ ~filter.notFreed => Counted(m_searchStats, L, k)
RowsOf(L, k) == filter.thread = NULL => Len(m_listFilterMemoryOperation) = Cardinality(Shown(L, k))

\* the sizes of a list fit a word; what frees a block is none itself
Fits(L) == SizeSum(L, 1..Len(L)) < WordRange
EmptyFrees(L) == \A i \in 1..Len(L) : L[i].code = "free" => L[i].ptr = NULL /\ L[i].size = 0

\* Ranges and parts of ranges are finite.
LEMMA RangeFacts ==
    ASSUME NEW k \in Nat
    PROVE  /\ IsFiniteSet(1..k) /\ Cardinality(1..k) = k /\ 1..(k + 1) = (1..k) \cup {k + 1} /\ k + 1 \notin 1..k
           /\ \A S : S \subseteq 1..k => IsFiniteSet(S) /\ Cardinality(S) \in Nat
<1>1. IsFiniteSet(1..k) /\ Cardinality(1..k) = k
  BY FS_Interval
<1>2. 1..(k + 1) = (1..k) \cup {k + 1} /\ k + 1 \notin 1..k
  OBVIOUS
<1>3. ASSUME NEW S, S \subseteq 1..k PROVE IsFiniteSet(S) /\ Cardinality(S) \in Nat
  BY <1>1, <1>3, FS_Subset, FS_CardinalityType
<1>4. QED
  BY <1>1, <1>2, <1>3

\* A part of a range is one larger with the number after it.
LEMMA OneMore ==
    ASSUME NEW k \in Nat, NEW S, S \subseteq 1..k
    PROVE  Cardinality(S \cup {k + 1}) = Cardinality(S) + 1
<1>1. IsFiniteSet(S) /\ k + 1 \notin S
  BY RangeFacts
<1>2. QED
  BY <1>1, FS_AddElement

\* No operation, nothing counted.
LEMMA NoneYet ==
    ASSUME NEW L
    PROVE  /\ NotFreed(L, 0) = {} /\ Allocating(L, 0) = {} /\ Freeing(L, 0) = {} /\ Freed(L, 0) = {} /\ Shown(L, 0) = {}
           /\ Cardinality({}) = 0 /\ SizeSum(L, {}) = 0
<1>1. 1..0 = {}
  OBVIOUS
<1>2. QED
  BY <1>1, FS_EmptySet, SizeSumEmpty DEF NotFreed, Allocating, Freeing, Freed, Shown

\* The parts of a list with an operation more.
LEMMA PartsOf ==
    ASSUME NEW L, NEW k \in Nat
    PROVE  /\ NotFreed(L, k) \subseteq 1..k /\ Allocating(L, k) \subseteq 1..k
           /\ Freeing(L, k) \subseteq 1..k /\ Freed(L, k) \subseteq 1..k
           /\ NotFreed(L, k + 1) = NotFreed(L, k) \cup (IF Colour(L[k + 1]) = "red" THEN {k + 1} ELSE {})
           /\ Allocating(L, k + 1) = Allocating(L, k) \cup (IF L[k + 1].code # "free" THEN {k + 1} ELSE {})
           /\ Freeing(L, k + 1) = Freeing(L, k) \cup (IF L[k + 1].free # NULL THEN {k + 1} ELSE {})
           /\ Freed(L, k + 1) = Freed(L, k) \cup (IF L[k + 1].freed THEN {k + 1} ELSE {})
<1>1. 1..(k + 1) = (1..k) \cup {k + 1}
  BY RangeFacts
<1>2. /\ NotFreed(L, k) \subseteq 1..k /\ Allocating(L, k) \subseteq 1..k
      /\ Freeing(L, k) \subseteq 1..k /\ Freed(L, k) \subseteq 1..k
  BY DEF NotFreed, Allocating, Freeing, Freed
<1>3. NotFreed(L, k + 1) = NotFreed(L, k) \cup (IF Colour(L[k + 1]) = "red" THEN {k + 1} ELSE {})
  BY <1>1 DEF NotFreed
<1>4. Allocating(L, k + 1) = Allocating(L, k) \cup (IF L[k + 1].code # "free" THEN {k + 1} ELSE {})
  BY <1>1 DEF Allocating
<1>5. Freeing(L, k + 1) = Freeing(L, k) \cup (IF L[k + 1].free # NULL THEN {k + 1} ELSE {})
  BY <1>1 DEF Freeing
<1>6. Freed(L, k + 1) = Freed(L, k) \cup (IF L[k + 1].freed THEN {k + 1} ELSE {})
  BY <1>1 DEF Freed
<1>7. QED
  BY <1>2, <1>3, <1>4, <1>5, <1>6

\* Sums over parts of a list whose sizes are numbers.
LEMMA PartSums ==
    ASSUME NEW L \in Seq(OpType)
    PROVE  /\ Len(L) \in Nat /\ \A i \in 1..Len(L) : L[i] \in OpType /\ L[i].size \in Nat
           /\ \A S : S \subseteq 1..Len(L) =>
                /\ SizeSum(L, S) \in Nat /\ SizeSum(L, S) <= SizeSum(L, 1..Len(L))
                /\ \A x \in S : SizeSum(L, S) = L[x].size + SizeSum(L, S \ {x})
                /\ \A x \in 1..Len(L) : x \notin S => SizeSum(L, S \cup {x}) = L[x].size + SizeSum(L, S)
<1>1. Len(L) \in Nat /\ \A i \in 1..Len(L) : L[i] \in OpType /\ L[i].size \in Nat
  <2>1. Len(L) \in Nat /\ \A i \in 1..Len(L) : L[i] \in OpType
    BY LenProperties, ElementOfSeq
  <2>2. QED
    BY <2>1 DEF OpType
<1>2. ASSUME NEW S, S \subseteq 1..Len(L)
      PROVE  /\ SizeSum(L, S) \in Nat /\ SizeSum(L, S) <= SizeSum(L, 1..Len(L))
             /\ \A x \in S : SizeSum(L, S) = L[x].size + SizeSum(L, S \ {x})
             /\ \A x \in 1..Len(L) : x \notin S => SizeSum(L, S \cup {x}) = L[x].size + SizeSum(L, S)
  <2>1. IsFiniteSet(S) /\ IsFiniteSet(1..Len(L))
    BY <1>1, <1>2, RangeFacts
  <2>2. \A i \in S : L[i].size \in Nat
    BY <1>1, <1>2
  <2>3. SizeSum(L, S) \in Nat
    BY <2>1, <2>2, SizeSumNat
  <2>4. SizeSum(L, S) <= SizeSum(L, 1..Len(L))
    BY <1>1, <1>2, <2>1, SizeSumLess
  <2>5. \A x \in S : SizeSum(L, S) = L[x].size + SizeSum(L, S \ {x})
    BY <2>1, <2>2, SizeSumRemove
  <2>6. ASSUME NEW x \in 1..Len(L), x \notin S PROVE SizeSum(L, S \cup {x}) = L[x].size + SizeSum(L, S)
    BY <1>1, <2>1, <2>2, <2>6, SizeSumAdd
  <2>7. QED
    BY <2>3, <2>4, <2>5, <2>6
<1>3. QED
  BY <1>1, <1>2

\* Numbers that fit a word are not changed by one.
LEMMA WordsExact == \A x \in Nat : x < WordRange => ToWord(x) = x
<1>1. \A W \in Nat \ {0} : \A x \in 0..(W - 1) : x % W = x
  OBVIOUS
<1>2. QED
  BY <1>1, RangeAssumption DEF ToWord

-----------------------------------------------------------------------------
(* The search: a step of its loop *)

\* An operation more, as the search counts it.
LEMMA CountedMore ==
    ASSUME NEW s, NEW L \in Seq(OpType), NEW k \in Nat, k < Len(L), Fits(L), Counted(s, L, k)
    PROVE  LET f == L[k + 1]
               t == CountFound(s, f)
           IN  Counted(t, L, k + 1)
<1> DEFINE f == L[k + 1]
           t == CountFound(s, f)
<1>1. /\ t.allocCount = Allocs(s, f) /\ t.freeCount = Frees(s, f)
      /\ t.freeSize = ToWord(s.freeSize + (IF f.freed THEN f.size ELSE 0))
  BY DEF CountFound
<1> HIDE DEF t
<1>2. k + 1 \in 1..Len(L) /\ 1..k \subseteq 1..Len(L) /\ k + 1 \notin 1..k
  BY PartSums
<1>3. f \in OpType /\ f.size \in Nat
  BY <1>2, PartSums
<1>4. t.allocCount = Cardinality(Allocating(L, k + 1))
  <2> DEFINE A == Allocating(L, k)
             B == Allocating(L, k + 1)
  <2>1. A \subseteq 1..k /\ B = A \cup (IF f.code # "free" THEN {k + 1} ELSE {})
    BY PartsOf
  <2>2. t.allocCount = s.allocCount + (IF f.code # "free" THEN 1 ELSE 0) /\ s.allocCount = Cardinality(A)
    BY <1>1 DEF Allocs, Counted
  <2> HIDE DEF A, B, f
  <2>3. Cardinality(A) \in Nat /\ Cardinality(A \cup {k + 1}) = Cardinality(A) + 1
    BY <2>1, RangeFacts, OneMore
  <2>4. t.allocCount = Cardinality(B)
    <3>1. CASE f.code # "free"
      BY <2>1, <2>2, <2>3, <3>1
    <3>2. CASE f.code = "free"
      <4>1. B = A
        BY <2>1, <3>2
      <4>2. QED
        BY <2>2, <2>3, <3>2, <4>1
    <3>3. QED
      BY <3>1, <3>2
  <2>5. QED
    BY <2>4 DEF B
<1>5. t.freeCount = Cardinality(Freeing(L, k + 1))
  <2> DEFINE A == Freeing(L, k)
             B == Freeing(L, k + 1)
  <2>1. A \subseteq 1..k /\ B = A \cup (IF f.free # NULL THEN {k + 1} ELSE {})
    BY PartsOf
  <2>2. t.freeCount = s.freeCount + (IF f.free # NULL THEN 1 ELSE 0) /\ s.freeCount = Cardinality(A)
    BY <1>1 DEF Frees, Counted
  <2> HIDE DEF A, B, f
  <2>3. Cardinality(A) \in Nat /\ Cardinality(A \cup {k + 1}) = Cardinality(A) + 1
    BY <2>1, RangeFacts, OneMore
  <2>4. t.freeCount = Cardinality(B)
    <3>1. CASE f.free # NULL
      BY <2>1, <2>2, <2>3, <3>1
    <3>2. CASE f.free = NULL
      <4>1. B = A
        BY <2>1, <3>2
      <4>2. QED
        BY <2>2, <2>3, <3>2, <4>1
    <3>3. QED
      BY <3>1, <3>2
  <2>5. QED
    BY <2>4 DEF B
<1>6. t.freeSize = SizeSum(L, Freed(L, k + 1))
  <2> DEFINE F == Freed(L, k)
             G == Freed(L, k + 1)
  <2>1. F \subseteq 1..k /\ G = F \cup (IF f.freed THEN {k + 1} ELSE {}) /\ s.freeSize = SizeSum(L, F)
    BY PartsOf DEF Counted
  <2> HIDE DEF F, G, f
  <2>2. F \subseteq 1..Len(L) /\ G \subseteq 1..Len(L) /\ k + 1 \notin F
    BY <1>2, <2>1
  <2>3. /\ SizeSum(L, F) \in Nat /\ SizeSum(L, G) \in Nat /\ SizeSum(L, F) < WordRange /\ SizeSum(L, G) < WordRange
    <3>1. /\ SizeSum(L, F) \in Nat /\ SizeSum(L, F) <= SizeSum(L, 1..Len(L))
          /\ SizeSum(L, G) \in Nat /\ SizeSum(L, G) <= SizeSum(L, 1..Len(L))
          /\ SizeSum(L, 1..Len(L)) \in Nat
      BY <2>2, PartSums
    <3>2. QED
      BY <3>1, RangeAssumption DEF Fits
  <2>4. SizeSum(L, G) = SizeSum(L, F) + (IF f.freed THEN f.size ELSE 0)
    <3>1. CASE f.freed
      <4>1. G = F \cup {k + 1}
        BY <2>1, <3>1
      <4>2. SizeSum(L, G) = L[k + 1].size + SizeSum(L, F)
        BY <1>2, <2>2, <4>1, PartSums
      <4>3. QED
        BY <1>3, <2>3, <3>1, <4>2 DEF f
    <3>2. CASE ~f.freed
      <4>1. G = F
        BY <2>1, <3>2
      <4>2. QED
        BY <2>3, <3>2, <4>1
    <3>3. QED
      BY <3>1, <3>2
  <2>5. QED
    BY <1>1, <2>1, <2>3, <2>4, WordsExact DEF G
<1>7. QED
  BY <1>4, <1>5, <1>6 DEF Counted, t, f

\* What remains with it. The search adds the size of every operation not freed: also of
\* reports of free, whose size is none.
LEMMA RemainingMore ==
    ASSUME NEW L \in Seq(OpType), NEW k \in Nat, k < Len(L), Fits(L), EmptyFrees(L)
    PROVE  LET f == L[k + 1] IN
           ToWord(SizeSum(L, NotFreed(L, k)) + (IF f.freed THEN 0 ELSE f.size)) = SizeSum(L, NotFreed(L, k + 1))
<1> DEFINE f == L[k + 1]
           F == NotFreed(L, k)
           G == NotFreed(L, k + 1)
<1>1. k + 1 \in 1..Len(L) /\ 1..k \subseteq 1..Len(L) /\ k + 1 \notin 1..k
  BY PartSums
<1>2. f \in OpType /\ f.size \in Nat /\ (f.code = "free" => f.size = 0)
  BY <1>1, PartSums DEF EmptyFrees
<1>3. F \subseteq 1..k /\ G = F \cup (IF Colour(f) = "red" THEN {k + 1} ELSE {})
  BY PartsOf
<1>4. Colour(f) = "red" <=> f.code # "free" /\ ~f.freed
  BY DEF Colour
<1> HIDE DEF F, G, f
<1>5. F \subseteq 1..Len(L) /\ G \subseteq 1..Len(L) /\ k + 1 \notin F
  BY <1>1, <1>3
<1>6. SizeSum(L, F) \in Nat /\ SizeSum(L, G) \in Nat /\ SizeSum(L, G) < WordRange
  <2>1. /\ SizeSum(L, F) \in Nat
        /\ SizeSum(L, G) \in Nat /\ SizeSum(L, G) <= SizeSum(L, 1..Len(L))
        /\ SizeSum(L, 1..Len(L)) \in Nat
    BY <1>5, PartSums
  <2>2. QED
    BY <2>1, RangeAssumption DEF Fits
<1>7. SizeSum(L, G) = SizeSum(L, F) + (IF f.freed THEN 0 ELSE f.size)
  <2>1. CASE Colour(f) = "red"
    <3>1. G = F \cup {k + 1}
      BY <1>3, <2>1
    <3>2. SizeSum(L, G) = L[k + 1].size + SizeSum(L, F)
      BY <1>1, <1>5, <3>1, PartSums
    <3>3. QED
      BY <1>2, <1>4, <1>6, <2>1, <3>2 DEF f
  <2>2. CASE Colour(f) # "red"
    <3>1. G = F
      BY <1>3, <2>2
    <3>2. (IF f.freed THEN 0 ELSE f.size) = 0
      BY <1>2, <1>4, <2>2 DEF OpType
    <3>3. QED
      BY <1>6, <3>1, <3>2
  <2>3. QED
    BY <2>1, <2>2
<1>8. QED
  BY <1>6, <1>7, WordsExact DEF F, G, f

\* A step of the loop of onFilterButtonClicked counts and lists the next operation.
LEMMA SearchStep ==
    ASSUME OpsOK, SearchOK, Fits(m_listMemoryOperation), EmptyFrees(m_listMemoryOperation),
           StatsOf(m_listMemoryOperation, searched), RowsOf(m_listMemoryOperation, searched),
           DoSearch("search"), ~SearchDone, filter' = filter, m_listMemoryOperation' = m_listMemoryOperation
    PROVE  StatsOf(m_listMemoryOperation, searched)' /\ RowsOf(m_listMemoryOperation, searched)'
<1> DEFINE L == m_listMemoryOperation
           k == searched
           f == L[k + 1]
<1>1. /\ searched' = k + 1
      /\ Accepts(f) => /\ m_searchStats' = CountFound(m_searchStats, f)
                       /\ m_listFilterMemoryOperation' = Append(m_listFilterMemoryOperation, <<opsSession, k + 1>>)
      /\ ~Accepts(f) => UNCHANGED <<m_searchStats, m_listFilterMemoryOperation>>
  BY DEF DoSearch
<1>2. L \in Seq(OpType) /\ k \in Nat /\ k < Len(L) /\ Len(L) \in Nat
  <2>1. L \in Seq(OpType) /\ k \in 0..Len(L) /\ k # Len(L)
    BY DEF OpsOK, SearchOK, SearchDone
  <2>2. QED
    BY <2>1, PartSums
<1>3. SUFFICES ASSUME filter.thread = NULL
               PROVE  /\ m_searchStats'.ops = Cardinality(Shown(L, k + 1))
                      /\ m_searchStats'.remainingSize = SizeSum(L, NotFreed(L, k + 1))
                      /\ ~filter.notFreed => Counted(m_searchStats', L, k + 1)
                      /\ Len(m_listFilterMemoryOperation') = Cardinality(Shown(L, k + 1))
  BY <1>1 DEF StatsOf, RowsOf, Counted, Shown
<1>4. /\ m_searchStats.ops = Cardinality(Shown(L, k))
      /\ m_searchStats.remainingSize = SizeSum(L, NotFreed(L, k))
      /\ ~filter.notFreed => Counted(m_searchStats, L, k)
      /\ Len(m_listFilterMemoryOperation) = Cardinality(Shown(L, k))
  BY <1>3 DEF StatsOf, RowsOf
<1>5. Colour(f) = "red" <=> f.code # "free" /\ ~f.freed
  BY DEF Colour
<1>6. Accepts(f) <=> (filter.notFreed => Colour(f) = "red")
  BY <1>3, <1>5 DEF Accepts
<1>7. /\ Shown(L, k) \subseteq 1..k
      /\ Shown(L, k + 1) = Shown(L, k) \cup (IF Accepts(f) THEN {k + 1} ELSE {})
  <2>1. CASE filter.notFreed
    BY <1>2, <1>6, <2>1, PartsOf DEF Shown
  <2>2. CASE ~filter.notFreed
    BY <1>2, <1>6, <2>2, RangeFacts DEF Shown
  <2>3. QED
    BY <2>1, <2>2
<1> HIDE DEF L, k, f
<1>8. CASE Accepts(f)
  <2>1. /\ m_searchStats' = CountFound(m_searchStats, f)
        /\ m_listFilterMemoryOperation' = Append(m_listFilterMemoryOperation, <<opsSession, k + 1>>)
    BY <1>1, <1>8
  <2>2. Cardinality(Shown(L, k + 1)) = Cardinality(Shown(L, k)) + 1
    BY <1>2, <1>7, <1>8, OneMore
  <2>3. m_searchStats'.ops = m_searchStats.ops + 1
    BY <2>1 DEF CountFound
  <2>4. m_searchStats'.remainingSize = ToWord(m_searchStats.remainingSize + (IF f.freed THEN 0 ELSE f.size))
    BY <2>1 DEF CountFound
  <2>5. m_searchStats'.remainingSize = SizeSum(L, NotFreed(L, k + 1))
    BY <1>2, <1>4, <2>4, RemainingMore DEF f, L
  <2>6. ~filter.notFreed => Counted(m_searchStats', L, k + 1)
    BY <1>2, <1>4, <2>1, CountedMore DEF f, L
  <2>7. Len(m_listFilterMemoryOperation') = Len(m_listFilterMemoryOperation) + 1
    BY <2>1, ListAppend DEF SearchOK, IsList
  <2>8. QED
    BY <1>4, <2>2, <2>3, <2>5, <2>6, <2>7
<1>9. CASE ~Accepts(f)
  <2>1. filter.notFreed /\ Colour(f) # "red"
    BY <1>6, <1>9
  <2>2. Shown(L, k + 1) = Shown(L, k) /\ UNCHANGED <<m_searchStats, m_listFilterMemoryOperation>>
    BY <1>1, <1>7, <1>9
  <2>3. NotFreed(L, k + 1) = NotFreed(L, k)
    <3>1. NotFreed(L, k + 1) = NotFreed(L, k) \cup (IF Colour(f) = "red" THEN {k + 1} ELSE {})
      BY <1>2, PartsOf DEF f
    <3>2. QED
      BY <2>1, <3>1
  <2>4. QED
    BY <1>4, <2>1, <2>2, <2>3
<1>10. QED
  BY <1>8, <1>9

-----------------------------------------------------------------------------
(* The search: an operation more *)

\* M is L with the operation o, which frees the block of its f-th one, or of none
Grows(L, M, o, f) ==
    /\ L \in Seq(OpType) /\ M \in Seq(OpType) /\ Len(M) = Len(L) + 1
    /\ LET n == Len(L) + 1
       IN  /\ M[n].size = o.size /\ M[n].code = o.code /\ M[n].free = o.free /\ M[n].ptr = o.ptr
           /\ ~M[n].freed
    /\ \A i \in 1..Len(L) :
            /\ M[i].size = L[i].size /\ M[i].code = L[i].code /\ M[i].free = L[i].free /\ M[i].ptr = L[i].ptr
            /\ M[i].freed <=> L[i].freed \/ i = f
    /\ f # NULL => f \in 1..Len(L) /\ ~L[f].freed /\ L[f].ptr # NULL

\* The operation a free finds is in the list, not freed, and a block.
LEMMA FoundNotFreed ==
    ASSUME OpsOK, NEW p \in Addr \cup {NULL}
    PROVE  LET i == takeByPtrNotFreed(p) IN
           i # NULL => /\ i \in 1..Len(m_listMemoryOperation)
                       /\ ~m_listMemoryOperation[i].freed /\ m_listMemoryOperation[i].ptr # NULL
<1> DEFINE found == {i \in m_listMemoryOperationNonFreed : m_listMemoryOperation[i].ptr = p /\ ~m_listMemoryOperation[i].freed}
           n == Len(m_listMemoryOperation)
<1>1. takeByPtrNotFreed(p) = IF p = NULL \/ found = {} THEN NULL ELSE Max(found)
  BY DEF takeByPtrNotFreed
<1>2. found \subseteq 1..n /\ n \in Nat
  BY OperationInList DEF OpsOK
<1>3. \A i \in found : m_listMemoryOperation[i].ptr = p /\ ~m_listMemoryOperation[i].freed
  OBVIOUS
<1> HIDE DEF found, n
<1>4. found # {} => Max(found) \in found
  BY <1>2, FiniteSeconds
<1>5. QED
  BY <1>1, <1>2, <1>3, <1>4 DEF n

\* addMemoryOperation makes the list grow, and counts what it does.
LEMMA OperationGrows ==
    ASSUME OpsOK, msg \in MsgType, IsOperation(msg), addMemoryOperation(msg)
    PROVE  LET f == takeByPtrNotFreed(msg.free) IN
           /\ Grows(m_listMemoryOperation, m_listMemoryOperation', msg, f)
           /\ m_globalStats' = CountOperation(m_globalStats, msg, IF f = NULL THEN NULL ELSE m_listMemoryOperation[f].size)
<1> DEFINE f == takeByPtrNotFreed(msg.free)
           L == m_listMemoryOperation
           n == Len(L)
           o == [L[f] EXCEPT !.freed = TRUE]
           marked == IF f = NULL THEN L ELSE [L EXCEPT ![f] = o]
           new == [num |-> msg.num, code |-> msg.code, thread |-> msg.thread, ptr |-> msg.ptr, size |-> msg.size,
                   free |-> msg.free, freed |-> FALSE, bt |-> NULL]
<1>1. /\ m_listMemoryOperation' = Append(marked, new)
      /\ m_globalStats' = CountOperation(m_globalStats, msg, IF f = NULL THEN NULL ELSE L[f].size)
  BY DEF addMemoryOperation
<1>2. new \in OpType
  BY DEF OpType, MsgType, IsOperation
<1>3. f # NULL => f \in 1..n /\ ~L[f].freed /\ L[f].ptr # NULL
  <2>1. msg.free \in Addr \cup {NULL}
    BY DEF MsgType
  <2>2. QED
    BY <2>1, FoundNotFreed
<1>4. L \in Seq(OpType) /\ n \in Nat /\ \A i \in 1..n : L[i] \in OpType
  BY PartSums DEF OpsOK
<1>5. f # NULL => /\ o \in OpType /\ o.size = L[f].size /\ o.code = L[f].code /\ o.free = L[f].free /\ o.ptr = L[f].ptr
                  /\ o.freed
  BY <1>3, <1>4 DEF OpType
<1>6. new.size = msg.size /\ new.code = msg.code /\ new.free = msg.free /\ new.ptr = msg.ptr /\ ~new.freed
  OBVIOUS
<1> HIDE DEF f, o, new
<1>7. /\ marked \in Seq(OpType) /\ Len(marked) = n
      /\ \A i \in 1..n : marked[i] = IF i = f THEN o ELSE L[i]
  <2>1. CASE f = NULL
    <3>1. \A i \in 1..n : i # f
      BY <2>1, CodeAssumption
    <3>2. QED
      BY <1>4, <2>1, <3>1
  <2>2. CASE f # NULL
    BY <1>3, <1>4, <1>5, <2>2, ExceptSeq
  <2>3. QED
    BY <2>1, <2>2
<1> HIDE DEF marked, L
<1>8. /\ m_listMemoryOperation' \in Seq(OpType) /\ Len(m_listMemoryOperation') = n + 1
      /\ \A i \in 1..n : m_listMemoryOperation'[i] = marked[i]
      /\ m_listMemoryOperation'[n + 1] = new
  BY <1>1, <1>2, <1>7, AppendProperties
<1> DEFINE M == m_listMemoryOperation'
<1> HIDE DEF M
<1>9. Grows(L, M, msg, f)
  <2>1. M[n + 1] = new /\ \A i \in 1..n : M[i] = IF i = f THEN o ELSE L[i]
    BY <1>7, <1>8 DEF M
  <2>2. \A i \in 1..n : /\ M[i].size = L[i].size /\ M[i].code = L[i].code /\ M[i].free = L[i].free /\ M[i].ptr = L[i].ptr
                        /\ M[i].freed <=> L[i].freed \/ i = f
    <3>1. SUFFICES ASSUME NEW i \in 1..n
                   PROVE  /\ M[i].size = L[i].size /\ M[i].code = L[i].code /\ M[i].free = L[i].free /\ M[i].ptr = L[i].ptr
                          /\ M[i].freed <=> L[i].freed \/ i = f
      OBVIOUS
    <3>2. CASE i = f
      <4>1. f # NULL /\ M[i] = o
        BY <2>1, <3>2, CodeAssumption
      <4>2. QED
        BY <1>5, <3>2, <4>1
    <3>3. CASE i # f
      BY <2>1, <3>3
    <3>4. QED
      BY <3>2, <3>3
  <2>3. M \in Seq(OpType) /\ Len(M) = n + 1
    BY <1>8 DEF M
  <2>4. QED
    BY <1>3, <1>4, <1>6, <2>1, <2>2, <2>3 DEF Grows
<1>10. QED
  BY <1>1, <1>9 DEF L, M, f

\* What that makes of the parts of the list.
LEMMA GrownParts ==
    ASSUME NEW L, NEW M, NEW o, NEW f, Grows(L, M, o, f), EmptyFrees(L)
    PROVE  LET k == Len(L) IN
           /\ k \in Nat
           /\ NotFreed(M, k + 1) = (NotFreed(L, k) \ {f}) \cup (IF o.code # "free" THEN {k + 1} ELSE {})
           /\ f # NULL => f \in NotFreed(L, k) /\ f \notin Freed(L, k) /\ f \in 1..k
           /\ Freed(M, k + 1) = Freed(L, k) \cup (IF f = NULL THEN {} ELSE {f})
           /\ Allocating(M, k + 1) = Allocating(L, k) \cup (IF o.code # "free" THEN {k + 1} ELSE {})
           /\ Freeing(M, k + 1) = Freeing(L, k) \cup (IF o.free # NULL THEN {k + 1} ELSE {})
<1> DEFINE k == Len(L)
<1>1. L \in Seq(OpType) /\ k \in Nat /\ \A i \in 1..k : L[i] \in OpType
  BY PartSums DEF Grows
<1>2. \A i \in 1..k : M[i].code = L[i].code /\ M[i].free = L[i].free /\ (M[i].freed <=> L[i].freed \/ i = f)
  BY DEF Grows
<1>3. M[k + 1].code = o.code /\ M[k + 1].free = o.free /\ ~M[k + 1].freed
  BY DEF Grows
<1>4. f # NULL => f \in 1..k /\ ~L[f].freed /\ L[f].code # "free"
  BY DEF Grows, EmptyFrees
<1>5. f = NULL => f \notin 1..k
  BY CodeAssumption
<1> HIDE DEF k
<1>6. 1..(k + 1) = (1..k) \cup {k + 1} /\ k + 1 \notin 1..k
  BY <1>1, RangeFacts
<1>7. /\ \A i \in 1..k : Colour(M[i]) = "red" <=> Colour(L[i]) = "red" /\ i # f
      /\ Colour(M[k + 1]) = "red" <=> o.code # "free"
      /\ f # NULL => Colour(L[f]) = "red"
  BY <1>2, <1>3, <1>4 DEF Colour
<1>8. NotFreed(M, k + 1) = (NotFreed(L, k) \ {f}) \cup (IF o.code # "free" THEN {k + 1} ELSE {})
  BY <1>6, <1>7 DEF NotFreed
<1>9. f # NULL => f \in NotFreed(L, k) /\ f \notin Freed(L, k) /\ f \in 1..k
  BY <1>4, <1>7 DEF NotFreed, Freed
<1>10. Freed(M, k + 1) = Freed(L, k) \cup (IF f = NULL THEN {} ELSE {f})
  BY <1>2, <1>3, <1>4, <1>5, <1>6 DEF Freed
<1>11. Allocating(M, k + 1) = Allocating(L, k) \cup (IF o.code # "free" THEN {k + 1} ELSE {})
  BY <1>2, <1>3, <1>6 DEF Allocating
<1>12. Freeing(M, k + 1) = Freeing(L, k) \cup (IF o.free # NULL THEN {k + 1} ELSE {})
  BY <1>2, <1>3, <1>6 DEF Freeing
<1>13. QED
  BY <1>1, <1>8, <1>9, <1>10, <1>11, <1>12 DEF k

\* And of their sums.
LEMMA GrownSums ==
    ASSUME NEW L, NEW M, NEW o, NEW f, Grows(L, M, o, f), EmptyFrees(L), o.size \in Nat,
           o.code = "free" => o.size = 0
    PROVE  LET k == Len(L)
               freedSize == IF f = NULL THEN 0 ELSE L[f].size
           IN  /\ freedSize \in Nat
               /\ SizeSum(M, 1..(k + 1)) = SizeSum(L, 1..k) + o.size
               /\ SizeSum(M, NotFreed(M, k + 1)) + freedSize = SizeSum(L, NotFreed(L, k)) + o.size
               /\ SizeSum(M, Freed(M, k + 1)) = SizeSum(L, Freed(L, k)) + freedSize
<1> DEFINE k == Len(L)
           fs == IF f = NULL THEN 0 ELSE L[f].size
           A == NotFreed(L, k)
           F == Freed(L, k)
<1>1. /\ L \in Seq(OpType) /\ M \in Seq(OpType) /\ Len(M) = k + 1 /\ M[k + 1].size = o.size
      /\ \A i \in 1..k : M[i].size = L[i].size
  BY DEF Grows
<1>2. /\ k \in Nat /\ A \subseteq 1..k /\ F \subseteq 1..k
      /\ f # NULL => f \in A /\ f \notin F /\ f \in 1..k
      /\ NotFreed(M, k + 1) = (A \ {f}) \cup (IF o.code # "free" THEN {k + 1} ELSE {})
      /\ Freed(M, k + 1) = F \cup (IF f = NULL THEN {} ELSE {f})
  BY GrownParts, PartsOf
<1> DEFINE B == NotFreed(M, k + 1)
           G == Freed(M, k + 1)
<1>3. /\ 1..(k + 1) = (1..k) \cup {k + 1} /\ k + 1 \notin 1..k /\ k + 1 \in 1..(k + 1)
      /\ \A S : S \subseteq 1..k => S \subseteq 1..(k + 1)
  BY <1>2, RangeFacts
<1>4. (f = NULL => A \ {f} = A)
  BY <1>2, CodeAssumption
<1> HIDE DEF k, A, F, B, G
<1>5. ASSUME NEW S, S \subseteq 1..k
      PROVE  SizeSum(M, S) = SizeSum(L, S) /\ SizeSum(L, S) \in Nat
  <2>1. IsFiniteSet(S)
    BY <1>2, <1>5, RangeFacts
  <2>2. \A i \in S : M[i].size = L[i].size
    BY <1>1, <1>5
  <2>3. SizeSum(M, S) = SizeSum(L, S)
    BY <2>1, <2>2, SizeSumSame
  <2>4. QED
    BY <1>1, <1>5, <2>3, PartSums DEF k
<1>6. ASSUME NEW S, S \subseteq 1..k
      PROVE  SizeSum(M, S \cup {k + 1}) = SizeSum(L, S) + o.size
  <2>1. SizeSum(M, S \cup {k + 1}) = M[k + 1].size + SizeSum(M, S)
    <3>1. S \subseteq 1..Len(M) /\ k + 1 \in 1..Len(M) /\ k + 1 \notin S
      BY <1>1, <1>3, <1>6
    <3>2. QED
      BY <1>1, <3>1, PartSums
  <2>2. SizeSum(M, S) = SizeSum(L, S) /\ SizeSum(L, S) \in Nat
    BY <1>5, <1>6
  <2>3. QED
    BY <1>1, <2>1, <2>2
<1>7. SizeSum(M, 1..(k + 1)) = SizeSum(L, 1..k) + o.size
  BY <1>3, <1>6
<1>8. fs \in Nat /\ SizeSum(L, A) = SizeSum(L, A \ {f}) + fs /\ SizeSum(L, A \ {f}) \in Nat /\ A \ {f} \subseteq 1..k
  <2>1. A \ {f} \subseteq 1..k /\ SizeSum(L, A \ {f}) \in Nat
    BY <1>2, <1>5
  <2>2. CASE f = NULL
    BY <1>4, <2>1, <2>2
  <2>3. CASE f # NULL
    <3>1. f \in A /\ L[f].size \in Nat
      BY <1>1, <1>2, <2>3, PartSums DEF k
    <3>2. SizeSum(L, A) = L[f].size + SizeSum(L, A \ {f})
      <4>1. A \subseteq 1..Len(L)
        BY <1>2 DEF k
      <4>2. \A x \in A : SizeSum(L, A) = L[x].size + SizeSum(L, A \ {x})
        BY <1>1, <4>1, PartSums
      <4>3. QED
        BY <3>1, <4>2
    <3>3. QED
      BY <2>1, <2>3, <3>1, <3>2
  <2>4. QED
    BY <2>2, <2>3
<1> HIDE DEF fs
<1>9. SizeSum(M, B) + fs = SizeSum(L, A) + o.size
  <2>1. SizeSum(M, B) = SizeSum(L, A \ {f}) + o.size
    <3>1. CASE o.code = "free"
      <4>1. B = A \ {f} /\ o.size = 0
        BY <1>2, <3>1 DEF B
      <4>2. QED
        BY <1>5, <1>8, <4>1
    <3>2. CASE o.code # "free"
      <4>1. B = (A \ {f}) \cup {k + 1}
        BY <1>2, <3>2 DEF B
      <4>2. QED
        BY <1>6, <1>8, <4>1
    <3>3. QED
      BY <3>1, <3>2
  <2>2. QED
    BY <1>8, <2>1
<1>10. SizeSum(M, G) = SizeSum(L, F) + fs
  <2>1. CASE f = NULL
    <3>1. G = F
      BY <1>2, <2>1 DEF G
    <3>2. SizeSum(M, F) = SizeSum(L, F) /\ SizeSum(L, F) \in Nat
      BY <1>2, <1>5
    <3>3. fs = 0
      BY <2>1 DEF fs
    <3>4. QED
      BY <3>1, <3>2, <3>3
  <2>2. CASE f # NULL
    <3>1. G = F \cup {f} /\ G \subseteq 1..k
      BY <1>2, <2>2 DEF G
    <3>2. SizeSum(L, F \cup {f}) = L[f].size + SizeSum(L, F)
      BY <1>1, <1>2, <2>2, PartSums DEF k
    <3>3. SizeSum(M, G) = SizeSum(L, G) /\ SizeSum(L, F) \in Nat /\ fs = L[f].size
      BY <1>2, <1>5, <2>2, <3>1 DEF fs
    <3>4. QED
      BY <1>8, <3>1, <3>2, <3>3
  <2>3. QED
    BY <2>1, <2>2
<1>11. QED
  BY <1>7, <1>8, <1>9, <1>10 DEF k, A, F, B, G, fs

\* So the statistics count the list that has grown: what was added as operations came is
\* what is found in the list afterwards.
LEMMA GrownStats ==
    ASSUME NEW L, NEW M, NEW o, NEW f, Grows(L, M, o, f), EmptyFrees(L), o.size \in Nat,
           o.code = "free" => o.size = 0, Fits(M),
           NEW s, s.remainingSize = SizeSum(L, NotFreed(L, Len(L))), Counted(s, L, Len(L))
    PROVE  LET t == CountOperation(s, o, IF f = NULL THEN NULL ELSE L[f].size)
           IN  t.remainingSize = SizeSum(M, NotFreed(M, Len(M))) /\ Counted(t, M, Len(M))
<1> DEFINE k == Len(L)
           fs == IF f = NULL THEN 0 ELSE L[f].size
           t == CountOperation(s, o, IF f = NULL THEN NULL ELSE L[f].size)
           A == NotFreed(L, k)
           F == Freed(L, k)
           B == NotFreed(M, k + 1)
           G == Freed(M, k + 1)
<1>1. /\ t.allocCount = Allocs(s, o) /\ t.freeCount = Frees(s, o)
      /\ t.freeSize = ToWord(s.freeSize + (IF f = NULL THEN 0 ELSE L[f].size))
      /\ t.remainingSize = IF f = NULL THEN Grown(s, o) ELSE ToWord(Grown(s, o) - L[f].size)
  <2>1. f # NULL => L[f].size # NULL
    <3>1. f # NULL => f \in 1..Len(L) /\ L \in Seq(OpType)
      BY DEF Grows
    <3>2. f # NULL => L[f].size \in Nat
      BY <3>1, PartSums
    <3>3. QED
      BY <3>2, CodeAssumption
  <2>2. QED
    BY <2>1 DEF CountOperation, Remaining
<1> HIDE DEF t
<1>2. L \in Seq(OpType) /\ M \in Seq(OpType) /\ Len(M) = k + 1 /\ k \in Nat
  BY PartSums DEF Grows
<1>3. /\ fs \in Nat
      /\ SizeSum(M, B) + fs = SizeSum(L, A) + o.size
      /\ SizeSum(M, G) = SizeSum(L, F) + fs
      /\ SizeSum(M, 1..(k + 1)) = SizeSum(L, 1..k) + o.size
  BY GrownSums
<1>4. /\ SizeSum(L, A) \in Nat /\ SizeSum(L, A) <= SizeSum(L, 1..k) /\ SizeSum(L, F) \in Nat
      /\ SizeSum(L, 1..k) \in Nat
  <2>1. A \subseteq 1..k /\ F \subseteq 1..k /\ 1..k \subseteq 1..k
    BY <1>2, PartsOf
  <2> HIDE DEF A, F
  <2>2. QED
    BY <1>2, <2>1, PartSums
<1>5. /\ SizeSum(M, B) \in Nat /\ SizeSum(M, B) <= SizeSum(M, 1..(k + 1))
      /\ SizeSum(M, G) \in Nat /\ SizeSum(M, G) <= SizeSum(M, 1..(k + 1))
      /\ SizeSum(M, 1..(k + 1)) < WordRange /\ SizeSum(M, 1..(k + 1)) \in Nat
  <2>1. B \subseteq 1..Len(M) /\ G \subseteq 1..Len(M) /\ 1..Len(M) \subseteq 1..Len(M)
    BY <1>2, PartsOf
  <2> HIDE DEF B, G
  <2>2. QED
    BY <1>2, <2>1, PartSums DEF Fits
<1>6. s.remainingSize = SizeSum(L, A) /\ s.freeSize = SizeSum(L, F)
  BY DEF Counted
<1>7. t.remainingSize = SizeSum(M, B)
  <2> DEFINE a == SizeSum(L, A)
             b == SizeSum(M, B)
             all == SizeSum(L, 1..k)
             allM == SizeSum(M, 1..(k + 1))
  <2> HIDE DEF a, b, all, allM, A, B, fs
  <2>1. a + o.size \in Nat /\ a + o.size < WordRange /\ b \in Nat /\ b < WordRange /\ b = (a + o.size) - fs
    <3>1. /\ a \in Nat /\ b \in Nat /\ fs \in Nat /\ all \in Nat /\ allM \in Nat /\ o.size \in Nat /\ WordRange \in Nat
          /\ b + fs = a + o.size /\ allM = all + o.size /\ a <= all /\ b <= allM /\ allM < WordRange
      BY <1>3, <1>4, <1>5, RangeAssumption DEF a, b, all, allM
    <3>2. QED
      BY ONLY <3>1
  <2>2. Grown(s, o) = a + o.size
    BY <1>6, <2>1, WordsExact DEF Grown, a
  <2>3. CASE f = NULL
    <3>1. fs = 0 /\ t.remainingSize = a + o.size
      BY <1>1, <2>2, <2>3 DEF fs
    <3>2. QED
      BY <1>4, <2>1, <3>1 DEF b
  <2>4. CASE f # NULL
    <3>1. fs = L[f].size /\ t.remainingSize = ToWord((a + o.size) - fs)
      BY <1>1, <2>2, <2>4 DEF fs
    <3>2. QED
      BY <2>1, <3>1, WordsExact DEF b
  <2>5. QED
    BY <2>3, <2>4
<1>8. t.freeSize = SizeSum(M, G)
  <2>1. t.freeSize = ToWord(SizeSum(L, F) + fs)
    BY <1>1, <1>6
  <2> DEFINE g == SizeSum(M, G)
             all == SizeSum(M, 1..(k + 1))
  <2>2. g \in Nat /\ g <= all /\ all < WordRange /\ all \in Nat /\ g = SizeSum(L, F) + fs
    BY <1>3, <1>5
  <2> HIDE DEF g, all, F, fs, G
  <2>3. g < WordRange
    BY <2>2, RangeAssumption
  <2>4. QED
    BY <2>1, <2>2, <2>3, WordsExact DEF g
<1>9. t.allocCount = Cardinality(Allocating(M, k + 1))
  <2> DEFINE X == Allocating(L, k)
             Y == Allocating(M, k + 1)
  <2>1. X \subseteq 1..k /\ Y = X \cup (IF o.code # "free" THEN {k + 1} ELSE {})
    BY GrownParts, PartsOf
  <2>2. t.allocCount = s.allocCount + (IF o.code = "free" THEN 0 ELSE 1) /\ s.allocCount = Cardinality(X)
    BY <1>1 DEF Allocs, Counted
  <2> HIDE DEF X, Y, k
  <2>3. Cardinality(X) \in Nat /\ Cardinality(X \cup {k + 1}) = Cardinality(X) + 1
    BY <1>2, <2>1, RangeFacts, OneMore
  <2>4. t.allocCount = Cardinality(Y)
    <3>1. CASE o.code # "free"
      BY <2>1, <2>2, <2>3, <3>1
    <3>2. CASE o.code = "free"
      <4>1. Y = X
        BY <2>1, <3>2
      <4>2. QED
        BY <2>2, <2>3, <3>2, <4>1
    <3>3. QED
      BY <3>1, <3>2
  <2>5. QED
    BY <2>4 DEF Y
<1>10. t.freeCount = Cardinality(Freeing(M, k + 1))
  <2> DEFINE X == Freeing(L, k)
             Y == Freeing(M, k + 1)
  <2>1. X \subseteq 1..k /\ Y = X \cup (IF o.free # NULL THEN {k + 1} ELSE {})
    BY GrownParts, PartsOf
  <2>2. t.freeCount = s.freeCount + (IF o.free # NULL THEN 1 ELSE 0) /\ s.freeCount = Cardinality(X)
    BY <1>1 DEF Frees, Counted
  <2> HIDE DEF X, Y, k
  <2>3. Cardinality(X) \in Nat /\ Cardinality(X \cup {k + 1}) = Cardinality(X) + 1
    BY <1>2, <2>1, RangeFacts, OneMore
  <2>4. t.freeCount = Cardinality(Y)
    <3>1. CASE o.free # NULL
      BY <2>1, <2>2, <2>3, <3>1
    <3>2. CASE o.free = NULL
      <4>1. Y = X
        BY <2>1, <3>2
      <4>2. QED
        BY <2>2, <2>3, <3>2, <4>1
    <3>3. QED
      BY <3>1, <3>2
  <2>5. QED
    BY <2>4 DEF Y
<1>11. QED
  BY <1>2, <1>7, <1>8, <1>9, <1>10 DEF Counted, t

-----------------------------------------------------------------------------
(* The search: its invariant *)

\* a message of one block of size one, or of none; a report of free has no block of its own
Light(m) == m.size \in {0, 1} /\ (m.code = "free" => m.ptr = NULL /\ m.size = 0)

\* The sizes of the list are at most the messages received: they fit a word.
FewInv ==
    SizeSum(m_listMemoryOperation, 1..Len(m_listMemoryOperation)) + (IF Comes("operation") THEN 1 ELSE 0) <= received

\* The message, the sizes and the reports of free are what the list needs.
ListInv == Light(msg) /\ FewInv /\ EmptyFrees(m_listMemoryOperation)

\* The statistics of a session count the list of that session.
CountedInv ==
    opsSession = statsSession =>
        /\ m_globalStats.remainingSize =
                SizeSum(m_listMemoryOperation, NotFreed(m_listMemoryOperation, Len(m_listMemoryOperation)))
        /\ Counted(m_globalStats, m_listMemoryOperation, Len(m_listMemoryOperation))

\* the script of the GUI thread has w still to come
Searches(w) == Has(todo[Gui], w)

\* Once what was found before is cleared, the search has counted and listed what it has
\* gone through; and everything, when it gives the list back.
SearchInv ==
    /\ Searches("search") /\ ~Searches("resetSearch") => StatsOf(m_listMemoryOperation, searched)
    /\ Searches("search") /\ ~Searches("clearFilter") => RowsOf(m_listMemoryOperation, searched)
    /\ Busy(Gui) /\ Head(todo[Gui]) = Unlock("List") =>
            /\ StatsOf(m_listMemoryOperation, Len(m_listMemoryOperation))
            /\ RowsOf(m_listMemoryOperation, Len(m_listMemoryOperation))

\* what SearchInv is about, but for the script
foundVars == <<m_listMemoryOperation, filter, searched, m_searchStats, m_listFilterMemoryOperation>>

\* A step that has nothing to do with the search keeps SearchInv.
LEMMA SearchStands ==
    ASSUME SearchInv, UNCHANGED foundVars, todo'[Gui] = todo[Gui]
    PROVE  SearchInv'
BY DEF SearchInv, foundVars, Searches, Has, Busy, StatsOf, RowsOf, Counted, Shown

\* Where the loop is, what was found before has been cleared.
LEMMA SearchReady ==
    ASSUME ScriptInv, Busy(Gui), Head(todo[Gui]) = Do("search")
    PROVE  Searches("search") /\ ~Searches("resetSearch") /\ ~Searches("clearFilter")
<1> DEFINE s == todo[Gui]
<1>1. s \in Seq(GuiInstruction) /\ s # <<>> /\ GuiOrder(s) /\ Head(s) = Do("search")
  BY DEF ScriptInv, GuiScriptOK, Busy
<1>2. \A v : Searches(v) <=> Has(s, v)
  BY DEF Searches
<1> HIDE DEF s
<1>3. ~Has(Tail(s), "resetSearch") /\ ~Has(Tail(s), "clearFilter")
  BY <1>1, PrecedesTail DEF GuiOrder
<1>4. ~Has(s, "resetSearch") /\ ~Has(s, "clearFilter")
  BY <1>1, <1>3, HasTail, InstructionsDiffer
<1>5. Has(s, "search")
  BY <1>1, TailFacts DEF Has
<1>6. QED
  BY <1>2, <1>4, <1>5

\* What a step of the GUI thread leaves of its script.
LEMMA SearchTail ==
    ASSUME ScriptInv, Busy(Gui), todo'[Gui] = Tail(todo[Gui])
    PROVE  /\ \A v : Searches(v)' => Searches(v)
           /\ \A v : Head(todo[Gui]) # Do(v) => (Searches(v)' <=> Searches(v))
           /\ Head(todo[Gui]) \in {Do("search"), Do("fetchTo")} => ~Searches("search")'
           /\ Busy(Gui)' /\ Head(todo'[Gui]) = Unlock("List") => Head(todo[Gui]) = Do("search")
<1> DEFINE s == todo[Gui]
<1>1. s \in Seq(GuiInstruction) /\ s # <<>> /\ GuiOrder(s)
  BY DEF ScriptInv, GuiScriptOK, Busy
<1>2. \A v : (Searches(v)' <=> Has(Tail(s), v)) /\ (Searches(v) <=> Has(s, v))
  BY DEF Searches, Has
<1>3. Busy(Gui)' <=> Tail(s) # <<>>
  BY DEF Busy
<1>4. todo'[Gui] = Tail(s)
  OBVIOUS
<1> HIDE DEF s
<1>5. (\A v : Has(Tail(s), v) => Has(s, v)) /\ (\A v : Head(s) # Do(v) => (Has(Tail(s), v) <=> Has(s, v)))
  BY <1>1, HasTail
<1>6. \A a, b : Precedes(s, a, b) /\ Head(s) = Do(b) => ~Has(Tail(s), a)
  BY <1>1, PrecedesTail
<1>7. Head(s) \in {Do("search"), Do("fetchTo")} => ~Has(Tail(s), "search")
  BY <1>1, <1>6 DEF GuiOrder
<1>8. ASSUME Tail(s) # <<>>, Head(Tail(s)) = Unlock("List")
      PROVE  Head(s) = Do("search")
  <2>1. Tail(s) \in Seq(GuiInstruction)
    BY <1>1, TailFacts
  <2>2. Head(Tail(s)) = Tail(s)[1] /\ Len(Tail(s)) \in Nat \ {0}
    BY <1>8, <2>1, TailFacts
  <2>3. Head(s) = s[1] /\ Len(s) \in Nat \ {0} /\ Len(Tail(s)) = Len(s) - 1
        /\ \A i \in 1..Len(Tail(s)) : Tail(s)[i] = s[i + 1]
    BY <1>1, TailFacts
  <2>4. 1 \in 1..Len(Tail(s)) /\ 1 \in 1..(Len(s) - 1)
    BY <2>2, <2>3
  <2>5. s[1 + 1] = Unlock("List")
    BY <1>8, <2>2, <2>3, <2>4
  <2>6. QED
    BY <1>1, <2>3, <2>4, <2>5 DEF GuiOrder
<1>9. QED
  BY <1>2, <1>3, <1>4, <1>5, <1>7, <1>8 DEF s

\* A step of the GUI thread that neither clears nor searches keeps SearchInv.
LEMMA SearchGoesOn ==
    ASSUME ScriptInv, SearchInv, UNCHANGED foundVars, Busy(Gui), todo'[Gui] = Tail(todo[Gui]),
           Head(todo[Gui]) \notin {Do("resetSearch"), Do("clearFilter"), Do("search")}
    PROVE  SearchInv'
<1>1. /\ Searches("search")' => Searches("search")
      /\ Searches("resetSearch")' <=> Searches("resetSearch")
      /\ Searches("clearFilter")' <=> Searches("clearFilter")
      /\ ~(Busy(Gui)' /\ Head(todo'[Gui]) = Unlock("List"))
  BY SearchTail
<1>2. (StatsOf(m_listMemoryOperation, searched)' <=> StatsOf(m_listMemoryOperation, searched))
      /\ (RowsOf(m_listMemoryOperation, searched)' <=> RowsOf(m_listMemoryOperation, searched))
  BY DEF foundVars, StatsOf, RowsOf, Counted, Shown
<1>3. QED
  BY <1>1, <1>2 DEF SearchInv

\* While the loop is under way, or at its end, the receiving thread does not touch the list.
LEMMA SearchKeepsList ==
    ASSUME ScriptInv, HoldInv, Busy(Gui), Head(todo[Gui]) \in {Do("search"), Unlock("List")}
    PROVE  /\ Gui \in reading["List"]
           /\ Busy(Receiver) => Head(todo[Receiver]) \notin {Do("clearOperations"), Do("operation"), Do("backtrace")}
<1>1. todo[Gui] \in Seq(GuiInstruction) /\ todo[Gui] # <<>>
  BY DEF ScriptInv, GuiScriptOK, Busy
<1>2. Needs(Head(todo[Gui]), "List")
  BY DEF Needs
<1>3. Gui \in reading["List"]
  BY <1>1, <1>2, GuardedTail DEF HoldInv, Lock
<1>4. ASSUME Busy(Receiver), Head(todo[Receiver]) \in {Do("clearOperations"), Do("operation"), Do("backtrace")}
      PROVE  FALSE
  <2>1. todo[Receiver] \in Seq(ReceiverInstruction) /\ todo[Receiver] # <<>>
    BY <1>4 DEF ScriptInv, ReceiverScript, Busy
  <2>2. Needs(Head(todo[Receiver]), "List")
    BY <1>4 DEF Needs
  <2>3. writing["List"] = Receiver
    BY <2>1, <2>2, GuardedTail DEF HoldInv, Lock
  <2>4. Receiver # NULL
    BY ViewAssumption DEF ServerThread
  <2>5. QED
    BY <1>3, <2>3, <2>4 DEF HoldInv, Lock
<1>5. QED
  BY <1>3, <1>4

\* So when it does, no loop is under way and nothing is counted yet.
LEMMA SearchNotBegun ==
    ASSUME ScriptInv, HoldInv, SearchOK, SearchInv, Busy(Receiver),
           Head(todo[Receiver]) \in {Do("clearOperations"), Do("operation"), Do("backtrace")},
           todo'[Gui] = todo[Gui], UNCHANGED <<filter, searchVars>>
    PROVE  SearchInv'
<1>1. ~(Busy(Gui) /\ Head(todo[Gui]) \in {Do("search"), Unlock("List")})
  BY SearchKeepsList
<1>2. searched = 0 /\ searched' = 0
  BY <1>1 DEF SearchOK, searchVars
<1>3. (\A v : Searches(v)' <=> Searches(v)) /\ ~(Busy(Gui)' /\ Head(todo'[Gui]) = Unlock("List"))
  BY <1>1 DEF Searches, Has, Busy
<1>4. UNCHANGED <<filter, searched, m_searchStats, m_listFilterMemoryOperation>>
  BY DEF searchVars
<1>5. /\ StatsOf(m_listMemoryOperation, searched)' <=> StatsOf(m_listMemoryOperation, searched)
      /\ RowsOf(m_listMemoryOperation, searched)' <=> RowsOf(m_listMemoryOperation, searched)
  BY <1>2, <1>4, NoneYet DEF StatsOf, RowsOf, Counted, Shown
<1>6. QED
  BY <1>3, <1>5 DEF SearchInv

-----------------------------------------------------------------------------
(* The search: what the steps of the GUI thread keep *)

\* A step of the GUI thread that clears or searches keeps SearchInv.
LEMMA GuiSearches ==
    ASSUME ScriptInv, HoldInv, TypeInv, SearchInv, ListInv, Fits(m_listMemoryOperation),
           NEW w \in {"resetSearch", "clearFilter", "search"}, Busy(Gui), Head(todo[Gui]) = Do(w), DoSearch(w),
           UNCHANGED <<filter, m_listMemoryOperation>>,
           w = "search" /\ ~SearchDone => todo'[Gui] = todo[Gui],
           ~(w = "search" /\ ~SearchDone) => todo'[Gui] = Tail(todo[Gui])
    PROVE  SearchInv'
<1>1. \A v : v # w => Head(todo[Gui]) # Do(v)
  BY InstructionsDiffer
<1>2. Head(todo[Gui]) # Unlock("List")
  BY InstructionsDiffer
<1>3. OpsOK /\ SearchOK /\ EmptyFrees(m_listMemoryOperation)
  BY DEF TypeInv, SourcesOK, ListInv
<1>4. CASE w = "resetSearch"
  <2>1. todo'[Gui] = Tail(todo[Gui]) /\ searched = 0
    BY <1>1, <1>3, <1>4, SearchHoldsList
  <2>2. m_searchStats' = NoSearch /\ searched' = 0 /\ m_listFilterMemoryOperation' = m_listFilterMemoryOperation
    BY <1>4, <2>1 DEF DoSearch
  <2>3. /\ Searches("search")' <=> Searches("search")
        /\ Searches("clearFilter")' <=> Searches("clearFilter")
        /\ ~(Busy(Gui)' /\ Head(todo'[Gui]) = Unlock("List"))
    BY <1>1, <1>4, <2>1, SearchTail
  <2>4. StatsOf(m_listMemoryOperation, searched)'
    BY <2>2, NoneYet DEF StatsOf, NoSearch, Counted, Shown
  <2>5. RowsOf(m_listMemoryOperation, searched)' <=> RowsOf(m_listMemoryOperation, searched)
    BY <2>1, <2>2 DEF RowsOf, Shown
  <2>6. QED
    BY <2>3, <2>4, <2>5 DEF SearchInv
<1>5. CASE w = "clearFilter"
  <2>1. todo'[Gui] = Tail(todo[Gui]) /\ searched = 0
    BY <1>1, <1>3, <1>5, SearchHoldsList
  <2>2. m_searchStats' = m_searchStats /\ searched' = 0 /\ m_listFilterMemoryOperation' = <<>>
    BY <1>5, <2>1 DEF DoSearch
  <2>3. /\ Searches("search")' <=> Searches("search")
        /\ Searches("resetSearch")' <=> Searches("resetSearch")
        /\ ~(Busy(Gui)' /\ Head(todo'[Gui]) = Unlock("List"))
    BY <1>1, <1>5, <2>1, SearchTail
  <2>4. RowsOf(m_listMemoryOperation, searched)'
    <3>1. Len(<<>>) = 0
      OBVIOUS
    <3>2. QED
      BY <2>2, <3>1, NoneYet DEF RowsOf, Shown
  <2>5. StatsOf(m_listMemoryOperation, searched)' <=> StatsOf(m_listMemoryOperation, searched)
    BY <2>1, <2>2 DEF StatsOf, Counted, Shown
  <2>6. QED
    BY <2>3, <2>4, <2>5 DEF SearchInv
<1>6. CASE w = "search"
  <2>1. Searches("search") /\ ~Searches("resetSearch") /\ ~Searches("clearFilter")
    BY <1>6, SearchReady
  <2>2. StatsOf(m_listMemoryOperation, searched) /\ RowsOf(m_listMemoryOperation, searched)
    BY <2>1 DEF SearchInv
  <2>3. CASE ~SearchDone
    <3>1. todo'[Gui] = todo[Gui] /\ DoSearch("search")
      BY <1>6, <2>3
    <3>2. StatsOf(m_listMemoryOperation, searched)' /\ RowsOf(m_listMemoryOperation, searched)'
      BY <1>3, <2>2, <2>3, <3>1, SearchStep
    <3>3. Head(todo'[Gui]) # Unlock("List")
      BY <1>2, <3>1
    <3>4. QED
      BY <3>2, <3>3 DEF SearchInv
  <2>4. CASE SearchDone
    <3>1. todo'[Gui] = Tail(todo[Gui]) /\ UNCHANGED <<m_searchStats, m_listFilterMemoryOperation>>
      BY <1>6, <2>4 DEF DoSearch
    <3>2. ~Searches("search")'
      BY <1>6, <3>1, SearchTail
    <3>3. searched = Len(m_listMemoryOperation)
      BY <2>4 DEF SearchDone
    <3>4. /\ StatsOf(m_listMemoryOperation, Len(m_listMemoryOperation))
          /\ RowsOf(m_listMemoryOperation, Len(m_listMemoryOperation))
      BY <2>2, <3>3
    <3>5. /\ StatsOf(m_listMemoryOperation, Len(m_listMemoryOperation))'
          /\ RowsOf(m_listMemoryOperation, Len(m_listMemoryOperation))'
      BY <3>1, <3>4 DEF StatsOf, RowsOf, Counted, Shown
    <3>6. QED
      BY <3>2, <3>5 DEF SearchInv
  <2>5. QED
    BY <2>3, <2>4
<1>7. QED
  BY <1>4, <1>5, <1>6

\* So does everything it does.
LEMMA GuiDoingSearch ==
    ASSUME ScriptInv, HoldInv, TypeInv, SearchInv, ListInv, Fits(m_listMemoryOperation), Doing(Gui)
    PROVE  SearchInv'
<1>1. PICK w \in GuiDoes :
        /\ At(Gui) = <<"do", w>> /\ Busy(Gui) /\ Head(todo[Gui]) = Do(w)
        /\ Repeats(w) => todo' = todo
        /\ ~Repeats(w) => Advance(Gui)
  BY DoingOfGui
<1>2. /\ UNCHANGED <<msg, received, stopping, lockVars, sourceVars>>
      /\ \/ /\ w \in {"resetSearch", "clearFilter", "search"}
            /\ DoSearch(w) /\ UNCHANGED <<rowVars, chartVars, late>>
         \/ /\ w \in {"clearRows", "countRows", "fetchTo", "threadRows"}
            /\ DoRows(w) /\ UNCHANGED <<searchVars, chartVars>>
         \/ /\ w \in {"usage", "draw"}
            /\ DoChart(w) /\ UNCHANGED <<searchVars, rowVars>>
  BY <1>1, GuiEffects
<1>3. m_listMemoryOperation' = m_listMemoryOperation
  BY <1>2 DEF sourceVars, listVars
<1>4. Repeats(w) => todo'[Gui] = todo[Gui]
  BY <1>1
<1>5. ~Repeats(w) => todo'[Gui] = Tail(todo[Gui])
  BY <1>1, AdvanceScripts DEF ServerThread
<1>6. CASE w \in {"resetSearch", "clearFilter", "search"}
  <2>1. DoSearch(w) /\ UNCHANGED <<filter, m_listMemoryOperation>>
    BY <1>2, <1>3, <1>6 DEF rowVars
  <2>2. Repeats(w) <=> w = "search" /\ ~SearchDone
    BY <1>6 DEF Repeats
  <2>3. QED
    BY <1>1, <1>4, <1>5, <1>6, <2>1, <2>2, GuiSearches
<1>7. CASE w = "fetchTo"
  <2>1. todo'[Gui] = Tail(todo[Gui])
    BY <1>5, <1>7 DEF Repeats
  <2>2. ~Searches("search")' /\ ~(Busy(Gui)' /\ Head(todo'[Gui]) = Unlock("List"))
    BY <1>1, <1>7, <2>1, SearchTail, InstructionsDiffer
  <2>3. QED
    BY <2>2 DEF SearchInv
<1>8. CASE w \notin {"resetSearch", "clearFilter", "search", "fetchTo"}
  <2>1. UNCHANGED foundVars
    <3>1. UNCHANGED <<searchVars, filter>>
      BY <1>2, <1>8 DEF DoRows, rowVars
    <3>2. QED
      BY <1>3, <3>1 DEF foundVars, searchVars
  <2>2. CASE Repeats(w)
    BY <1>4, <2>1, <2>2, SearchStands
  <2>3. CASE ~Repeats(w)
    <3>1. Head(todo[Gui]) \notin {Do("resetSearch"), Do("clearFilter"), Do("search")}
      BY <1>1, <1>8, InstructionsDiffer
    <3>2. QED
      BY <1>1, <1>5, <2>1, <2>3, <3>1, SearchGoesOn
  <2>4. QED
    BY <2>2, <2>3
<1>9. QED
  BY <1>6, <1>7, <1>8

\* clearData clears what was found without a lock: there is nothing to find any more then.
LEMMA ReceiverClears ==
    ASSUME TypeInv, SearchInv, m_listMemoryOperation = <<>>, NEW w \in {"resetSearch", "clearFilter"}, DoSearch(w),
           UNCHANGED <<m_listMemoryOperation, filter>>, todo'[Gui] = todo[Gui]
    PROVE  SearchInv'
<1>1. searched = 0 /\ Len(<<>>) = 0
  <2>1. Len(<<>>) = 0
    OBVIOUS
  <2>2. searched \in 0..Len(m_listMemoryOperation)
    BY DEF TypeInv, SearchOK
  <2>3. QED
    BY <2>1, <2>2
<1>2. /\ searched' = 0 /\ filter' = filter /\ m_listMemoryOperation' = <<>>
      /\ \/ m_searchStats' = NoSearch /\ m_listFilterMemoryOperation' = m_listFilterMemoryOperation
         \/ m_listFilterMemoryOperation' = <<>> /\ m_searchStats' = m_searchStats
  BY <1>1 DEF DoSearch
<1>3. /\ \A v : Searches(v)' <=> Searches(v)
      /\ Busy(Gui)' /\ Head(todo'[Gui]) = Unlock("List") <=> Busy(Gui) /\ Head(todo[Gui]) = Unlock("List")
  BY DEF Searches, Has, Busy
<1>4. StatsOf(<<>>, 0) => StatsOf(<<>>, 0)'
  BY <1>2, NoneYet DEF StatsOf, NoSearch, Counted, Shown
<1>5. RowsOf(<<>>, 0) => RowsOf(<<>>, 0)'
  BY <1>1, <1>2, NoneYet DEF RowsOf, Shown
<1>6. /\ StatsOf(m_listMemoryOperation, searched) => StatsOf(m_listMemoryOperation, searched)'
      /\ RowsOf(m_listMemoryOperation, searched) => RowsOf(m_listMemoryOperation, searched)'
      /\ StatsOf(m_listMemoryOperation, Len(m_listMemoryOperation)) =>
            StatsOf(m_listMemoryOperation, Len(m_listMemoryOperation))'
      /\ RowsOf(m_listMemoryOperation, Len(m_listMemoryOperation)) =>
            RowsOf(m_listMemoryOperation, Len(m_listMemoryOperation))'
  BY <1>1, <1>2, <1>4, <1>5 DEF StatsOf, RowsOf, Counted, Shown
<1>7. QED
  BY <1>3, <1>6 DEF SearchInv

-----------------------------------------------------------------------------
(* The search: what the steps of the receiving thread keep *)

\* lists of the same operations, but for their backtraces
Alike(L, M) ==
    /\ L \in Seq(OpType) /\ Len(M) = Len(L)
    /\ \A i \in 1..Len(L) :
            /\ M[i].size = L[i].size /\ M[i].code = L[i].code /\ M[i].free = L[i].free /\ M[i].ptr = L[i].ptr
            /\ M[i].freed <=> L[i].freed

\* A backtrace changes nothing that is counted.
LEMMA AlikeParts ==
    ASSUME NEW L, NEW M, Alike(L, M)
    PROVE  LET n == Len(L) IN
           /\ SizeSum(M, 1..n) = SizeSum(L, 1..n)
           /\ SizeSum(M, NotFreed(M, n)) = SizeSum(L, NotFreed(L, n))
           /\ \A s : Counted(s, L, n) => Counted(s, M, n)
           /\ EmptyFrees(L) => EmptyFrees(M)
<1> DEFINE n == Len(L)
<1>1. /\ L \in Seq(OpType) /\ Len(M) = n
      /\ \A i \in 1..n :
            /\ M[i].size = L[i].size /\ M[i].code = L[i].code /\ M[i].free = L[i].free /\ M[i].ptr = L[i].ptr
            /\ M[i].freed <=> L[i].freed
  BY DEF Alike
<1>2. n \in Nat
  BY <1>1, PartSums
<1>3. EmptyFrees(L) => EmptyFrees(M)
  BY <1>1 DEF EmptyFrees
<1> HIDE DEF n
<1>4. ASSUME NEW S, S \subseteq 1..n PROVE SizeSum(M, S) = SizeSum(L, S)
  <2>1. IsFiniteSet(S) /\ \A i \in S : M[i].size = L[i].size
    BY <1>1, <1>2, <1>4, RangeFacts
  <2>2. QED
    BY <2>1, SizeSumSame
<1>5. NotFreed(M, n) = NotFreed(L, n)
  <2>1. \A i \in 1..n : Colour(M[i]) = "red" <=> Colour(L[i]) = "red"
    BY <1>1 DEF Colour
  <2>2. QED
    BY <2>1 DEF NotFreed
<1>6. Allocating(M, n) = Allocating(L, n) /\ Freeing(M, n) = Freeing(L, n) /\ Freed(M, n) = Freed(L, n)
  BY <1>1 DEF Allocating, Freeing, Freed
<1>7. NotFreed(L, n) \subseteq 1..n /\ Freed(L, n) \subseteq 1..n
  BY <1>2, PartsOf
<1>8. SizeSum(M, 1..n) = SizeSum(L, 1..n) /\ SizeSum(M, NotFreed(M, n)) = SizeSum(L, NotFreed(L, n))
  BY <1>4, <1>5, <1>7
<1>9. \A s : Counted(s, L, n) => Counted(s, M, n)
  BY <1>4, <1>6, <1>7 DEF Counted
<1>10. QED
  BY <1>3, <1>8, <1>9 DEF n

\* And is all that setBacktrace changes.
LEMMA BacktraceAlike ==
    ASSUME OpsOK, msg \in MsgType, setBacktrace(msg)
    PROVE  Alike(m_listMemoryOperation, m_listMemoryOperation')
<1> DEFINE L == m_listMemoryOperation
           i == takeByMsgNum(msg.origin)
           o == [L[i] EXCEPT !.bt = msg.num]
<1>1. m_listMemoryOperation' = IF i = NULL THEN L ELSE [L EXCEPT ![i] = o]
  BY DEF setBacktrace
<1>2. L \in Seq(OpType) /\ Len(L) \in Nat /\ \A j \in 1..Len(L) : L[j] \in OpType
  BY PartSums DEF OpsOK
<1>3. i # NULL => i \in 1..Len(L)
  <2>1. msg.origin \in Nat
    BY DEF MsgType
  <2>2. QED
    BY <2>1, OperationInList
<1>4. CASE i = NULL
  BY <1>1, <1>2, <1>4 DEF Alike
<1>5. CASE i # NULL
  <2>1. i \in 1..Len(L) /\ L[i] \in OpType
    BY <1>2, <1>3, <1>5
  <2>2. /\ o \in OpType /\ o.size = L[i].size /\ o.code = L[i].code /\ o.free = L[i].free /\ o.ptr = L[i].ptr
        /\ o.freed = L[i].freed
    <3>1. msg.num \in Nat
      BY DEF MsgType
    <3>2. QED
      BY <2>1, <3>1 DEF OpType
  <2> HIDE DEF L, i, o
  <2>3. LET M == [L EXCEPT ![i] = o] IN Len(M) = Len(L) /\ \A j \in 1..Len(L) : M[j] = IF j = i THEN o ELSE L[j]
    BY <1>2, <2>1, <2>2, ExceptSeq
  <2>4. Alike(L, [L EXCEPT ![i] = o])
    BY <1>2, <2>2, <2>3 DEF Alike
  <2>5. QED
    BY <1>1, <1>5, <2>4 DEF L
<1>6. QED
  BY <1>4, <1>5

\* A step that leaves the list and the statistics keeps what they count.
LEMMA CountStands ==
    ASSUME ListInv, CountedInv, UNCHANGED <<msg, m_listMemoryOperation, opsSession, statsSession>>, received' = received,
           Comes("operation")' => Comes("operation"),
           /\ m_globalStats'.remainingSize = m_globalStats.remainingSize
           /\ m_globalStats'.allocCount = m_globalStats.allocCount
           /\ m_globalStats'.freeCount = m_globalStats.freeCount
           /\ m_globalStats'.freeSize = m_globalStats.freeSize,
           OpsOK, received \in Nat
    PROVE  ListInv' /\ CountedInv'
<1>1. CountedInv'
  BY DEF CountedInv, Counted
<1>2. FewInv'
  <2> DEFINE z == SizeSum(m_listMemoryOperation, 1..Len(m_listMemoryOperation))
  <2>1. z \in Nat /\ z + (IF Comes("operation") THEN 1 ELSE 0) <= received
    BY PartSums DEF OpsOK, ListInv, FewInv
  <2>2. z + (IF Comes("operation")' THEN 1 ELSE 0) <= received
    <3> HIDE DEF z
    <3>1. CASE Comes("operation")
      <4>1. z + 1 <= received
        BY <2>1, <3>1
      <4>2. z <= received
        BY <2>1, <4>1
      <4>3. QED
        BY <2>1, <4>1, <4>2
    <3>2. CASE ~Comes("operation")
      BY <2>1, <3>2
    <3>3. QED
      BY <3>1, <3>2
  <2>3. QED
    BY <2>2 DEF FewInv
<1>3. QED
  BY <1>1, <1>2 DEF ListInv, Light, EmptyFrees

\* What clearData resets comes after the list is cleared, and before the rows are; a
\* handler has one operation.
LEMMA ClearingOrder ==
    ASSUME ScriptInv, NEW w, Busy(Receiver), Head(todo[Receiver]) = Do(w)
    PROVE  /\ w \in {"clearStats", "resetSearch", "clearFilter"} => Comes("clearRows") /\ ~Comes("clearOperations")
           /\ w = "operation" /\ todo'[Receiver] = Tail(todo[Receiver]) => ~Comes("operation")'
<1> DEFINE s == todo[Receiver]
<1>1. s \in Seq(ReceiverInstruction) /\ s # <<>> /\ ReceiverOrder(s) /\ Head(s) = Do(w)
  BY DEF ScriptInv, ReceiverScript, Busy
<1>2. \A v : Comes(v) <=> Has(s, v)
  BY DEF Comes
<1>3. todo'[Receiver] = Tail(todo[Receiver]) => (Comes("operation")' <=> Has(Tail(s), "operation"))
  BY DEF Comes, Has
<1> HIDE DEF s
<1>4. \A a, b : Precedes(s, a, b) /\ w = b => ~Has(Tail(s), a)
  BY <1>1, PrecedesTail
<1>5. \A a, b : Follows(s, a, b) => /\ w = a => Has(Tail(s), b)
                                    /\ Has(s, a) => Has(s, b)
  BY <1>1, FollowsTail
<1>6. \A v : Has(Tail(s), v) => Has(s, v)
  BY <1>1, HasTail
<1>7. ASSUME w \in {"clearStats", "resetSearch", "clearFilter"} PROVE Has(s, "clearRows") /\ ~Has(s, "clearOperations")
  <2>1. ~Has(Tail(s), "clearOperations")
    BY <1>1, <1>4, <1>7 DEF ReceiverOrder
  <2>2. Head(s) # Do("clearOperations")
    BY <1>1, <1>7, InstructionsDiffer
  <2>3. ~Has(s, "clearOperations")
    BY <1>1, <2>1, <2>2, HasTail
  <2>4. w = "clearStats" => Has(s, "clearFilter")
    BY <1>1, <1>5, <1>6 DEF ReceiverOrder
  <2>5. w \in {"resetSearch", "clearFilter"} => Has(s, "clearRows")
    BY <1>1, <1>5, <1>6 DEF ReceiverOrder
  <2>6. Has(s, "clearFilter") => Has(s, "clearRows")
    BY <1>1, <1>5 DEF ReceiverOrder
  <2>7. QED
    BY <1>7, <2>3, <2>4, <2>5, <2>6
<1>8. w = "operation" => ~Has(Tail(s), "operation")
  BY <1>1, <1>4 DEF ReceiverOrder
<1>9. QED
  BY <1>2, <1>3, <1>7, <1>8

\* A memory operation keeps the list and the statistics in agreement.
LEMMA OperationCounts ==
    ASSUME TypeInv, ListInv, CountedInv, MaxReceived < WordRange, Comes("operation"), ~Comes("operation")',
           addMemoryOperation(msg), UNCHANGED <<msg, received, opsSession, statsSession>>
    PROVE  ListInv' /\ CountedInv'
<1> DEFINE L == m_listMemoryOperation
           M == m_listMemoryOperation'
           f == takeByPtrNotFreed(msg.free)
<1>1. OpsOK /\ msg \in MsgType /\ IsOperation(msg) /\ received \in Nat /\ received <= MaxReceived
  BY ViewAssumption DEF TypeInv, SourcesOK, MsgOK, ScalarOK, Comes
<1>2. /\ Grows(L, M, msg, f)
      /\ m_globalStats' = CountOperation(m_globalStats, msg, IF f = NULL THEN NULL ELSE L[f].size)
  BY <1>1, OperationGrows
<1>3. /\ msg.size \in {0, 1} /\ (msg.code = "free" => msg.ptr = NULL /\ msg.size = 0) /\ EmptyFrees(L)
      /\ SizeSum(L, 1..Len(L)) + 1 <= received
  BY DEF ListInv, Light, FewInv
<1>4. /\ L \in Seq(OpType) /\ M \in Seq(OpType) /\ Len(M) = Len(L) + 1 /\ Len(L) \in Nat
      /\ M[Len(L) + 1].code = msg.code /\ M[Len(L) + 1].ptr = msg.ptr /\ M[Len(L) + 1].size = msg.size
      /\ \A i \in 1..Len(L) : M[i].code = L[i].code /\ M[i].ptr = L[i].ptr /\ M[i].size = L[i].size
  BY <1>1, <1>2, PartSums DEF Grows, OpsOK
<1> HIDE DEF L, M, f
<1>5. SizeSum(M, 1..Len(M)) = SizeSum(L, 1..Len(L)) + msg.size /\ SizeSum(L, 1..Len(L)) \in Nat
  <2>1. SizeSum(M, 1..(Len(L) + 1)) = SizeSum(L, 1..Len(L)) + msg.size
    BY <1>2, <1>3, GrownSums
  <2>2. SizeSum(L, 1..Len(L)) \in Nat
    BY <1>4, PartSums
  <2>3. QED
    BY <1>4, <2>1, <2>2
<1>6. SizeSum(M, 1..Len(M)) <= received
  <2> DEFINE x == SizeSum(M, 1..Len(M))
             y == SizeSum(L, 1..Len(L))
  <2>1. x = y + msg.size /\ y \in Nat /\ msg.size \in {0, 1} /\ y + 1 <= received
    BY <1>3, <1>5
  <2> HIDE DEF x, y
  <2>2. x <= received
    BY <1>1, <2>1
  <2>3. QED
    BY <2>2 DEF x
<1>7. EmptyFrees(M)
  <2>1. SUFFICES ASSUME NEW i \in 1..Len(M), M[i].code = "free" PROVE M[i].ptr = NULL /\ M[i].size = 0
    BY DEF EmptyFrees
  <2>2. CASE i = Len(L) + 1
    BY <1>3, <1>4, <2>1, <2>2
  <2>3. CASE i # Len(L) + 1
    <3>1. i \in 1..Len(L)
      BY <1>4, <2>3
    <3>2. QED
      BY <1>3, <1>4, <2>1, <3>1 DEF EmptyFrees
  <2>4. QED
    BY <2>2, <2>3
<1>8. ListInv'
  <2>1. SizeSum(M, 1..Len(M)) + 0 <= received
    BY <1>3, <1>5, <1>6
  <2>2. FewInv'
    BY <2>1 DEF FewInv, M
  <2>3. EmptyFrees(m_listMemoryOperation)'
    BY <1>7 DEF M, EmptyFrees
  <2>4. Light(msg)'
    BY DEF ListInv, Light
  <2>5. QED
    BY <2>2, <2>3, <2>4 DEF ListInv
<1>9. CountedInv'
  <2>1. SUFFICES ASSUME opsSession = statsSession
                 PROVE  /\ m_globalStats'.remainingSize = SizeSum(M, NotFreed(M, Len(M)))
                        /\ Counted(m_globalStats', M, Len(M))
    BY DEF CountedInv, M, Counted
  <2>2. m_globalStats.remainingSize = SizeSum(L, NotFreed(L, Len(L))) /\ Counted(m_globalStats, L, Len(L))
    BY <2>1 DEF CountedInv, L
  <2>3. Fits(M)
    <3> DEFINE x == SizeSum(M, 1..Len(M))
    <3>1. x \in Nat /\ x <= received
      BY <1>4, <1>6, PartSums
    <3> HIDE DEF x
    <3>2. x < WordRange
      BY <1>1, <3>1, ViewAssumption, RangeAssumption
    <3>3. QED
      BY <3>2 DEF x, Fits
  <2>4. msg.size \in Nat /\ (msg.code = "free" => msg.size = 0)
    BY <1>3
  <2>5. QED
    BY <1>2, <1>3, <2>2, <2>3, <2>4, GrownStats
<1>10. QED
  BY <1>8, <1>9

\* The invariant of the search.
FilterInv == ListInv /\ CountedInv /\ SearchInv

\* The empty list counts nothing.
LEMMA EmptyCounts ==
    /\ SizeSum(<<>>, 1..Len(<<>>)) = 0 /\ EmptyFrees(<<>>)
    /\ SizeSum(<<>>, NotFreed(<<>>, Len(<<>>))) = 0
    /\ \A s : s.allocCount = 0 /\ s.freeCount = 0 /\ s.freeSize = 0 => Counted(s, <<>>, Len(<<>>))
<1>1. Len(<<>>) = 0 /\ 1..0 = {}
  OBVIOUS
<1>2. QED
  BY <1>1, NoneYet DEF EmptyFrees, Counted

\* So does everything the receiving thread does under the lock of the list or of the
\* statistics: between clearing the one and the other the two are of different sessions.
LEMMA SourcesCount ==
    ASSUME ScriptInv, TypeInv, SessionInv, ListInv, CountedInv, MaxReceived < WordRange, NEW w,
           Busy(Receiver), Head(todo[Receiver]) = Do(w), todo'[Receiver] = Tail(todo[Receiver]),
           DoSources(w), UNCHANGED <<msg, received>>
    PROVE  ListInv' /\ CountedInv'
<1>1. /\ Comes(w)
      /\ \A v : v # w => (Comes(v)' <=> Comes(v))
      /\ w = "clearOperations" => Comes("clearStats")' /\ ~Comes("clearOperations")'
  BY ReceiverTail
<1>2. /\ w = "clearStats" => Comes("clearRows") /\ ~Comes("clearOperations")
      /\ w = "operation" => ~Comes("operation")'
  BY ClearingOrder
<1>3. /\ OpsOK /\ StatsOK(m_globalStats) /\ msg \in MsgType /\ received \in Nat
      /\ opsSession \in Nat /\ statsSession \in Nat
  BY DEF TypeInv, SourcesOK, MsgOK, ScalarOK
<1>4. SizeSum(m_listMemoryOperation, 1..Len(m_listMemoryOperation)) \in Nat
  BY <1>3, PartSums DEF OpsOK
<1>5. CASE w = "clearOperations"
  <2>1. m_listMemoryOperation' = <<>> /\ opsSession' = opsSession + 1 /\ statsSession' = statsSession
    BY <1>5 DEF DoSources, clearOperations
  <2>2. opsSession = statsSession
    <3>1. opsSession = statsSession + 0
      BY <1>1, <1>5 DEF SessionInv, SessionsMeet
    <3>2. QED
      BY <1>3, <3>1
  <2>3. CountedInv'
    BY <1>3, <2>1, <2>2 DEF CountedInv
  <2>4. Comes("operation")' <=> Comes("operation")
    BY <1>1, <1>5
  <2>5. (IF Comes("operation") THEN 1 ELSE 0) <= received
    <3> DEFINE z == SizeSum(m_listMemoryOperation, 1..Len(m_listMemoryOperation))
               c == IF Comes("operation") THEN 1 ELSE 0
    <3>1. z \in Nat /\ c \in Nat /\ z + c <= received
      BY <1>4 DEF ListInv, FewInv
    <3> HIDE DEF z, c
    <3>2. c <= received
      BY <1>3, <3>1
    <3>3. QED
      BY <3>2 DEF c
  <2>6. ListInv'
    BY <2>1, <2>4, <2>5, EmptyCounts DEF ListInv, FewInv, Light, EmptyFrees
  <2>7. QED
    BY <2>3, <2>6
<1>6. CASE w = "clearStats"
  <2>1. m_listMemoryOperation = <<>> /\ m_listMemoryOperation' = <<>>
    BY <1>2, <1>6 DEF SessionInv, NothingListed, DoSources, listVars
  <2>2. m_globalStats' = ResetStats(m_globalStats)
    BY <1>6 DEF DoSources
  <2>3. /\ m_globalStats'.remainingSize = 0 /\ m_globalStats'.allocCount = 0 /\ m_globalStats'.freeCount = 0
        /\ m_globalStats'.freeSize = 0
    BY <2>2 DEF ResetStats, NewStats
  <2>4. CountedInv'
    <3>1. Counted(m_globalStats', <<>>, Len(<<>>))
      BY <2>3, EmptyCounts
    <3>2. QED
      BY <2>1, <2>3, <3>1, EmptyCounts DEF CountedInv, Counted
  <2>5. Comes("operation")' <=> Comes("operation")
    BY <1>1, <1>6
  <2>6. ListInv'
    BY <2>1, <2>5 DEF ListInv, FewInv, Light, EmptyFrees
  <2>7. QED
    BY <2>4, <2>6
<1>7. CASE w \in {"count", "thread"}
  <2>1. /\ m_globalStats' = CountMessage(m_globalStats)
        /\ UNCHANGED <<m_listMemoryOperation, opsSession, statsSession>>
    BY <1>7 DEF DoSources, updateThreadInfos, listVars
  <2>2. /\ m_globalStats'.remainingSize = m_globalStats.remainingSize
        /\ m_globalStats'.allocCount = m_globalStats.allocCount
        /\ m_globalStats'.freeCount = m_globalStats.freeCount
        /\ m_globalStats'.freeSize = m_globalStats.freeSize
    BY <1>3, <2>1 DEF CountMessage, StatsOK
  <2>3. Comes("operation")' => Comes("operation")
    BY <1>1, <1>7
  <2>4. QED
    BY <1>3, <2>1, <2>2, <2>3, CountStands
<1>8. CASE w = "backtrace"
  <2>1. setBacktrace(msg) /\ UNCHANGED <<m_globalStats, opsSession, statsSession>>
    BY <1>8 DEF DoSources
  <2>2. Alike(m_listMemoryOperation, m_listMemoryOperation')
    BY <1>3, <2>1, BacktraceAlike
  <2>3. Comes("operation")' <=> Comes("operation")
    BY <1>1, <1>8
  <2> DEFINE L == m_listMemoryOperation
             M == m_listMemoryOperation'
  <2>4. /\ Len(M) = Len(L) /\ SizeSum(M, 1..Len(M)) = SizeSum(L, 1..Len(L))
        /\ SizeSum(M, NotFreed(M, Len(M))) = SizeSum(L, NotFreed(L, Len(L)))
        /\ \A s : Counted(s, L, Len(L)) => Counted(s, M, Len(M))
        /\ EmptyFrees(L) => EmptyFrees(M)
    BY <2>2, AlikeParts DEF Alike
  <2>5. ListInv'
    BY <2>3, <2>4 DEF ListInv, FewInv, Light, EmptyFrees
  <2>6. CountedInv'
    <3>1. SUFFICES ASSUME opsSession = statsSession
                   PROVE  /\ m_globalStats.remainingSize = SizeSum(M, NotFreed(M, Len(M)))
                          /\ Counted(m_globalStats, M, Len(M))
      BY <2>1 DEF CountedInv, Counted
    <3>2. m_globalStats.remainingSize = SizeSum(L, NotFreed(L, Len(L))) /\ Counted(m_globalStats, L, Len(L))
      BY <3>1 DEF CountedInv
    <3>3. QED
      BY <2>4, <3>2
  <2>7. QED
    BY <2>5, <2>6
<1>9. CASE w = "operation"
  <2>1. addMemoryOperation(msg) /\ UNCHANGED <<opsSession, statsSession>>
    BY <1>9 DEF DoSources
  <2>2. QED
    BY <1>1, <1>2, <1>9, <2>1, OperationCounts
<1>10. QED
  BY <1>5, <1>6, <1>7, <1>8, <1>9 DEF DoSources

\* Every step of the receiving thread keeps the invariant.
LEMMA ReceiverFilter ==
    ASSUME ScriptInv, HoldInv, TypeInv, SessionInv, FilterInv, MaxReceived < WordRange, Doing(Receiver)
    PROVE  FilterInv'
<1>1. PICK w \in ReceiverDoes :
        At(Receiver) = <<"do", w>> /\ Busy(Receiver) /\ Head(todo[Receiver]) = Do(w) /\ Advance(Receiver)
  BY DoingOfReceiver
<1>2. todo'[Receiver] = Tail(todo[Receiver]) /\ todo'[Gui] = todo[Gui]
  BY <1>1, AdvanceScripts DEF ServerThread, Gui, Receiver
<1>3. /\ UNCHANGED <<msg, received, stopping, lockVars>>
      /\ \/ /\ w \in {"clearOperations", "clearStats", "count", "backtrace", "thread", "operation"}
            /\ DoSources(w) /\ UNCHANGED <<searchVars, rowVars, chartVars, late>>
         \/ /\ w \in {"resetSearch", "clearFilter"}
            /\ DoSearch(w) /\ UNCHANGED <<sourceVars, rowVars, chartVars, late>>
         \/ /\ w \in {"clearRows", "clearThreadRows"}
            /\ DoRows(w) /\ UNCHANGED <<sourceVars, searchVars, chartVars>>
         \/ /\ w \in {"clearChart", "resetLastTime", "resetLastValue"}
            /\ DoChart(w) /\ UNCHANGED <<sourceVars, searchVars, rowVars>>
         \/ w = "nothing" /\ UNCHANGED <<sourceVars, searchVars, rowVars, chartVars, late>>
  BY <1>1, ReceiverEffects
<1>4. /\ Comes(w) /\ \A v : v # w => (Comes(v)' <=> Comes(v))
  BY <1>1, <1>2, ReceiverTail
<1>5. OpsOK /\ SearchOK /\ received \in Nat /\ ListInv /\ CountedInv /\ SearchInv
  BY DEF TypeInv, SourcesOK, ScalarOK, FilterInv
<1>6. CASE DoSources(w) /\ UNCHANGED <<searchVars, rowVars, chartVars, late>>
  <2>1. ListInv' /\ CountedInv'
    BY <1>1, <1>2, <1>3, <1>5, <1>6, SourcesCount
  <2>2. UNCHANGED <<filter, searchVars>>
    BY <1>6 DEF rowVars
  <2>3. SearchInv'
    <3>1. CASE w \in {"clearOperations", "operation", "backtrace"}
      <4>1. Head(todo[Receiver]) \in {Do("clearOperations"), Do("operation"), Do("backtrace")}
        BY <1>1, <3>1
      <4>2. QED
        BY <1>1, <1>2, <1>5, <2>2, <4>1, SearchNotBegun
    <3>2. CASE w \notin {"clearOperations", "operation", "backtrace"}
      <4>1. m_listMemoryOperation' = m_listMemoryOperation
        BY <1>6, <3>2 DEF DoSources, updateThreadInfos, listVars
      <4>2. UNCHANGED foundVars
        BY <2>2, <4>1 DEF foundVars, searchVars
      <4>3. QED
        BY <1>2, <1>5, <4>2, SearchStands
    <3>3. QED
      BY <3>1, <3>2
  <2>4. QED
    BY <2>1, <2>3 DEF FilterInv
<1>7. CASE UNCHANGED sourceVars
  <2>1. UNCHANGED <<msg, received, m_listMemoryOperation, opsSession, statsSession, m_globalStats>>
    BY <1>3, <1>7 DEF sourceVars, listVars
  <2>2. ListInv' /\ CountedInv'
    <3>1. Comes("operation")' => Comes("operation")
      BY <1>4
    <3>2. QED
      BY <1>5, <2>1, <3>1, CountStands
  <2>3. SearchInv'
    <3>1. CASE w \in {"resetSearch", "clearFilter"}
      <4>1. Comes("clearRows") /\ ~Comes("clearOperations")
        BY <1>1, <3>1, ClearingOrder
      <4>2. m_listMemoryOperation = <<>>
        BY <4>1 DEF SessionInv, NothingListed
      <4>3. DoSearch(w) /\ UNCHANGED <<m_listMemoryOperation, filter>>
        BY <1>3, <2>1, <3>1 DEF rowVars
      <4>4. QED
        BY <1>2, <1>5, <3>1, <4>2, <4>3, ReceiverClears
    <3>2. CASE w \notin {"resetSearch", "clearFilter"}
      <4>1. UNCHANGED <<filter, searchVars>>
        <5>1. CASE w \in {"clearRows", "clearThreadRows"}
          BY <1>3, <5>1 DEF DoRows
        <5>2. CASE w \notin {"clearRows", "clearThreadRows"}
          BY <1>3, <3>2, <5>2 DEF rowVars
        <5>3. QED
          BY <5>1, <5>2
      <4>2. UNCHANGED foundVars
        BY <2>1, <4>1 DEF foundVars, searchVars
      <4>3. QED
        BY <1>2, <1>5, <4>2, SearchStands
    <3>3. QED
      BY <3>1, <3>2
  <2>4. QED
    BY <2>2, <2>3 DEF FilterInv
<1>8. QED
  BY <1>3, <1>6, <1>7

-----------------------------------------------------------------------------
(* The search: every step *)

\* So does taking and giving back a lock.
LEMMA LockingFilter ==
    ASSUME ScriptInv, TypeInv, FilterInv, NEW t \in ServerThread, Locking(t)
    PROVE  FilterInv'
<1>1. UNCHANGED <<msg, received, m_listMemoryOperation, opsSession, statsSession, m_globalStats>> /\ UNCHANGED foundVars
  BY DEF Locking, sourceVars, listVars, searchVars, rowVars, foundVars
<1>2. OpsOK /\ received \in Nat /\ ListInv /\ CountedInv /\ SearchInv
  BY DEF TypeInv, SourcesOK, ScalarOK, FilterInv
<1>3. CASE t = Gui
  <2>1. Busy(Gui) /\ Advance(Gui) /\ Gui \in ServerThread /\ Receiver \in ServerThread \ {Gui}
    BY <1>3, LockingOfGui DEF ServerThread, Gui, Receiver
  <2>2. todo'[Gui] = Tail(todo[Gui]) /\ todo'[Receiver] = todo[Receiver]
    BY <2>1, AdvanceScripts
  <2>3. Head(todo[Gui]) \notin {Do("resetSearch"), Do("clearFilter"), Do("search")}
    BY <1>3, LockingOfGui, InstructionsDiffer
  <2>4. SearchInv'
    BY <1>1, <1>2, <2>1, <2>2, <2>3, SearchGoesOn
  <2>5. Comes("operation")' => Comes("operation")
    BY <2>2 DEF Comes, Has
  <2>6. ListInv' /\ CountedInv'
    BY <1>1, <1>2, <2>5, CountStands
  <2>7. QED
    BY <2>4, <2>6 DEF FilterInv
<1>4. CASE t = Receiver
  <2>1. Busy(Receiver) /\ Advance(Receiver) /\ Receiver \in ServerThread /\ Gui \in ServerThread \ {Receiver}
    BY <1>4, LockingOfReceiver DEF ServerThread, Gui, Receiver
  <2>2. todo'[Receiver] = Tail(todo[Receiver]) /\ todo'[Gui] = todo[Gui]
    BY <2>1, AdvanceScripts
  <2>3. SearchInv'
    BY <1>1, <1>2, <2>2, SearchStands
  <2>4. todo[Receiver] \in Seq(ReceiverInstruction) /\ todo[Receiver] # <<>>
    BY <2>1 DEF ScriptInv, ReceiverScript, Busy
  <2>5. Has(Tail(todo[Receiver]), "operation") => Has(todo[Receiver], "operation")
    BY <2>4, HasTail
  <2>6. Comes("operation")' => Comes("operation")
    BY <2>2, <2>5 DEF Comes, Has
  <2>7. ListInv' /\ CountedInv'
    BY <1>1, <1>2, <2>6, CountStands
  <2>8. QED
    BY <2>3, <2>7 DEF FilterInv
<1>5. QED
  BY <1>3, <1>4 DEF ServerThread

\* The messages a process sends have no size but one.
LEMMA MessagesAreLight ==
    ASSUME NEW m \in Messages
    PROVE  Light(m)
<1>1. \/ m \in {[NoMsg EXCEPT !.code = c] : c \in {"symbol"} \cup {x \in {"init"} : opsSession < MaxSession}}
      \/ m = [NoMsg EXCEPT !.code = "backtrace", !.num = received + 1, !.origin = received]
      \/ m = [Numbered(Msg(Main, "pthread_create", NULL, 0, NULL), 1) EXCEPT !.tid = Main]
      \/ \E a, s : m = Numbered(Msg(Main, "malloc", a, 1, NULL), s)
      \/ \E a, s : m = Numbered(Msg(Main, "free", NULL, 0, a), s)
  BY DEF Messages
<1>2. CASE m \in {[NoMsg EXCEPT !.code = c] : c \in {"symbol"} \cup {x \in {"init"} : opsSession < MaxSession}}
  BY <1>2 DEF NoMsg, Msg, Light
<1>3. CASE m = [NoMsg EXCEPT !.code = "backtrace", !.num = received + 1, !.origin = received]
  BY <1>3 DEF NoMsg, Msg, Light
<1>4. CASE m = [Numbered(Msg(Main, "pthread_create", NULL, 0, NULL), 1) EXCEPT !.tid = Main]
  BY <1>4 DEF Numbered, Msg, Light
<1>5. ASSUME NEW a, NEW s,
             m = Numbered(Msg(Main, "malloc", a, 1, NULL), s) \/ m = Numbered(Msg(Main, "free", NULL, 0, a), s)
      PROVE  Light(m)
  BY <1>5 DEF Numbered, Msg, Light
<1>6. QED
  BY <1>1, <1>2, <1>3, <1>4, <1>5

\* A message that arrives keeps the invariant: it is counted before its operation is.
LEMMA ReceiveFilter ==
    ASSUME ScriptInv, TypeInv, FilterInv, NEW m \in Messages, Receive(m)
    PROVE  FilterInv'
<1>1. /\ ~Busy(Receiver) /\ received' = received + 1 /\ msg' = m /\ todo' = [todo EXCEPT ![Receiver] = Handler(m)]
      /\ UNCHANGED <<m_listMemoryOperation, opsSession, statsSession, m_globalStats>> /\ UNCHANGED foundVars
  BY DEF Receive, sourceVars, listVars, searchVars, rowVars, foundVars
<1>2. todo'[Gui] = todo[Gui] /\ ~Comes("operation")
  BY <1>1, StartScripts, EmptyScript DEF Comes, Busy
<1>3. SearchInv'
  BY <1>1, <1>2, SearchStands DEF FilterInv
<1>4. CountedInv'
  BY <1>1 DEF FilterInv, CountedInv, Counted
<1>5. FewInv'
  <2> DEFINE z == SizeSum(m_listMemoryOperation, 1..Len(m_listMemoryOperation))
             c == IF Comes("operation")' THEN 1 ELSE 0
  <2>1. z \in Nat /\ z + 0 <= received /\ received \in Nat
    BY <1>2, PartSums DEF TypeInv, SourcesOK, OpsOK, ScalarOK, FilterInv, ListInv, FewInv
  <2>2. z + c <= received + 1
    <3> HIDE DEF z
    <3>1. c \in {0, 1}
      OBVIOUS
    <3> HIDE DEF c
    <3>2. QED
      BY <2>1, <3>1
  <2>3. QED
    BY <1>1, <2>2 DEF FewInv
<1>6. ListInv'
  <2>1. Light(m) /\ msg' = m
    BY <1>1, MessagesAreLight
  <2>2. EmptyFrees(m_listMemoryOperation)'
    BY <1>1 DEF FilterInv, ListInv, EmptyFrees
  <2>3. QED
    BY <1>5, <2>1, <2>2 DEF ListInv, Light
<1>7. QED
  BY <1>3, <1>4, <1>6 DEF FilterInv

\* So does a callback that begins: it clears before it searches.
LEMMA GuiStartsFilter ==
    ASSUME ScriptInv, TypeInv, FilterInv, NEW s, GuiStarts(s), GoodGui(s)
    PROVE  FilterInv'
<1>1. /\ todo' = [todo EXCEPT ![Gui] = s]
      /\ UNCHANGED <<msg, received, m_listMemoryOperation, opsSession, statsSession, m_globalStats>>
  BY DEF GuiStarts, sourceVars, listVars
<1>2. todo'[Gui] = s /\ todo'[Receiver] = todo[Receiver]
  BY <1>1, StartScripts
<1>3. (\A v : Searches(v)' <=> Has(s, v)) /\ (Busy(Gui)' <=> s # <<>>)
  BY <1>2 DEF Searches, Has, Busy
<1>4. /\ Has(s, "search") => Has(s, "resetSearch") /\ Has(s, "clearFilter")
      /\ s # <<>> => Head(s) # Unlock("List")
  BY DEF GoodGui, WholeSearch
<1>5. SearchInv'
  BY <1>2, <1>3, <1>4 DEF SearchInv
<1>6. Comes("operation")' => Comes("operation")
  BY <1>2 DEF Comes, Has
<1>7. ListInv' /\ CountedInv'
  BY <1>1, <1>6, CountStands DEF TypeInv, SourcesOK, ScalarOK, FilterInv
<1>8. QED
  BY <1>5, <1>7 DEF FilterInv

\* Every step keeps the invariant.
LEMMA NextFilter ==
    MaxReceived < WordRange /\ ScriptInv /\ HoldInv /\ TypeInv /\ SessionInv /\ FilterInv /\ [Next]_vars => FilterInv'
<1> SUFFICES ASSUME MaxReceived < WordRange, ScriptInv, HoldInv, TypeInv, SessionInv, FilterInv, [Next]_vars
             PROVE  FilterInv'
  OBVIOUS
<1>1. OpsOK /\ received \in Nat /\ ListInv /\ CountedInv /\ SearchInv
  BY DEF TypeInv, SourcesOK, ScalarOK, FilterInv
<1>2. CASE \E t \in ServerThread : Step(t)
  <2>1. PICK t \in ServerThread : Step(t)
    BY <1>2
  <2>2. CASE Locking(t)
    BY <2>2, LockingFilter
  <2>3. CASE Doing(t) /\ t = Receiver
    BY <2>3, ReceiverFilter
  <2>4. CASE Doing(t) /\ t = Gui
    <3>1. Doing(Gui)
      BY <2>4
    <3>2. UNCHANGED <<msg, received, stopping, lockVars, sourceVars>> /\ todo'[Receiver] = todo[Receiver]
      <4>1. PICK w \in GuiDoes : At(Gui) = <<"do", w>> /\ Busy(Gui)
        BY <3>1, DoingOfGui
      <4>2. UNCHANGED <<msg, received, stopping, lockVars, sourceVars>>
        BY <3>1, <4>1, GuiEffects
      <4>3. todo'[Receiver] = todo[Receiver]
        BY <2>1, <2>4, StepScripts DEF ServerThread, Gui, Receiver
      <4>4. QED
        BY <4>2, <4>3
    <3>3. UNCHANGED <<msg, m_listMemoryOperation, opsSession, statsSession, m_globalStats>> /\ received' = received
      BY <3>2 DEF sourceVars, listVars
    <3>4. Comes("operation")' => Comes("operation")
      BY <3>2 DEF Comes, Has
    <3>5. ListInv' /\ CountedInv'
      BY <1>1, <3>3, <3>4, CountStands
    <3>6. Fits(m_listMemoryOperation)
      <4> DEFINE z == SizeSum(m_listMemoryOperation, 1..Len(m_listMemoryOperation))
                 c == IF Comes("operation") THEN 1 ELSE 0
      <4>1. z \in Nat /\ c \in Nat /\ z + c <= received
        BY <1>1, PartSums DEF OpsOK, ListInv, FewInv
      <4>2. received <= MaxReceived /\ MaxReceived \in Nat /\ WordRange \in Nat
        BY ViewAssumption, RangeAssumption DEF TypeInv, ScalarOK
      <4> HIDE DEF z, c
      <4>3. z < WordRange
        BY <1>1, <4>1, <4>2
      <4>4. QED
        BY <4>3 DEF z, Fits
    <3>7. SearchInv'
      BY <1>1, <3>1, <3>6, GuiDoingSearch
    <3>8. QED
      BY <3>5, <3>7 DEF FilterInv
  <2>5. QED
    BY <2>1, <2>2, <2>3, <2>4 DEF Step, ServerThread
<1>3. CASE \E m \in Messages : Receive(m)
  BY <1>3, ReceiveFilter
<1>4. CASE FilterClicked \/ Timeout \/ DoubleClicked
  <2>1. PICK s : GuiStarts(s) /\ GoodGui(s)
    BY <1>4, GuiScriptsAreGood DEF FilterClicked, Timeout, DoubleClicked
  <2>2. QED
    BY <2>1, GuiStartsFilter
<1>5. CASE WindowClosed \/ UNCHANGED vars
  <2>1. /\ UNCHANGED <<msg, received, m_listMemoryOperation, opsSession, statsSession, m_globalStats>>
        /\ UNCHANGED foundVars /\ todo' = todo
    BY <1>5 DEF WindowClosed, vars, controlVars, sourceVars, listVars, searchVars, rowVars, foundVars
  <2>2. Comes("operation")' => Comes("operation")
    BY <2>1 DEF Comes, Has
  <2>3. ListInv' /\ CountedInv'
    BY <1>1, <2>1, <2>2, CountStands
  <2>4. SearchInv'
    BY <1>1, <2>1, SearchStands
  <2>5. QED
    BY <2>3, <2>4 DEF FilterInv
<1>6. QED
  BY <1>2, <1>3, <1>4, <1>5 DEF Next

\* It holds at the start.
LEMMA InitFilter == Init => FilterInv
<1> SUFFICES ASSUME Init PROVE FilterInv
  OBVIOUS
<1>1. todo[Receiver] = <<>> /\ todo[Gui] = <<>>
  BY DEF Init, ServerThread
<1>2. (\A v : ~Comes(v)) /\ (\A v : ~Searches(v)) /\ ~Busy(Gui)
  BY <1>1, EmptyScript DEF Comes, Searches, Busy
<1>3. m_listMemoryOperation = <<>> /\ m_globalStats = NewStats /\ msg = NoMsg /\ received = 0
  BY DEF Init, ControllerInit
<1>4. SearchInv
  BY <1>2 DEF SearchInv
<1>5. CountedInv
  <2>1. NewStats.remainingSize = 0 /\ NewStats.allocCount = 0 /\ NewStats.freeCount = 0 /\ NewStats.freeSize = 0
    BY DEF NewStats
  <2>2. QED
    BY <1>3, <2>1, EmptyCounts DEF CountedInv
<1>6. ListInv
  <2>1. Light(NoMsg)
    BY DEF Light, NoMsg, Msg
  <2>2. QED
    BY <1>2, <1>3, <2>1, EmptyCounts DEF ListInv, FewInv
<1>7. QED
  BY <1>4, <1>5, <1>6 DEF FilterInv

\* It gives the agreement.
LEMMA FilterGivesAgreement == ScriptInv /\ FilterInv => FilterAgrees
<1> DEFINE L == m_listMemoryOperation
           kept == {i \in 1..Len(L) : Colour(L[i]) = "red"}
           shown == IF filter.notFreed THEN kept ELSE 1..Len(L)
<1> SUFFICES ASSUME ScriptInv, FilterInv, SearchEnds, filter.thread = NULL
             PROVE  /\ m_searchStats.ops = Cardinality(shown)
                    /\ Len(m_listFilterMemoryOperation) = Cardinality(shown)
                    /\ m_searchStats.remainingSize = SizeOfOps(kept)
                    /\ opsSession = statsSession =>
                            /\ m_searchStats.remainingSize = m_globalStats.remainingSize
                            /\ ~filter.notFreed =>
                                    /\ m_searchStats.allocCount = m_globalStats.allocCount
                                    /\ m_searchStats.freeCount = m_globalStats.freeCount
                                    /\ m_searchStats.freeSize = m_globalStats.freeSize
  BY DEF FilterAgrees
<1>1. Busy(Gui) /\ Head(todo[Gui]) = Unlock("List")
  BY DEF SearchEnds, At, Unlock
<1>2. StatsOf(L, Len(L)) /\ RowsOf(L, Len(L))
  BY <1>1 DEF FilterInv, SearchInv
<1>3. kept = NotFreed(L, Len(L)) /\ shown = Shown(L, Len(L))
  BY DEF NotFreed, Shown
<1>4. SizeOfOps(kept) = SizeSum(L, kept)
  BY DEF SizeOfOps, SizeSum, FieldSum
<1>5. opsSession = statsSession =>
        m_globalStats.remainingSize = SizeSum(L, NotFreed(L, Len(L))) /\ Counted(m_globalStats, L, Len(L))
  BY DEF FilterInv, CountedInv
<1> HIDE DEF kept, shown, L
<1>6. QED
  BY <1>2, <1>3, <1>4, <1>5 DEF StatsOf, RowsOf, Counted

\* When a search ends, what it shows and counts agrees with what the statistics counted
\* as the operations came, whatever the receiving thread did meanwhile: for any number of
\* sessions and seconds, and of messages whose sizes a word holds (FilterAgrees; the loop
\* of onFilterButtonClicked against addMemoryOperation and clearData).
THEOREM SpecFilterAgrees == MaxReceived < WordRange => (Spec => []FilterAgrees)
<1> SUFFICES ASSUME MaxReceived < WordRange PROVE Spec => []FilterAgrees
  OBVIOUS
<1>1. Init => ScriptInv /\ HoldInv /\ TypeInv /\ SessionInv /\ FilterInv
  BY InitHolds, InitTypes, InitSession, InitFilter
<1>2. ScriptInv /\ HoldInv /\ TypeInv /\ SessionInv /\ FilterInv /\ [Next]_vars
        => (ScriptInv /\ HoldInv /\ TypeInv /\ SessionInv /\ FilterInv)'
  BY NextHolds, NextTypes, NextSession, NextFilter
<1>3. ScriptInv /\ HoldInv /\ TypeInv /\ SessionInv /\ FilterInv => FilterAgrees
  BY FilterGivesAgreement
<1>4. QED
  BY <1>1, <1>2, <1>3, PTL DEF Spec

-----------------------------------------------------------------------------
(* The chart: what is drawn last for a second *)

\* the points of a second in a list of them, and the size of the last one
PointsOf(s, t) == {i \in 1..Len(s) : s[i].time = t}
LastDrawn(s, t) == IF PointsOf(s, t) = {} THEN NULL ELSE s[Max(PointsOf(s, t))].size

\* A list after another: its length, and what is where.
LEMMA ListsJoined ==
    ASSUME NEW c, NEW p, IsList(c), IsList(p)
    PROVE  /\ Len(c) \in Nat /\ Len(p) \in Nat /\ IsList(c \o p) /\ Len(c \o p) = Len(c) + Len(p)
           /\ \A i \in 1..Len(c) : (c \o p)[i] = c[i]
           /\ \A i \in 1..Len(p) : (c \o p)[Len(c) + i] = p[i]
<1>1. PICK S, T : c \in Seq(S) /\ p \in Seq(T)
  BY DEF IsList
<1>2. c \in Seq(S \cup T) /\ p \in Seq(S \cup T)
  BY <1>1, SeqMore
<1>3. /\ c \o p \in Seq(S \cup T) /\ Len(c \o p) = Len(c) + Len(p)
      /\ \A i \in 1..(Len(c) + Len(p)) : (c \o p)[i] = IF i <= Len(c) THEN c[i] ELSE p[i - Len(c)]
  BY <1>2, ConcatProperties
<1>4. Len(c) \in Nat /\ Len(p) \in Nat
  BY <1>1, LenProperties
<1>5. ASSUME NEW i \in 1..Len(c) PROVE (c \o p)[i] = c[i]
  <2>1. i \in 1..(Len(c) + Len(p)) /\ i <= Len(c)
    BY <1>4
  <2>2. QED
    BY <1>3, <2>1
<1>6. ASSUME NEW i \in 1..Len(p) PROVE (c \o p)[Len(c) + i] = p[i]
  <2>1. Len(c) + i \in 1..(Len(c) + Len(p)) /\ ~(Len(c) + i <= Len(c)) /\ (Len(c) + i) - Len(c) = i
    BY <1>4
  <2>2. QED
    BY <1>3, <2>1
<1>7. QED
  BY <1>3, <1>4, <1>5, <1>6 DEF IsList

\* Drawing the first point of those still to be drawn changes nothing in what is drawn or
\* still to be drawn.
LEMMA OneDrawn ==
    ASSUME NEW c, NEW p, IsList(c), IsList(p), p # <<>>
    PROVE  Append(c, Head(p)) \o Tail(p) = c \o p
<1>1. PICK S, T : c \in Seq(S) /\ p \in Seq(T)
  BY DEF IsList
<1> DEFINE X == S \cup T
<1>2. c \in Seq(X) /\ p \in Seq(X)
  BY <1>1, SeqMore
<1> HIDE DEF X
<1> DEFINE a == Append(c, Head(p))
           r == Tail(p)
<1>3. /\ Head(p) = p[1] /\ Head(p) \in X /\ r \in Seq(X) /\ Len(p) \in Nat \ {0} /\ Len(r) = Len(p) - 1
      /\ \A i \in 1..Len(r) : r[i] = p[i + 1]
  BY <1>2, TailFacts
<1>4. Len(c) \in Nat
  BY <1>2, LenProperties
<1>5. /\ a \in Seq(X) /\ Len(a) = Len(c) + 1
      /\ \A i \in 1..Len(c) : a[i] = c[i]
      /\ a[Len(c) + 1] = Head(p)
  BY <1>2, <1>3, AppendProperties
<1> HIDE DEF a, r
<1>6. /\ a \o r \in Seq(X) /\ Len(a \o r) = Len(a) + Len(r)
      /\ \A i \in 1..(Len(a) + Len(r)) : (a \o r)[i] = IF i <= Len(a) THEN a[i] ELSE r[i - Len(a)]
  BY <1>3, <1>5, ConcatProperties
<1>7. /\ c \o p \in Seq(X) /\ Len(c \o p) = Len(c) + Len(p)
      /\ \A i \in 1..(Len(c) + Len(p)) : (c \o p)[i] = IF i <= Len(c) THEN c[i] ELSE p[i - Len(c)]
  BY <1>2, ConcatProperties
<1>8. Len(a) + Len(r) = Len(c) + Len(p)
  BY <1>3, <1>4, <1>5
<1>9. ASSUME NEW i \in 1..(Len(c) + Len(p)) PROVE (a \o r)[i] = (c \o p)[i]
  <2>1. CASE i <= Len(c)
    <3>1. i \in 1..Len(c) /\ i <= Len(a)
      BY <1>4, <1>5, <2>1
    <3>2. QED
      BY <1>5, <1>6, <1>7, <1>8, <2>1, <3>1
  <2>2. CASE i = Len(c) + 1
    <3>1. i <= Len(a) /\ ~(i <= Len(c)) /\ i - Len(c) = 1
      BY <1>4, <1>5, <2>2
    <3>2. QED
      BY <1>3, <1>5, <1>6, <1>7, <1>8, <2>2, <3>1
  <2>3. CASE i > Len(c) + 1
    <3>1. /\ ~(i <= Len(a)) /\ ~(i <= Len(c)) /\ i - Len(a) \in 1..Len(r)
          /\ (i - Len(a)) + 1 = i - Len(c)
      BY <1>3, <1>4, <1>5, <2>3
    <3>2. QED
      BY <1>3, <1>6, <1>7, <1>8, <3>1
  <2>4. \A k, m \in Int : k <= m \/ k = m + 1 \/ k > m + 1
    OBVIOUS
  <2>5. i \in Int /\ Len(c) \in Int
    BY <1>4
  <2>6. QED
    BY <2>1, <2>2, <2>3, <2>4, <2>5
<1>10. a \o r = c \o p
  BY <1>6, <1>7, <1>8, <1>9, SeqEqual
<1>11. QED
  BY <1>10 DEF a, r

\* A second that is not among the points added is drawn as it was.
LEMMA DrawnBefore ==
    ASSUME NEW c, NEW p, IsList(c), IsList(p), NEW t, \A i \in 1..Len(p) : p[i].time # t
    PROVE  LastDrawn(c \o p, t) = LastDrawn(c, t)
<1>1. /\ Len(c) \in Nat /\ Len(p) \in Nat /\ Len(c \o p) = Len(c) + Len(p)
      /\ \A i \in 1..Len(c) : (c \o p)[i] = c[i]
      /\ \A i \in 1..Len(p) : (c \o p)[Len(c) + i] = p[i]
  BY ListsJoined
<1> DEFINE f == c \o p
<1> HIDE DEF f
<1>2. ASSUME NEW i \in 1..Len(f), f[i].time = t PROVE i \in 1..Len(c)
  <2>1. SUFFICES ASSUME i \notin 1..Len(c) PROVE FALSE
    OBVIOUS
  <2>2. i - Len(c) \in 1..Len(p) /\ Len(c) + (i - Len(c)) = i
    BY <1>1, <2>1 DEF f
  <2>3. f[i] = p[i - Len(c)]
    BY <1>1, <2>2 DEF f
  <2>4. QED
    BY <1>2, <2>2, <2>3
<1>3. \A i \in 1..Len(c) : i \in 1..Len(f) /\ f[i] = c[i]
  BY <1>1 DEF f
<1>4. PointsOf(f, t) = PointsOf(c, t)
  BY <1>2, <1>3 DEF PointsOf
<1>5. PointsOf(c, t) # {} => Max(PointsOf(c, t)) \in 1..Len(c)
  <2>1. PointsOf(c, t) \subseteq 1..Len(c)
    BY DEF PointsOf
  <2>2. QED
    BY <1>1, <2>1, FiniteSeconds
<1>6. QED
  BY <1>3, <1>4, <1>5 DEF LastDrawn, f

\* A second that is once among the points added is drawn with the size it has there.
LEMMA DrawnNow ==
    ASSUME NEW c, NEW p, IsList(c), IsList(p), NEW t, NEW k \in 1..Len(p), p[k].time = t,
           \A i \in 1..Len(p) : p[i].time = t => i = k
    PROVE  LastDrawn(c \o p, t) = p[k].size
<1>1. /\ Len(c) \in Nat /\ Len(p) \in Nat /\ Len(c \o p) = Len(c) + Len(p)
      /\ \A i \in 1..Len(c) : (c \o p)[i] = c[i]
      /\ \A i \in 1..Len(p) : (c \o p)[Len(c) + i] = p[i]
  BY ListsJoined
<1> DEFINE f == c \o p
           K == Len(c) + k
           A == PointsOf(f, t)
<1>2. K \in 1..Len(f) /\ f[K] = p[k]
  BY <1>1
<1> HIDE DEF f
<1>3. ASSUME NEW i \in A PROVE i \in 1..Len(f) /\ i <= K
  <2>1. i \in 1..Len(f) /\ f[i].time = t
    BY DEF PointsOf
  <2>2. SUFFICES ASSUME i > K PROVE FALSE
    BY <1>1, <2>1
  <2>3. i - Len(c) \in 1..Len(p) /\ Len(c) + (i - Len(c)) = i /\ i - Len(c) # k
    BY <1>1, <2>1, <2>2 DEF f
  <2>4. f[i] = p[i - Len(c)]
    BY <1>1, <2>3 DEF f
  <2>5. QED
    BY <2>1, <2>3, <2>4
<1>4. K \in A
  BY <1>2 DEF PointsOf
<1>5. Max(A) = K
  <2> HIDE DEF K, A
  <2>1. A \subseteq 1..Len(f) /\ Len(f) \in Nat /\ A # {}
    BY <1>1, <1>3, <1>4 DEF f
  <2>2. A \subseteq Int /\ IsFiniteSet(A)
    BY <2>1, FiniteSeconds
  <2>3. Max(A) \in A /\ \A y \in A : Max(A) >= y
    BY <2>1, <2>2, MaxOfFinite
  <2>4. Max(A) <= K /\ Max(A) >= K /\ Max(A) \in Int /\ K \in Int
    BY <1>3, <1>4, <2>2, <2>3
  <2>5. QED
    BY <2>4
<1>6. QED
  BY <1>2, <1>4, <1>5 DEF LastDrawn, f

-----------------------------------------------------------------------------
(* The chart: the points of the timer *)

\* There is an order of every set of seconds, and InOrder is one.
LEMMA InOrderIs ==
    ASSUME NEW S, S \subseteq Int, IsFiniteSet(S)
    PROVE  Enumerates(InOrder(S), S)
<1>1. \E s \in [1..Cardinality(S) -> S] : \A i, j \in 1..Cardinality(S) : i < j => s[i] < s[j]
  BY CanEnumerate DEF Enumerates
<1>2. QED
  BY <1>1 DEF InOrder, Enumerates

\* The points of the timer are those of the seconds to draw, one of each, with the size
\* the statistics have.
LEMMA PointsAre ==
    ASSUME StatsOK(m_globalStats)
    PROVE  /\ IsList(Points) /\ (ToDraw = {} => Points = <<>>)
           /\ \A i \in 1..Len(Points) : Points[i].time \in ToDraw
           /\ \A t \in ToDraw : \E k \in 1..Len(Points) :
                /\ Points[k].time = t /\ Points[k].size = value(m_globalStats.usage, t)
                /\ \A i \in 1..Len(Points) : Points[i].time = t => i = k
<1> DEFINE n == Cardinality(ToDraw)
           s == InOrder(ToDraw)
<1>1. ToDraw \subseteq 1..MaxTime /\ MaxTime \in Nat
  BY ViewAssumption DEF StatsOK, UsageOK, ToDraw, Looked
<1>2. ToDraw \subseteq Int /\ IsFiniteSet(ToDraw)
  BY <1>1, FiniteSeconds
<1>3. Enumerates(s, ToDraw)
  BY <1>2, InOrderIs
<1> HIDE DEF s
<1>4. /\ n \in Nat
      /\ \A i \in 1..n : s[i] \in ToDraw
      /\ \A i, j \in 1..n : s[i] = s[j] => i = j
      /\ \A t \in ToDraw : \E i \in 1..n : s[i] = t
  BY <1>2, <1>3, EnumeratesOnce
<1>5. ToDraw = {} => n = 0
  BY FS_EmptySet
<1>6. Points = [i \in 1..n |-> Point(s[i])]
  BY DEF Points, s
<1> HIDE DEF n
<1> DEFINE P == {Point(t) : t \in ToDraw}
<1>7. Points \in [1..n -> P]
  BY <1>4, <1>6
<1>8. Points \in Seq(P) /\ Len(Points) = n
  BY <1>4, <1>7, SeqDef, LenProperties
<1>9. \A i \in 1..n : Points[i].time = s[i] /\ Points[i].size = value(m_globalStats.usage, s[i])
  BY <1>6 DEF Point
<1>10. ToDraw = {} => Points = <<>>
  <2>1. SUFFICES ASSUME ToDraw = {} PROVE Points = <<>>
    OBVIOUS
  <2>2. Len(Points) = 0
    BY <1>5, <1>8, <2>1
  <2>3. QED
    BY <1>8, <2>2, EmptySeq
<1>11. ASSUME NEW t \in ToDraw
       PROVE  \E k \in 1..n : /\ Points[k].time = t /\ Points[k].size = value(m_globalStats.usage, t)
                              /\ \A i \in 1..n : Points[i].time = t => i = k
  <2>1. PICK k \in 1..n : s[k] = t
    BY <1>4
  <2>2. QED
    BY <1>4, <1>9, <2>1
<1>12. IsList(Points)
  BY <1>8 DEF IsList
<1>13. \A i \in 1..n : Points[i].time \in ToDraw
  BY <1>4, <1>9
<1>14. QED
  BY <1>8, <1>10, <1>11, <1>12, <1>13

\* Once the points of the timer are drawn, the seconds it looked at show the size they
\* have and the others what they did.
LEMMA TimerDraws ==
    ASSUME StatsOK(m_globalStats), NEW c, IsList(c), NEW t
    PROVE  LastDrawn(c \o Points, t) =
                IF t \in ToDraw THEN value(m_globalStats.usage, t) ELSE LastDrawn(c, t)
<1>1. IsList(Points)
  BY PointsAre
<1>2. CASE t \in ToDraw
  <2>1. PICK k \in 1..Len(Points) :
            /\ Points[k].time = t /\ Points[k].size = value(m_globalStats.usage, t)
            /\ \A i \in 1..Len(Points) : Points[i].time = t => i = k
    BY <1>2, PointsAre
  <2>2. LastDrawn(c \o Points, t) = Points[k].size
    BY <1>1, <2>1, DrawnNow
  <2>3. QED
    BY <1>2, <2>1, <2>2
<1>3. CASE t \notin ToDraw
  <2>1. \A i \in 1..Len(Points) : Points[i].time # t
    BY <1>3, PointsAre
  <2>2. QED
    BY <1>1, <1>3, <2>1, DrawnBefore
<1>4. QED
  BY <1>2, <1>3

-----------------------------------------------------------------------------
(* The chart: its invariant *)

\* the statistics have every second from the first to the last, and no other
EverySecond(s) ==
    /\ s.usage.sizes = [t \in 1..s.last |-> s.usage.sizes[t]] /\ s.usage.last = s.last
    /\ s.usage.first = IF s.last = 0 THEN 0 ELSE 1

\* An operation that is still to be counted is of the second that goes on or of the next.
TimeInv == Comes("operation") => msg.time \in Time
\* When clearData resets the value of the chart nothing has come since it cleared the
\* statistics.
NothingUsed == Comes("resetLastValue") /\ ~Comes("clearStats") => m_globalStats.last = 0
\* What the timer found it draws before it looks again.
PendInv == Has(todo[Gui], "usage") \/ ~Has(todo[Gui], "draw") => memoryUsageUpdate = <<>>

\* what is drawn once the timer has drawn everything it found
AllPoints == chart \o memoryUsageUpdate
\* clearData has cleared the statistics, and not yet what the chart remembers of them
Resetting == ~Comes("clearStats") /\ Comes("resetLastTime")
\* Unless clearData is between the two: the chart remembers a second there is, every
\* second before it is drawn as it is, and it is drawn with the value remembered.
DrawnInv ==
    ~Resetting /\ m_iLastUpdateTime # 0 =>
        /\ m_iLastUpdateTime <= m_globalStats.last
        /\ \A t \in 1..(m_iLastUpdateTime - 1) : LastDrawn(AllPoints, t) = value(m_globalStats.usage, t)
        /\ LastDrawn(AllPoints, m_iLastUpdateTime) = m_iLastUpdateValue

\* what is true of the chart between two instructions
ChartInv == EverySecond(m_globalStats) /\ TimeInv /\ NothingUsed /\ PendInv /\ DrawnInv

\* No size is zero as an int too: an int holds zero.
LEMMA NoSizeIsZero == ToInt(0) = 0
<1> DEFINE h == IntRange \div 2
<1>1. h \in 0..(IntRange - 1) /\ IntRange \in Nat \ {0}
  BY RangeAssumption
<1>2. \A W \in Nat \ {0} : \A x \in 0..(W - 1) : x % W = x
  OBVIOUS
<1> HIDE DEF h
<1>3. (0 + h) % IntRange = h
  BY <1>1, <1>2
<1>4. h - h = 0
  BY <1>1
<1>5. QED
  BY <1>3, <1>4 DEF ToInt, h

\* Counting an operation of the last second or of the next leaves no second out, and
\* changes the size of no other.
LEMMA SecondCounted ==
    ASSUME NEW u, NEW n \in Nat, u.sizes = [r \in 1..n |-> u.sizes[r]], u.last = n,
           u.first = (IF n = 0 THEN 0 ELSE 1),
           NEW t, t \in (IF n = 0 THEN {1} ELSE {n, n + 1}), NEW size
    PROVE  LET v == update(u, t, size)
           IN  /\ v.sizes = [r \in 1..t |-> v.sizes[r]] /\ v.last = t /\ v.first = 1
               /\ \A r : r # t => value(v, r) = value(u, r)
<1>1. t \in Nat \ {0} /\ n <= t /\ (t = n \/ t = n + 1)
  OBVIOUS
<1>2. DOMAIN u.sizes = 1..n
  OBVIOUS
<1> DEFINE w == Insert(u, t, size)
<1>3. CASE update(u, t, size) = w
  <2>1. (1..n) \cup {t} = 1..t
    BY <1>1
  <2>2. w.sizes = [r \in 1..t |-> w.sizes[r]] /\ w.last = t
    BY <1>2, <2>1 DEF Insert
  <2>3. w.first = 1
    <3>1. CASE n = 0
      <4>1. t = 1 /\ u.first = 0 /\ t \notin DOMAIN u.sizes
        BY <1>2, <3>1
      <4>2. ToInt(value(u, t)) = 0
        BY <4>1, NoSizeIsZero DEF value
      <4>3. QED
        BY <4>1, <4>2 DEF Insert
    <3>2. CASE n # 0
      BY <3>2 DEF Insert
    <3>3. QED
      BY <3>1, <3>2
  <2>4. \A r : r # t => value(w, r) = value(u, r)
    BY <1>2 DEF Insert, value
  <2>5. QED
    BY <1>3, <2>2, <2>3, <2>4
<1>4. CASE update(u, t, size) # w
  <2>1. update(u, t, size) = u /\ ToInt(value(u, t)) # 0
    BY <1>4 DEF update
  <2>2. t \in 1..n
    BY <1>2, <2>1, NoSizeIsZero DEF value
  <2>3. t = n /\ n # 0
    BY <1>1, <2>2
  <2>4. QED
    BY <2>1, <2>3
<1>5. QED
  BY <1>3, <1>4

\* The order of what clearData resets, and of the operations.
LEMMA ResetOrder ==
    ASSUME ScriptInv, NEW w, Busy(Receiver), Head(todo[Receiver]) = Do(w), todo'[Receiver] = Tail(todo[Receiver])
    PROVE  /\ \A v : v # w => (Comes(v)' <=> Comes(v))
           /\ w \in {"clearStats", "clearChart"} => Resetting'
           /\ w = "clearStats" => ~Comes("operation")'
           /\ w = "resetLastValue" => ~Comes("clearStats") /\ ~Comes("resetLastTime")
           /\ w = "operation" => ~Comes("operation")' /\ ~Comes("resetLastValue")'
<1> DEFINE s == todo[Receiver]
<1>1. s \in Seq(ReceiverInstruction) /\ s # <<>> /\ ReceiverOrder(s) /\ Head(s) = Do(w)
  BY DEF ScriptInv, ReceiverScript, Busy
<1>2. \A v : v # w => (Comes(v)' <=> Comes(v))
  BY ReceiverTail
<1>3. \A v : Comes(v)' <=> Has(Tail(s), v)
  BY DEF Comes, Has
<1> HIDE DEF s
<1>4. \A a, b : Precedes(s, a, b) /\ w = b => ~Has(Tail(s), a)
  BY <1>1, PrecedesTail
<1>5. \A a, b : Follows(s, a, b) /\ w = a => Has(Tail(s), b)
  BY <1>1, FollowsTail
<1>6. w \in {"clearStats", "clearChart"} => Has(Tail(s), "resetLastTime") /\ ~Has(Tail(s), "clearStats")
  BY <1>1, <1>4, <1>5 DEF ReceiverOrder
<1>7. w = "clearStats" => ~Has(Tail(s), "operation")
  BY <1>1, <1>4 DEF ReceiverOrder
<1>8. w = "resetLastValue" => ~Has(Tail(s), "clearStats") /\ ~Has(Tail(s), "resetLastTime")
  BY <1>1, <1>4 DEF ReceiverOrder
<1>9. w = "operation" => ~Has(Tail(s), "operation") /\ ~Has(Tail(s), "resetLastValue")
  BY <1>1, <1>4 DEF ReceiverOrder
<1>10. QED
  BY <1>2, <1>3, <1>6, <1>7, <1>8, <1>9 DEF Resetting

\* The timer looks once, and draws what it has found after it.
LEMMA TimerOrder ==
    ASSUME ScriptInv, NEW w, Busy(Gui), Head(todo[Gui]) = Do(w), todo'[Gui] = Tail(todo[Gui])
    PROVE  /\ w = "usage" => /\ Has(todo[Gui], "usage") /\ Has(todo'[Gui], "draw") /\ ~Has(todo'[Gui], "usage")
           /\ w = "draw" => Has(todo[Gui], "draw") /\ (Has(todo'[Gui], "usage") => Has(todo[Gui], "usage"))
           /\ w \notin {"usage", "draw"} => /\ Has(todo'[Gui], "usage") <=> Has(todo[Gui], "usage")
                                            /\ Has(todo'[Gui], "draw") <=> Has(todo[Gui], "draw")
<1> DEFINE s == todo[Gui]
<1>1. s \in Seq(GuiInstruction) /\ s # <<>> /\ GuiOrder(s) /\ Head(s) = Do(w) /\ todo'[Gui] = Tail(s)
  BY DEF ScriptInv, GuiScriptOK, Busy
<1> HIDE DEF s
<1>2. Has(s, w)
  <2>1. 1 \in 1..Len(s) /\ Head(s) = s[1]
    BY <1>1, TailFacts
  <2>2. QED
    BY <1>1, <2>1 DEF Has
<1>3. w = "usage" => Has(Tail(s), "draw") /\ ~Has(Tail(s), "usage")
  BY <1>1, FollowsTail, PrecedesTail DEF GuiOrder
<1>4. \A v : Has(Tail(s), v) => Has(s, v)
  BY <1>1, HasTail
<1>5. \A v : v # w => (Has(Tail(s), v) <=> Has(s, v))
  <2>1. \A v : v # w => Head(s) # Do(v)
    BY <1>1, InstructionsDiffer
  <2>2. QED
    BY <1>1, <2>1, HasTail
<1>6. QED
  BY <1>1, <1>2, <1>3, <1>4, <1>5 DEF s

-----------------------------------------------------------------------------
(* The chart: what the timer looks at *)

\* A step that leaves the points, the sizes and what is left of a reset leaves ChartInv.
LEMMA ChartStands ==
    ASSUME ChartInv, UNCHANGED <<msg, AllPoints, m_iLastUpdateTime, m_iLastUpdateValue>>,
           m_globalStats'.usage = m_globalStats.usage, m_globalStats'.last = m_globalStats.last,
           Resetting => Resetting', Comes("operation")' => Comes("operation"),
           Comes("resetLastValue")' /\ ~Comes("clearStats")' => Comes("resetLastValue") /\ ~Comes("clearStats"),
           PendInv'
    PROVE  ChartInv'
<1>1. EverySecond(m_globalStats')
  BY DEF ChartInv, EverySecond
<1>2. TimeInv'
  BY DEF ChartInv, TimeInv, Time
<1>3. NothingUsed'
  BY DEF ChartInv, NothingUsed
<1>4. DrawnInv'
  <2>1. SUFFICES ASSUME ~Resetting', m_iLastUpdateTime # 0
                 PROVE  /\ m_iLastUpdateTime <= m_globalStats.last
                        /\ \A t \in 1..(m_iLastUpdateTime - 1) : LastDrawn(AllPoints, t) = value(m_globalStats.usage, t)
                        /\ LastDrawn(AllPoints, m_iLastUpdateTime) = m_iLastUpdateValue
    BY DEF DrawnInv
  <2>2. QED
    BY <2>1 DEF ChartInv, DrawnInv
<1>5. QED
  BY <1>1, <1>2, <1>3, <1>4 DEF ChartInv

\* What the timer looks at: every second from the one remembered on, or from the first.
\* One it does not draw is the one remembered, and has the value remembered.
LEMMA SecondsLooked ==
    ASSUME ChartInv, StatsOK(m_globalStats), m_iLastUpdateTime \in 0..m_globalStats.last
    PROVE  LET lo == IF m_iLastUpdateTime = 0 THEN 1 ELSE m_iLastUpdateTime
           IN  /\ Looked = lo..m_globalStats.last
               /\ ToDraw # {} => Max(ToDraw) = m_globalStats.last /\ Max(Looked) = m_globalStats.last
               /\ \A t \in Looked : t # m_iLastUpdateTime => t \in ToDraw
               /\ m_iLastUpdateTime \in Looked \ ToDraw =>
                    value(m_globalStats.usage, m_iLastUpdateTime) = m_iLastUpdateValue
<1> DEFINE n == m_globalStats.last
           b == m_iLastUpdateTime
           lo == IF b = 0 THEN 1 ELSE b
           u == m_globalStats.usage
<1>1. n \in Nat /\ n <= MaxTime /\ MaxTime \in Nat
  BY ViewAssumption DEF StatsOK
<1>2. DOMAIN u.sizes = 1..n /\ u.last = n /\ u.first = IF n = 0 THEN 0 ELSE 1
  BY DEF ChartInv, EverySecond
<1>3. Looked = lo..n
  <2>1. CASE n = 0
    BY <1>1, <1>2, <2>1 DEF Looked
  <2>2. CASE n # 0
    <3>1. u.first = 1
      BY <1>2, <2>2
    <3>2. (IF b = 0 THEN u.first ELSE b) = lo /\ lo \in 1..n
      BY <1>1, <2>2, <3>1
    <3>3. Looked = {t \in 1..n : lo # 0 /\ lo <= t /\ t <= n}
      BY <1>2, <3>2 DEF Looked
    <3> HIDE DEF lo, n
    <3>4. QED
      BY <1>1, <3>2, <3>3
  <2>3. QED
    BY <2>1, <2>2
<1>4. \A t \in Looked : t # b => t \in ToDraw
  BY DEF ToDraw, Updated
<1>5. b \in Looked \ ToDraw => value(u, b) = m_iLastUpdateValue
  BY DEF ToDraw, Updated
<1>6. ASSUME ToDraw # {} PROVE Max(ToDraw) = n /\ Max(Looked) = n
  <2>1. ToDraw \subseteq Looked
    BY DEF ToDraw
  <2>2. Looked \subseteq 1..MaxTime
    BY <1>1, <1>2, <1>3
  <2>3. /\ Max(ToDraw) \in ToDraw /\ \A y \in ToDraw : Max(ToDraw) >= y
        /\ Max(Looked) \in Looked /\ \A y \in Looked : Max(Looked) >= y
    <3>1. /\ ToDraw \subseteq Int /\ IsFiniteSet(ToDraw) /\ Looked \subseteq Int /\ IsFiniteSet(Looked)
      BY <1>1, <2>1, <2>2, FiniteSeconds
    <3>2. QED
      BY <1>6, <2>1, <3>1, MaxOfFinite
  <2>4. n \in Looked
    <3>1. PICK t \in Looked : TRUE
      BY <1>6, <2>1
    <3>2. lo \in Int /\ n \in Int /\ t \in lo..n
      BY <1>1, <1>3, <3>1
    <3> HIDE DEF lo, n
    <3>3. n \in lo..n
      BY <3>2
    <3>4. QED
      BY <1>3, <3>3
  <2>5. n \in ToDraw
    <3>1. CASE n # b
      BY <1>4, <2>4, <3>1
    <3>2. CASE n = b
      <4>1. PICK t \in ToDraw : TRUE
        BY <1>6
      <4>2. t = n
        <5>1. t \in lo..n
          BY <1>3, <2>1, <4>1
        <5>2. lo = n
          BY <1>1, <1>3, <2>4, <3>2
        <5>3. QED
          BY <1>1, <5>1, <5>2
      <4>3. QED
        BY <4>1, <4>2
    <3>3. QED
      BY <3>1, <3>2
  <2>6. \A y \in Looked : y \in Int /\ y <= n
    BY <1>1, <1>3
  <2>7. QED
    BY <1>1, <2>1, <2>3, <2>4, <2>5, <2>6
<1>7. QED
  BY <1>3, <1>4, <1>5, <1>6

\* When the timer has looked, everything up to the last second is drawn or will be.
LEMMA TimerLooks ==
    ASSUME ChartInv, StatsOK(m_globalStats), ChartOK, memoryUsageUpdate = <<>>, DoChart("usage"),
           m_globalStats' = m_globalStats, todo'[Receiver] = todo[Receiver]
    PROVE  DrawnInv'
<1> DEFINE n == m_globalStats.last
           b == m_iLastUpdateTime
           u == m_globalStats.usage
<1>1. /\ memoryUsageUpdate' = Points /\ chart' = chart
      /\ IF ToDraw = {} THEN UNCHANGED <<m_iLastUpdateTime, m_iLastUpdateValue>>
         ELSE m_iLastUpdateTime' = Max(ToDraw) /\ m_iLastUpdateValue' = value(u, Max(Looked))
  BY DEF DoChart
<1>2. IsList(chart) /\ b \in Nat /\ n \in Nat
  BY ViewAssumption DEF ChartOK, StatsOK
<1>3. AllPoints = chart
  <2>1. PICK S : chart \in Seq(S)
    BY <1>2 DEF IsList
  <2>2. QED
    BY <2>1, ConcatEmptySeq DEF AllPoints
<1>4. AllPoints' = chart \o Points
  BY <1>1 DEF AllPoints
<1>5. SUFFICES ASSUME ~Resetting', m_iLastUpdateTime' # 0
               PROVE  /\ m_iLastUpdateTime' <= n
                      /\ \A t \in 1..(m_iLastUpdateTime' - 1) : LastDrawn(chart \o Points, t) = value(u, t)
                      /\ LastDrawn(chart \o Points, m_iLastUpdateTime') = m_iLastUpdateValue'
  BY <1>4 DEF DrawnInv
<1>6. ~Resetting
  BY <1>5 DEF Resetting, Comes, Has
<1>7. b # 0 => /\ b <= n
               /\ \A t \in 1..(b - 1) : LastDrawn(chart, t) = value(u, t)
               /\ LastDrawn(chart, b) = m_iLastUpdateValue
  BY <1>3, <1>6 DEF ChartInv, DrawnInv
<1>8. CASE ToDraw = {}
  <2>1. Points = <<>>
    BY <1>8, PointsAre
  <2>2. chart \o Points = chart
    BY <1>3, <2>1 DEF AllPoints
  <2>3. m_iLastUpdateTime' = b /\ m_iLastUpdateValue' = m_iLastUpdateValue
    BY <1>1, <1>8
  <2>4. QED
    BY <1>5, <1>7, <2>2, <2>3
<1>9. CASE ToDraw # {}
  <2> DEFINE lo == IF b = 0 THEN 1 ELSE b
  <2>1. b \in 0..n
    BY <1>2, <1>7
  <2>2. /\ Looked = lo..n /\ Max(ToDraw) = n /\ Max(Looked) = n
        /\ \A t \in Looked : t # b => t \in ToDraw
        /\ b \in Looked \ ToDraw => value(u, b) = m_iLastUpdateValue
    BY <1>9, <2>1, SecondsLooked
  <2>3. m_iLastUpdateTime' = n /\ m_iLastUpdateValue' = value(u, n)
    BY <1>1, <1>9, <2>2
  <2>4. ASSUME NEW t \in 1..n PROVE LastDrawn(chart \o Points, t) = value(u, t)
    <3>1. CASE t \in ToDraw
      BY <1>2, <3>1, TimerDraws
    <3>2. CASE t \notin ToDraw
      <4>1. LastDrawn(chart \o Points, t) = LastDrawn(chart, t)
        BY <1>2, <3>2, TimerDraws
      <4>2. t \in Looked => t = b
        BY <2>2, <3>2
      <4>3. CASE t = b
        <5>1. b \in Looked \ ToDraw /\ b # 0
          BY <1>2, <2>1, <2>2, <3>2, <4>3
        <5>2. QED
          BY <1>7, <2>2, <4>1, <4>3, <5>1
      <4>4. CASE t # b
        <5>1. t \notin lo..n
          BY <2>2, <4>2, <4>4
        <5>2. b # 0 /\ t \in 1..(b - 1)
          BY <1>2, <5>1
        <5>3. QED
          BY <1>7, <4>1, <5>2
      <4>5. QED
        BY <4>3, <4>4
    <3>3. QED
      BY <3>1, <3>2
  <2>5. n \in 1..n /\ \A t \in 1..(n - 1) : t \in 1..n
    BY <1>2, <1>5, <2>3
  <2>6. QED
    BY <1>2, <2>3, <2>4, <2>5
<1>10. QED
  BY <1>8, <1>9

-----------------------------------------------------------------------------
(* The chart: what a step of each thread keeps *)

\* A step of the GUI thread.
LEMMA GuiChart ==
    ASSUME ScriptInv, TypeInv, ChartInv, Doing(Gui), todo'[Receiver] = todo[Receiver]
    PROVE  ChartInv'
<1>1. PICK w \in GuiDoes :
        /\ At(Gui) = <<"do", w>> /\ Busy(Gui) /\ Head(todo[Gui]) = Do(w)
        /\ Repeats(w) => todo' = todo
        /\ ~Repeats(w) => Advance(Gui)
  BY DoingOfGui
<1>2. /\ UNCHANGED <<msg, received, stopping, lockVars, sourceVars>>
      /\ \/ /\ w \in {"resetSearch", "clearFilter", "search"}
            /\ DoSearch(w) /\ UNCHANGED <<rowVars, chartVars, late>>
         \/ /\ w \in {"clearRows", "countRows", "fetchTo", "threadRows"}
            /\ DoRows(w) /\ UNCHANGED <<searchVars, chartVars>>
         \/ /\ w \in {"usage", "draw"}
            /\ DoChart(w) /\ UNCHANGED <<searchVars, rowVars>>
  BY <1>1, GuiEffects
<1>3. m_globalStats' = m_globalStats /\ msg' = msg
  BY <1>2 DEF sourceVars
<1>4. \A v : Comes(v)' <=> Comes(v)
  BY DEF Comes, Has
<1>5. Resetting' <=> Resetting
  BY <1>4 DEF Resetting
<1>6. StatsOK(m_globalStats) /\ ChartOK
  BY DEF TypeInv, SourcesOK
<1>7. ~Repeats(w) => todo'[Gui] = Tail(todo[Gui])
  BY <1>1, AdvanceScripts DEF ServerThread, Gui, Receiver
<1>8. CASE w \notin {"usage", "draw"}
  <2>1. UNCHANGED chartVars
    BY <1>2, <1>8
  <2>2. UNCHANGED <<AllPoints, m_iLastUpdateTime, m_iLastUpdateValue, memoryUsageUpdate>>
    BY <2>1 DEF chartVars, AllPoints
  <2>3. /\ Has(todo'[Gui], "usage") <=> Has(todo[Gui], "usage")
        /\ Has(todo'[Gui], "draw") <=> Has(todo[Gui], "draw")
    <3>1. CASE Repeats(w)
      BY <1>1, <3>1
    <3>2. CASE ~Repeats(w)
      BY <1>1, <1>7, <1>8, <3>2, TimerOrder
    <3>3. QED
      BY <3>1, <3>2
  <2>4. PendInv'
    BY <2>2, <2>3 DEF ChartInv, PendInv
  <2>5. QED
    BY <1>3, <1>4, <1>5, <2>2, <2>4, ChartStands
<1>9. CASE w = "usage"
  <2>1. ~Repeats(w) /\ DoChart("usage")
    BY <1>2, <1>9 DEF Repeats
  <2>2. Has(todo[Gui], "usage") /\ Has(todo'[Gui], "draw") /\ ~Has(todo'[Gui], "usage")
    BY <1>1, <1>7, <1>9, <2>1, TimerOrder
  <2>3. memoryUsageUpdate = <<>>
    BY <2>2 DEF ChartInv, PendInv
  <2>4. DrawnInv'
    BY <1>3, <1>6, <2>1, <2>3, TimerLooks
  <2>5. PendInv'
    BY <2>2 DEF PendInv
  <2>6. EverySecond(m_globalStats')
    BY <1>3 DEF ChartInv, EverySecond
  <2>7. TimeInv' /\ NothingUsed'
    BY <1>3, <1>4 DEF ChartInv, TimeInv, Time, NothingUsed
  <2>8. QED
    BY <2>4, <2>5, <2>6, <2>7 DEF ChartInv
<1>10. CASE w = "draw" /\ memoryUsageUpdate # <<>>
  <2>1. Repeats(w) /\ DoChart("draw") /\ todo' = todo
    BY <1>1, <1>2, <1>10 DEF Repeats
  <2>2. /\ chart' = Append(chart, Head(memoryUsageUpdate)) /\ memoryUsageUpdate' = Tail(memoryUsageUpdate)
        /\ UNCHANGED <<m_iLastUpdateTime, m_iLastUpdateValue>>
    BY <1>10, <2>1 DEF DoChart
  <2>3. AllPoints' = AllPoints
    BY <1>6, <1>10, <2>2, OneDrawn DEF AllPoints, ChartOK
  <2>4. Has(todo[Gui], "draw") /\ ~Has(todo[Gui], "usage")
    <3>1. todo[Gui] \in Seq(GuiInstruction) /\ todo[Gui] # <<>>
      BY <1>1 DEF ScriptInv, GuiScriptOK, Busy
    <3>2. 1 \in 1..Len(todo[Gui]) /\ todo[Gui][1] = Do("draw")
      BY <1>1, <1>10, <3>1, TailFacts
    <3>3. Has(todo[Gui], "draw")
      BY <3>2 DEF Has
    <3>4. QED
      BY <1>10, <3>3 DEF ChartInv, PendInv
  <2>5. PendInv'
    BY <2>1, <2>4 DEF PendInv
  <2>6. QED
    BY <1>3, <1>4, <1>5, <2>2, <2>3, <2>5, ChartStands
<1>11. CASE w = "draw" /\ memoryUsageUpdate = <<>>
  <2>1. UNCHANGED chartVars
    BY <1>2, <1>11 DEF DoChart
  <2>2. UNCHANGED <<AllPoints, m_iLastUpdateTime, m_iLastUpdateValue, memoryUsageUpdate>>
    BY <2>1 DEF chartVars, AllPoints
  <2>3. PendInv'
    BY <1>11, <2>2 DEF PendInv
  <2>4. QED
    BY <1>3, <1>4, <1>5, <2>2, <2>3, ChartStands
<1>12. QED
  BY <1>8, <1>9, <1>10, <1>11

\* An operation comes: the second before the last one does not change any more.
LEMMA OperationSecond ==
    ASSUME TypeInv, ChartInv, Comes("operation"), addMemoryOperation(msg),
           UNCHANGED <<chartVars, todo[Gui]>>, ~Comes("operation")', ~Comes("resetLastValue")',
           Resetting => Resetting'
    PROVE  ChartInv'
<1> DEFINE s == m_globalStats
           n == s.last
           t == msg.time
<1>1. PICK f : m_globalStats' = CountOperation(s, msg, f)
  BY DEF addMemoryOperation
<1>2. m_globalStats'.last = t /\ \E size : m_globalStats'.usage = update(s.usage, t, size)
  BY <1>1 DEF CountOperation
<1>3. PICK size : m_globalStats'.usage = update(s.usage, t, size)
  BY <1>2
<1>4. n \in Nat /\ t \in (IF n = 0 THEN {1} ELSE {n, n + 1})
  BY DEF TypeInv, SourcesOK, StatsOK, ChartInv, TimeInv, Time
<1> DEFINE u == s.usage
           v == m_globalStats'.usage
<1>5. u.sizes = [r \in 1..n |-> u.sizes[r]] /\ u.last = n /\ u.first = (IF n = 0 THEN 0 ELSE 1)
  BY DEF ChartInv, EverySecond
<1>6. v = update(u, t, size)
  BY <1>3
<1> HIDE DEF u, v, n, t
<1>7. /\ v.sizes = [r \in 1..t |-> v.sizes[r]] /\ v.last = t /\ v.first = 1
      /\ \A r : r # t => value(v, r) = value(u, r)
  BY ONLY <1>4, <1>5, <1>6, SecondCounted
<1>8. t # 0 /\ n <= t /\ t \in Nat
  BY <1>4
<1>9. EverySecond(m_globalStats')
  BY <1>2, <1>7, <1>8 DEF EverySecond, v, t
<1>10. DrawnInv'
  <2>1. AllPoints' = AllPoints /\ UNCHANGED <<m_iLastUpdateTime, m_iLastUpdateValue>>
    BY DEF chartVars, AllPoints
  <2>2. SUFFICES ASSUME ~Resetting, m_iLastUpdateTime # 0
                 PROVE  /\ m_iLastUpdateTime <= t
                        /\ \A r \in 1..(m_iLastUpdateTime - 1) : LastDrawn(AllPoints, r) = value(v, r)
                        /\ LastDrawn(AllPoints, m_iLastUpdateTime) = m_iLastUpdateValue
    BY <1>2, <2>1 DEF DrawnInv, v, t
  <2>3. /\ m_iLastUpdateTime <= n
        /\ \A r \in 1..(m_iLastUpdateTime - 1) : LastDrawn(AllPoints, r) = value(u, r)
        /\ LastDrawn(AllPoints, m_iLastUpdateTime) = m_iLastUpdateValue
    BY <2>2 DEF ChartInv, DrawnInv, u, n
  <2>4. m_iLastUpdateTime \in Nat
    BY ViewAssumption DEF TypeInv, ChartOK
  <2>5. \A r \in 1..(m_iLastUpdateTime - 1) : r # t
    BY <1>4, <1>8, <2>3, <2>4
  <2>6. m_iLastUpdateTime <= t
    BY <1>4, <1>8, <2>3, <2>4
  <2>7. QED
    BY <1>7, <2>3, <2>5, <2>6
<1>11. TimeInv' /\ NothingUsed'
  BY DEF TimeInv, NothingUsed
<1>12. PendInv'
  BY DEF chartVars, ChartInv, PendInv
<1>13. QED
  BY <1>9, <1>10, <1>11, <1>12 DEF ChartInv

\* A step of the receiving thread: a reset begins, goes on or ends, or a message counts.
LEMMA ReceiverChart ==
    ASSUME ScriptInv, TypeInv, ChartInv, Doing(Receiver)
    PROVE  ChartInv'
<1>1. PICK w \in ReceiverDoes :
        At(Receiver) = <<"do", w>> /\ Busy(Receiver) /\ Head(todo[Receiver]) = Do(w) /\ Advance(Receiver)
  BY DoingOfReceiver
<1>2. todo'[Receiver] = Tail(todo[Receiver]) /\ todo'[Gui] = todo[Gui]
  BY <1>1, AdvanceScripts DEF ServerThread, Gui, Receiver
<1>3. /\ UNCHANGED <<msg, received, stopping, lockVars>>
      /\ \/ /\ w \in {"clearOperations", "clearStats", "count", "backtrace", "thread", "operation"}
            /\ DoSources(w) /\ UNCHANGED <<searchVars, rowVars, chartVars, late>>
         \/ /\ w \in {"resetSearch", "clearFilter"}
            /\ DoSearch(w) /\ UNCHANGED <<sourceVars, rowVars, chartVars, late>>
         \/ /\ w \in {"clearRows", "clearThreadRows"}
            /\ DoRows(w) /\ UNCHANGED <<sourceVars, searchVars, chartVars>>
         \/ /\ w \in {"clearChart", "resetLastTime", "resetLastValue"}
            /\ DoChart(w) /\ UNCHANGED <<sourceVars, searchVars, rowVars>>
         \/ w = "nothing" /\ UNCHANGED <<sourceVars, searchVars, rowVars, chartVars, late>>
  BY <1>1, ReceiverEffects
<1>4. /\ Comes(w) /\ \A v : v # w => (Comes(v)' <=> Comes(v))
  BY <1>1, <1>2, ReceiverTail
<1>5. /\ w \in {"clearStats", "clearChart"} => Resetting'
      /\ w = "clearStats" => ~Comes("operation")'
      /\ w = "resetLastValue" => ~Comes("clearStats") /\ ~Comes("resetLastTime")
      /\ w = "operation" => ~Comes("operation")' /\ ~Comes("resetLastValue")'
  BY <1>1, <1>2, ResetOrder
<1>6. w # "resetLastTime" => (Resetting => Resetting')
  BY <1>4, <1>5 DEF Resetting
<1>7. memoryUsageUpdate' = memoryUsageUpdate
  BY <1>3 DEF chartVars, DoChart
<1>8. PendInv'
  BY <1>2, <1>7 DEF ChartInv, PendInv
<1>9. StatsOK(m_globalStats) /\ m_iLastUpdateTime \in Nat
  BY ViewAssumption DEF TypeInv, SourcesOK, ChartOK
<1>10. CASE w = "operation"
  <2>1. addMemoryOperation(msg) /\ UNCHANGED chartVars
    BY <1>3, <1>10 DEF DoSources
  <2>2. QED
    BY <1>2, <1>4, <1>5, <1>6, <1>10, <2>1, OperationSecond
<1>11. CASE w = "clearStats"
  <2>1. m_globalStats' = ResetStats(m_globalStats)
    BY <1>3, <1>11 DEF DoSources
  <2>2. m_globalStats'.last = 0 /\ m_globalStats'.usage = EmptyUsage
    BY <2>1 DEF ResetStats, NewStats
  <2>3. EmptyUsage.first = 0 /\ EmptyUsage.last = 0 /\ EmptyUsage.sizes = [r \in 1..0 |-> EmptyUsage.sizes[r]]
    BY DEF EmptyUsage
  <2>4. EverySecond(m_globalStats')
    BY <2>2, <2>3 DEF EverySecond
  <2>5. TimeInv' /\ DrawnInv' /\ NothingUsed'
    BY <1>5, <1>11, <2>2 DEF TimeInv, DrawnInv, NothingUsed
  <2>6. QED
    BY <1>8, <2>4, <2>5 DEF ChartInv
<1>12. CASE w \in {"clearChart", "resetLastTime", "resetLastValue"}
  <2>1. m_globalStats' = m_globalStats /\ msg' = msg /\ DoChart(w)
    BY <1>3, <1>12 DEF sourceVars
  <2>2. Comes("operation")' <=> Comes("operation")
    BY <1>4, <1>12
  <2>3. EverySecond(m_globalStats') /\ TimeInv'
    BY <2>1, <2>2 DEF ChartInv, EverySecond, TimeInv, Time
  <2>4. NothingUsed'
    <3>1. /\ Comes("clearStats")' <=> Comes("clearStats")
          /\ Comes("resetLastValue")' => Comes("resetLastValue")
      BY <1>4, <1>12
    <3>2. QED
      BY <2>1, <3>1 DEF ChartInv, NothingUsed
  <2>5. DrawnInv'
    <3>1. CASE w = "clearChart"
      BY <1>5, <3>1 DEF DrawnInv
    <3>2. CASE w = "resetLastTime"
      <4>1. m_iLastUpdateTime' = 0
        BY <2>1, <3>2 DEF DoChart
      <4>2. QED
        BY <4>1 DEF DrawnInv
    <3>3. CASE w = "resetLastValue"
      <4>1. m_iLastUpdateTime' = m_iLastUpdateTime
        BY <2>1, <3>3 DEF DoChart
      <4>2. ~Resetting /\ m_globalStats.last = 0
        BY <1>4, <1>5, <3>3 DEF Resetting, ChartInv, NothingUsed
      <4>3. m_iLastUpdateTime # 0 => m_iLastUpdateTime <= 0
        BY <4>2 DEF ChartInv, DrawnInv
      <4>4. m_iLastUpdateTime = 0
        BY <1>9, <4>3
      <4>5. QED
        BY <4>1, <4>4 DEF DrawnInv
    <3>4. QED
      BY <1>12, <3>1, <3>2, <3>3
  <2>6. QED
    BY <1>8, <2>3, <2>4, <2>5 DEF ChartInv
<1>13. CASE w \notin {"operation", "clearStats", "clearChart", "resetLastTime", "resetLastValue"}
  <2>1. UNCHANGED <<msg, chartVars>>
    BY <1>3, <1>13
  <2>2. UNCHANGED <<AllPoints, m_iLastUpdateTime, m_iLastUpdateValue>>
    BY <2>1 DEF chartVars, AllPoints
  <2>3. m_globalStats'.usage = m_globalStats.usage /\ m_globalStats'.last = m_globalStats.last
    <3>1. m_globalStats' = m_globalStats \/ m_globalStats' = CountMessage(m_globalStats)
      BY <1>3, <1>13 DEF DoSources, updateThreadInfos, sourceVars
    <3>2. QED
      BY <1>9, <3>1 DEF CountMessage, StatsOK
  <2>4. /\ Comes("operation")' => Comes("operation")
        /\ Comes("clearStats")' <=> Comes("clearStats")
        /\ Comes("resetLastValue")' <=> Comes("resetLastValue")
    BY <1>4, <1>13
  <2>5. Resetting => Resetting'
    BY <1>6, <1>13
  <2>6. QED
    BY <1>8, <2>1, <2>2, <2>3, <2>4, <2>5, ChartStands
<1>14. QED
  BY <1>10, <1>11, <1>12, <1>13

-----------------------------------------------------------------------------
(* The chart: every step *)

\* A step of a thread on a lock changes nothing of the chart.
LEMMA LockingChart ==
    ASSUME ScriptInv, ChartInv, NEW t \in ServerThread, Locking(t)
    PROVE  ChartInv'
<1>1. UNCHANGED <<msg, m_globalStats, memoryUsageUpdate, AllPoints, m_iLastUpdateTime, m_iLastUpdateValue>>
  BY DEF Locking, sourceVars, chartVars, AllPoints
<1>2. /\ \A v : Comes(v)' <=> Comes(v)
      /\ \A v : Has(todo'[Gui], v) <=> Has(todo[Gui], v)
  <2>1. CASE t = Gui
    <3>1. Busy(Gui) /\ Advance(Gui) /\ Gui \in ServerThread /\ Receiver \in ServerThread \ {Gui}
      BY <2>1, LockingOfGui DEF ServerThread, Gui, Receiver
    <3>2. todo'[Gui] = Tail(todo[Gui]) /\ todo'[Receiver] = todo[Receiver]
      BY <3>1, AdvanceScripts
    <3>3. todo[Gui] \in Seq(GuiInstruction) /\ todo[Gui] # <<>>
      BY <3>1 DEF ScriptInv, GuiScriptOK, Busy
    <3>4. \A v : Head(todo[Gui]) # Do(v)
      BY <2>1, LockingOfGui, InstructionsDiffer
    <3>5. \A v : Has(Tail(todo[Gui]), v) <=> Has(todo[Gui], v)
      BY <3>3, <3>4, HasTail
    <3>6. QED
      BY <3>2, <3>5 DEF Comes, Has
  <2>2. CASE t = Receiver
    <3>1. Busy(Receiver) /\ Advance(Receiver) /\ Receiver \in ServerThread /\ Gui \in ServerThread \ {Receiver}
      BY <2>2, LockingOfReceiver DEF ServerThread, Gui, Receiver
    <3>2. todo'[Receiver] = Tail(todo[Receiver]) /\ todo'[Gui] = todo[Gui]
      BY <3>1, AdvanceScripts
    <3>3. todo[Receiver] \in Seq(ReceiverInstruction) /\ todo[Receiver] # <<>>
      BY <3>1 DEF ScriptInv, ReceiverScript, Busy
    <3>4. \A v : Head(todo[Receiver]) # Do(v)
      BY <2>2, LockingOfReceiver, InstructionsDiffer
    <3>5. \A v : Has(Tail(todo[Receiver]), v) <=> Has(todo[Receiver], v)
      BY <3>3, <3>4, HasTail
    <3>6. QED
      BY <3>2, <3>5 DEF Comes, Has
  <2>3. QED
    BY <2>1, <2>2 DEF ServerThread
<1>3. PendInv'
  BY <1>1, <1>2 DEF ChartInv, PendInv
<1>4. Resetting => Resetting'
  BY <1>2 DEF Resetting
<1>5. QED
  BY <1>1, <1>2, <1>3, <1>4, ChartStands

\* A memory message is of the second that goes on or of the next.
LEMMA MessagesInTime ==
    ASSUME NEW m \in Messages, m.code \in {"malloc", "free"}
    PROVE  m.time \in Time
<1>1. \/ m \in {[NoMsg EXCEPT !.code = c] : c \in {"symbol"} \cup {x \in {"init"} : opsSession < MaxSession}}
      \/ m = [NoMsg EXCEPT !.code = "backtrace", !.num = received + 1, !.origin = received]
      \/ m = [Numbered(Msg(Main, "pthread_create", NULL, 0, NULL), 1) EXCEPT !.tid = Main]
      \/ \E a, s : s \in Time /\ m = Numbered(Msg(Main, "malloc", a, 1, NULL), s)
      \/ \E a, s : s \in Time /\ m = Numbered(Msg(Main, "free", NULL, 0, a), s)
  BY DEF Messages
<1>2. m \notin {[NoMsg EXCEPT !.code = c] : c \in {"symbol"} \cup {x \in {"init"} : opsSession < MaxSession}}
  BY DEF NoMsg, Msg
<1>3. m # [NoMsg EXCEPT !.code = "backtrace", !.num = received + 1, !.origin = received]
  BY DEF NoMsg, Msg
<1>4. m # [Numbered(Msg(Main, "pthread_create", NULL, 0, NULL), 1) EXCEPT !.tid = Main]
  BY DEF Numbered, Msg
<1>5. ASSUME NEW a, NEW s \in Time,
             m = Numbered(Msg(Main, "malloc", a, 1, NULL), s) \/ m = Numbered(Msg(Main, "free", NULL, 0, a), s)
      PROVE  m.time \in Time
  <2>1. m.time = s
    BY <1>5 DEF Numbered, Msg
  <2>2. QED
    BY <2>1
<1>6. QED
  BY <1>1, <1>2, <1>3, <1>4, <1>5

\* A message has been read: its handler resets the whole chart or nothing of it.
LEMMA ReceiveChart ==
    ASSUME ScriptInv, TypeInv, ChartInv, NEW m \in Messages, Receive(m)
    PROVE  ChartInv'
<1>1. /\ ~Busy(Receiver) /\ msg' = m /\ todo' = [todo EXCEPT ![Receiver] = Handler(m)]
      /\ UNCHANGED <<m_globalStats, memoryUsageUpdate, AllPoints, m_iLastUpdateTime, m_iLastUpdateValue>>
  BY DEF Receive, sourceVars, chartVars, AllPoints
<1>2. todo'[Receiver] = Handler(m) /\ todo'[Gui] = todo[Gui] /\ ~Resetting
  BY <1>1, StartScripts, EmptyScript DEF Resetting, Comes, Busy
<1>3. \A v : Comes(v)' <=> Has(Handler(m), v)
  BY <1>2 DEF Comes, Has
<1>4. EverySecond(m_globalStats')
  BY <1>1 DEF ChartInv, EverySecond
<1>5. TimeInv'
  <2>1. SUFFICES ASSUME Comes("operation")' PROVE m.time \in Time
    BY <1>1 DEF TimeInv, Time
  <2>2. m \in MsgType
    BY MessageTypes DEF TypeInv, ScalarOK
  <2>3. m.code \in {"malloc", "free"}
    BY <1>3, <2>1, <2>2, HandlerHasOperation
  <2>4. QED
    BY <2>3, MessagesInTime
<1>6. NothingUsed'
  <2>1. Comes("resetLastValue")' => Comes("clearStats")'
    BY <1>3, HandlersAreGood DEF GoodHandler, WholeClear
  <2>2. QED
    BY <2>1 DEF NothingUsed
<1>7. PendInv'
  BY <1>1, <1>2 DEF ChartInv, PendInv
<1>8. DrawnInv'
  <2>1. SUFFICES ASSUME m_iLastUpdateTime # 0
                 PROVE  /\ m_iLastUpdateTime <= m_globalStats.last
                        /\ \A t \in 1..(m_iLastUpdateTime - 1) : LastDrawn(AllPoints, t) = value(m_globalStats.usage, t)
                        /\ LastDrawn(AllPoints, m_iLastUpdateTime) = m_iLastUpdateValue
    BY <1>1 DEF DrawnInv
  <2>2. QED
    BY <1>2, <2>1 DEF ChartInv, DrawnInv
<1>9. QED
  BY <1>4, <1>5, <1>6, <1>7, <1>8 DEF ChartInv

\* A callback of the GUI thread begins, and nothing is left to draw from the one before.
LEMMA GuiStartsChart ==
    ASSUME ScriptInv, ChartInv, NEW s, GuiStarts(s), GoodGui(s)
    PROVE  ChartInv'
<1>1. /\ ~Busy(Gui) /\ todo' = [todo EXCEPT ![Gui] = s]
      /\ UNCHANGED <<msg, m_globalStats, memoryUsageUpdate, AllPoints, m_iLastUpdateTime, m_iLastUpdateValue>>
  BY DEF GuiStarts, sourceVars, chartVars, AllPoints
<1>2. \A v : Comes(v)' <=> Comes(v)
  BY <1>1, StartScripts DEF Comes, Has
<1>3. memoryUsageUpdate = <<>>
  <2>1. ~Has(todo[Gui], "draw")
    BY <1>1, EmptyScript DEF Busy
  <2>2. QED
    BY <2>1 DEF ChartInv, PendInv
<1>4. PendInv'
  BY <1>1, <1>3 DEF PendInv
<1>5. Resetting => Resetting'
  BY <1>2 DEF Resetting
<1>6. QED
  BY <1>1, <1>2, <1>4, <1>5, ChartStands

\* ChartInv is inductive, with the scripts and the types.
LEMMA NextChart == ScriptInv /\ TypeInv /\ ChartInv /\ [Next]_vars => ChartInv'
<1> SUFFICES ASSUME ScriptInv, TypeInv, ChartInv, [Next]_vars
             PROVE  ChartInv'
  OBVIOUS
<1>1. CASE \E t \in ServerThread : Step(t)
  <2>1. PICK t \in ServerThread : Step(t)
    BY <1>1
  <2>2. CASE Locking(t)
    BY <2>2, LockingChart
  <2>3. CASE Doing(t) /\ t = Receiver
    BY <2>3, ReceiverChart
  <2>4. CASE Doing(t) /\ t = Gui
    <3>1. Doing(Gui)
      BY <2>4
    <3>2. todo'[Receiver] = todo[Receiver]
      BY <2>1, <2>4, StepScripts DEF ServerThread, Gui, Receiver
    <3>3. QED
      BY <3>1, <3>2, GuiChart
  <2>5. QED
    BY <2>1, <2>2, <2>3, <2>4 DEF Step, ServerThread
<1>2. CASE \E m \in Messages : Receive(m)
  BY <1>2, ReceiveChart
<1>3. CASE FilterClicked \/ Timeout \/ DoubleClicked
  <2>1. PICK s : GuiStarts(s) /\ GoodGui(s)
    BY <1>3, GuiScriptsAreGood DEF FilterClicked, Timeout, DoubleClicked
  <2>2. QED
    BY <2>1, GuiStartsChart
<1>4. CASE WindowClosed \/ UNCHANGED vars
  <2>1. /\ UNCHANGED <<msg, m_globalStats, memoryUsageUpdate, AllPoints, m_iLastUpdateTime, m_iLastUpdateValue>>
        /\ todo' = todo
    BY <1>4 DEF WindowClosed, vars, controlVars, sourceVars, chartVars, AllPoints
  <2>2. \A v : Comes(v)' <=> Comes(v)
    BY <2>1 DEF Comes, Has
  <2>3. Resetting => Resetting'
    BY <2>2 DEF Resetting
  <2>4. PendInv'
    BY <2>1 DEF ChartInv, PendInv
  <2>5. QED
    BY <2>1, <2>2, <2>3, <2>4, ChartStands
<1>5. QED
  BY <1>1, <1>2, <1>3, <1>4 DEF Next

\* At the start nothing is drawn and nothing is counted.
LEMMA InitChart == Init => ChartInv
<1> SUFFICES ASSUME Init PROVE ChartInv
  OBVIOUS
<1>1. todo[Receiver] = <<>>
  BY DEF Init, ServerThread
<1>2. \A v : ~Comes(v)
  BY <1>1, EmptyScript DEF Comes
<1>3. m_globalStats = NewStats /\ memoryUsageUpdate = <<>> /\ m_iLastUpdateTime = 0
  BY DEF Init, ControllerInit
<1>4. EverySecond(m_globalStats)
  BY <1>3 DEF EverySecond, NewStats, EmptyUsage
<1>5. QED
  BY <1>2, <1>3, <1>4 DEF ChartInv, TimeInv, NothingUsed, PendInv, DrawnInv

\* When both threads are idle nothing is still to be drawn, so ChartInv says what is.
LEMMA ChartGivesDrawn == ScriptInv /\ TypeInv /\ ChartInv => ChartDrawn
<1> SUFFICES ASSUME ScriptInv, TypeInv, ChartInv, ~Busy(Gui), ~Busy(Receiver)
             PROVE  /\ \A t \in DOMAIN m_globalStats.usage.sizes :
                            t < m_iLastUpdateTime => Drawn(t) = value(m_globalStats.usage, t)
                    /\ m_iLastUpdateTime # 0 => Drawn(m_iLastUpdateTime) = m_iLastUpdateValue
  BY DEF ChartDrawn
<1>1. memoryUsageUpdate = <<>> /\ ~Resetting
  BY EmptyScript DEF Busy, ChartInv, PendInv, Resetting, Comes
<1>2. AllPoints = chart
  <2>1. PICK S : chart \in Seq(S)
    BY DEF TypeInv, ChartOK, IsList
  <2>2. QED
    BY <1>1, <2>1, ConcatEmptySeq DEF AllPoints
<1>3. \A t : Drawn(t) = LastDrawn(AllPoints, t)
  BY <1>2 DEF Drawn, LastDrawn, PointsOf
<1>4. DOMAIN m_globalStats.usage.sizes = 1..m_globalStats.last /\ m_globalStats.last \in Nat /\ m_iLastUpdateTime \in Nat
  BY ViewAssumption DEF ChartInv, EverySecond, TypeInv, SourcesOK, StatsOK, ChartOK
<1>5. m_iLastUpdateTime # 0 =>
        /\ \A t \in 1..(m_iLastUpdateTime - 1) : LastDrawn(AllPoints, t) = value(m_globalStats.usage, t)
        /\ LastDrawn(AllPoints, m_iLastUpdateTime) = m_iLastUpdateValue
  BY <1>1 DEF ChartInv, DrawnInv
<1>6. ASSUME NEW t \in DOMAIN m_globalStats.usage.sizes, t < m_iLastUpdateTime
      PROVE  Drawn(t) = value(m_globalStats.usage, t)
  <2>1. t \in 1..(m_iLastUpdateTime - 1) /\ m_iLastUpdateTime # 0
    BY <1>4, <1>6
  <2>2. QED
    BY <1>3, <1>5, <2>1
<1>7. QED
  BY <1>3, <1>5, <1>6

\* ChartDrawn always holds: whenever both threads are idle, every second the timer has
\* left behind is drawn with the value it ended with, and the last one with the value
\* last seen, although onMemoryOperationReceived counts while the timer draws and
\* clearData resets the chart while it draws (onTimerUpdate, clearData).
THEOREM SpecChartDrawn == Spec => []ChartDrawn
<1>1. Init => ScriptInv /\ HoldInv /\ TypeInv /\ ChartInv
  BY InitHolds, InitTypes, InitChart
<1>2. ScriptInv /\ HoldInv /\ TypeInv /\ ChartInv /\ [Next]_vars => (ScriptInv /\ HoldInv /\ TypeInv /\ ChartInv)'
  BY NextHolds, NextTypes, NextChart
<1>3. ScriptInv /\ HoldInv /\ TypeInv /\ ChartInv => ChartDrawn
  BY ChartGivesDrawn
<1>4. QED
  BY <1>1, <1>2, <1>3, PTL DEF Spec

=============================================================================

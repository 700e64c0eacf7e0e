----------------------- MODULE MemOpRcptServerProofs ------------------------
(***************************************************************************)
(* What MemOpRcptServer guarantees for every mix of message sizes, every   *)
(* size of read and of batch, and every number of traced processes.        *)
(***************************************************************************)
EXTENDS MemOpRcptServer, SequenceTheorems, TLAPS

-----------------------------------------------------------------------------
(* Sequences of bytes *)

\* What is left behind the first n elements.
LEMMA DropFacts ==
    ASSUME NEW S, NEW s \in Seq(S), NEW n \in 0..Len(s)
    PROVE  /\ Drop(s, n) \in Seq(S)
           /\ Len(Drop(s, n)) = Len(s) - n
           /\ \A i \in 1..(Len(s) - n) : Drop(s, n)[i] = s[n + i]
<1>1. Len(s) \in Nat /\ n \in Nat /\ n <= Len(s)
  BY LenProperties
<1>2. \A i \in (n + 1)..Len(s) : s[i] \in S
  BY <1>1, ElementOfSeq
<1>3. QED
  BY <1>1, <1>2 DEF Drop

\* Dropping nothing,
LEMMA DropNone ==
    ASSUME NEW S, NEW s \in Seq(S)
    PROVE  Drop(s, 0) = s
<1>1. /\ Drop(s, 0) \in Seq(S) /\ Len(Drop(s, 0)) = Len(s)
      /\ \A i \in 1..Len(s) : Drop(s, 0)[i] = s[i]
  <2>1. Len(s) \in Nat /\ 0 \in 0..Len(s)
    BY LenProperties
  <2>2. QED
    BY <2>1, DropFacts
<1>2. QED
  BY <1>1, SeqEqual

\* dropping twice,
LEMMA DropTwice ==
    ASSUME NEW S, NEW s \in Seq(S), NEW n \in 0..Len(s), NEW k \in 0..(Len(s) - n)
    PROVE  Drop(Drop(s, n), k) = Drop(s, n + k)
<1> DEFINE d == Drop(s, n)
<1>1. Len(s) \in Nat /\ n \in Nat /\ k \in Nat /\ n + k \in 0..Len(s)
  BY LenProperties
<1>2. d \in Seq(S) /\ Len(d) = Len(s) - n /\ \A i \in 1..(Len(s) - n) : d[i] = s[n + i]
  BY DropFacts
<1>3. /\ Drop(s, n + k) \in Seq(S) /\ Len(Drop(s, n + k)) = Len(s) - (n + k)
      /\ \A i \in 1..(Len(s) - (n + k)) : Drop(s, n + k)[i] = s[(n + k) + i]
  BY <1>1, DropFacts
<1> HIDE DEF d
<1>4. k \in 0..Len(d)
  BY <1>2
<1>5. /\ Drop(d, k) \in Seq(S) /\ Len(Drop(d, k)) = Len(d) - k
      /\ \A i \in 1..(Len(d) - k) : Drop(d, k)[i] = d[k + i]
  BY ZenonT(30), <1>2, <1>4, DropFacts
<1>6. Len(d) - k = Len(s) - (n + k)
  BY <1>1, <1>2
<1>7. ASSUME NEW i \in 1..(Len(s) - (n + k)) PROVE Drop(d, k)[i] = Drop(s, n + k)[i]
  <2>1. k + i \in 1..(Len(s) - n) /\ n + (k + i) = (n + k) + i
    BY <1>1
  <2>2. Drop(d, k)[i] = s[n + (k + i)]
    BY <1>2, <1>5, <1>6, <2>1
  <2>3. QED
    BY <1>3, <2>1, <2>2
<1>8. QED
  BY <1>3, <1>5, <1>6, <1>7, SeqEqual DEF d

\* and dropping from the first part of a concatenation.
LEMMA DropConcat ==
    ASSUME NEW S, NEW a \in Seq(S), NEW b \in Seq(S), NEW n \in 0..Len(a)
    PROVE  Drop(a \o b, n) = Drop(a, n) \o b
<1> DEFINE s == a \o b  d == Drop(a, n)
<1>1. /\ s \in Seq(S) /\ Len(s) = Len(a) + Len(b)
      /\ \A i \in 1..Len(s) : s[i] = IF i <= Len(a) THEN a[i] ELSE b[i - Len(a)]
  BY ConcatProperties
<1>2. Len(a) \in Nat /\ Len(b) \in Nat /\ n \in Nat
  BY LenProperties
<1>3. d \in Seq(S) /\ Len(d) = Len(a) - n /\ \A i \in 1..(Len(a) - n) : d[i] = a[n + i]
  BY DropFacts
<1>4. /\ d \o b \in Seq(S) /\ Len(d \o b) = Len(d) + Len(b)
      /\ \A i \in 1..Len(d \o b) : (d \o b)[i] = IF i <= Len(d) THEN d[i] ELSE b[i - Len(d)]
  <2>1. d \in Seq(S)
    BY <1>3
  <2> HIDE DEF d
  <2>2. QED
    BY <2>1, ConcatProperties
<1> HIDE DEF s, d
<1>5. n \in 0..Len(s)
  BY <1>1, <1>2
<1>6. /\ Drop(s, n) \in Seq(S) /\ Len(Drop(s, n)) = Len(s) - n
      /\ \A i \in 1..(Len(s) - n) : Drop(s, n)[i] = s[n + i]
  BY ZenonT(30), <1>1, <1>5, DropFacts
<1>7. Len(d \o b) = Len(s) - n
  BY <1>1, <1>2, <1>3, <1>4
<1>8. ASSUME NEW i \in 1..(Len(s) - n) PROVE Drop(s, n)[i] = (d \o b)[i]
  <2>1. n + i \in 1..Len(s) /\ i \in Nat /\ i \in 1..Len(d \o b)
    BY <1>1, <1>2, <1>7
  <2>2. CASE i <= Len(d)
    <3>1. n + i <= Len(a) /\ i \in 1..(Len(a) - n)
      BY <1>2, <1>3, <2>1, <2>2
    <3>2. QED
      BY <1>1, <1>3, <1>4, <1>6, <2>1, <2>2, <3>1
  <2>3. CASE i > Len(d)
    <3>1. ~(n + i <= Len(a)) /\ (n + i) - Len(a) = i - Len(d)
      BY <1>2, <1>3, <2>1, <2>3
    <3>2. QED
      BY SMTT(30), <1>1, <1>3, <1>4, <1>6, <2>1, <2>3, <3>1
  <2>4. QED
    BY <1>2, <1>3, <2>1, <2>2, <2>3
<1>9. QED
  BY <1>4, <1>6, <1>7, <1>8, SeqEqual DEF s, d

\* A sequence is its first elements and the rest.
LEMMA SplitSeq ==
    ASSUME NEW S, NEW s \in Seq(S), NEW n \in 0..Len(s)
    PROVE  /\ SubSeq(s, 1, n) \in Seq(S) /\ Len(SubSeq(s, 1, n)) = n
           /\ SubSeq(s, 1, n) \o Drop(s, n) = s
<1> DEFINE f == SubSeq(s, 1, n)  d == Drop(s, n)
<1>1. Len(s) \in Nat /\ n \in Nat /\ n <= Len(s)
  BY LenProperties
<1>2. f \in Seq(S) /\ Len(f) = n /\ \A i \in 1..n : f[i] = s[i]
  <2>1. \A i \in 1..n : s[i] \in S
    BY <1>1, ElementOfSeq
  <2>2. QED
    BY <1>1, <2>1
<1>3. d \in Seq(S) /\ Len(d) = Len(s) - n /\ \A i \in 1..(Len(s) - n) : d[i] = s[n + i]
  BY DropFacts
<1> HIDE DEF f, d
<1>4. /\ f \o d \in Seq(S) /\ Len(f \o d) = Len(f) + Len(d)
      /\ \A i \in 1..Len(f \o d) : (f \o d)[i] = IF i <= Len(f) THEN f[i] ELSE d[i - Len(f)]
  <2>1. f \in Seq(S) /\ d \in Seq(S)
    BY <1>2, <1>3
  <2>2. QED
    BY <2>1, ConcatProperties
<1>5. ASSUME NEW i \in 1..Len(s) PROVE (f \o d)[i] = s[i]
  <2>1. i \in 1..Len(f \o d)
    BY <1>1, <1>2, <1>3, <1>4
  <2>2. CASE i <= n
    BY <1>2, <1>4, <2>1, <2>2
  <2>3. CASE i > n
    <3>1. i - n \in 1..(Len(s) - n) /\ n + (i - n) = i
      BY <1>1, <2>3
    <3>2. QED
      BY SMTT(30), <1>2, <1>3, <1>4, <2>1, <2>3, <3>1
  <2>4. i \in Nat
    BY <1>1
  <2>5. i <= n \/ i > n
    BY <1>1, <2>4
  <2>6. QED
    BY <2>2, <2>3, <2>5
<1>6. Len(f \o d) = Len(s)
  BY <1>1, <1>2, <1>3, <1>4
<1>7. QED
  BY <1>2, <1>4, <1>5, <1>6, SeqEqual DEF f, d

\* The bytes of a message.
LEMMA BytesAre ==
    ASSUME NEW m \in Message
    PROVE  /\ SizeOf[m.code] \in Nat /\ SizeOf[m.code] >= 1 /\ SizeOf[m.code] <= ReadSize
           /\ Bytes(m) \in Seq(Byte) /\ Len(Bytes(m)) = SizeOf[m.code]
           /\ \A i \in 1..SizeOf[m.code] : Bytes(m)[i] = [msg |-> m, at |-> i]
<1>1. m.code \in Code
  BY DEF Message
<1>2. SizeOf[m.code] \in Nat /\ SizeOf[m.code] >= 1 /\ SizeOf[m.code] <= ReadSize
  BY <1>1, FramingAssumption
<1>3. Bytes(m) \in [1..SizeOf[m.code] -> Byte]
  BY <1>2 DEF Bytes, Byte
<1>4. Bytes(m) \in Seq(Byte) /\ Len(Bytes(m)) = SizeOf[m.code]
  BY <1>2, <1>3
<1>5. QED
  BY <1>2, <1>4 DEF Bytes

\* What is needed for a message.
LEMMA NeededIs ==
    ASSUME NEW c \in Code
    PROVE  /\ Needed(c) \in Nat /\ SizeOf[c] \in Nat /\ SizeOf[c] >= 1
           /\ SizeOf[c] <= Needed(c) /\ Needed(c) <= ReadSize
BY FramingAssumption DEF Needed

\* A concatenation holds what its parts hold, place by place.
LEMMA ConcatIs ==
    ASSUME NEW S, NEW a \in Seq(S), NEW b \in Seq(S)
    PROVE  /\ a \o b \in Seq(S) /\ Len(a \o b) = Len(a) + Len(b)
           /\ \A i \in 1..Len(a) : (a \o b)[i] = a[i]
           /\ \A i \in 1..Len(b) : (a \o b)[Len(a) + i] = b[i]
<1>1. /\ a \o b \in Seq(S) /\ Len(a \o b) = Len(a) + Len(b)
      /\ \A i \in 1..Len(a \o b) : (a \o b)[i] = IF i <= Len(a) THEN a[i] ELSE b[i - Len(a)]
  BY ConcatProperties
<1> DEFINE s == a \o b
<1> HIDE DEF s
<1>2. Len(a) \in Nat /\ Len(b) \in Nat
  BY LenProperties
<1>3. ASSUME NEW i \in 1..Len(a) PROVE s[i] = a[i]
  BY <1>1, <1>2 DEF s
<1>4. ASSUME NEW i \in 1..Len(b) PROVE s[Len(a) + i] = b[i]
  <2>1. Len(a) + i \in 1..Len(s) /\ ~(Len(a) + i <= Len(a)) /\ (Len(a) + i) - Len(a) = i
    BY <1>1, <1>2 DEF s
  <2>2. QED
    BY <1>1, <2>1 DEF s
<1>5. QED
  BY <1>1, <1>3, <1>4 DEF s

-----------------------------------------------------------------------------
(* Types *)

\* the next message has a known kind, and is what was asked for
LEMMA NextCodeIs ==
    ASSUME TypeOK, NEW c \in NextCode
    PROVE  /\ Unread # <<>> /\ c \in Code
           /\ Unread \in Seq(Byte) /\ Len(Unread) = Len(pBuffer) - iSizeRead
           /\ Len(Unread) \in Nat /\ Len(Unread) >= 1
           /\ Unread[1] \in Byte /\ Unread[1].msg \in Message
           /\ ~Garbled => c = Unread[1].msg.code
<1>1. Unread \in Seq(Byte) /\ Len(Unread) = Len(pBuffer) - iSizeRead
  BY DropFacts DEF TypeOK, Unread
<1>2. Unread # <<>>
  BY DEF NextCode
<1> HIDE DEF Unread
<1>3. Len(Unread) \in Nat /\ Len(Unread) >= 1
  BY <1>1, <1>2, EmptySeq, LenProperties
<1>4. Unread[1] \in Byte
  BY <1>1, <1>3, ElementOfSeq
<1>5. Unread[1].msg \in Message /\ Unread[1].msg.code \in Code
  BY <1>4 DEF Byte, Message
<1>6. c \in Code /\ (~Garbled => c = Unread[1].msg.code)
  BY <1>2, <1>5 DEF NextCode
<1>7. QED
  BY <1>1, <1>2, <1>3, <1>4, <1>5, <1>6

LEMMA InitType == Init => TypeOK
BY FramingAssumption DEF Init, TypeOK

\* Every step keeps the types: what is handled was there.
LEMMA NextType == TypeOK /\ [Next]_vars => TypeOK'
<1> SUFFICES ASSUME TypeOK, [Next]_vars PROVE TypeOK'
  OBVIOUS
<1> USE DEF TypeOK, readerVars, writerVars, mediumVars
<1>0. /\ Len(pBuffer) \in Nat /\ Len(sent) \in Nat /\ Len(inbox) \in Nat /\ Len(medium) \in Nat
      /\ ReadSize \in Nat
  BY LenProperties, FramingAssumption
<1>1. CASE WriterOpens
  BY <1>0, <1>1 DEF WriterOpens
<1>2. ASSUME NEW c \in Code, Accept(c) PROVE TypeOK'
  <2> DEFINE m == [num |-> Len(sent) + 1, code |-> c]
  <2>1. m \in Message
    BY <1>0 DEF Message
  <2> HIDE DEF m
  <2>2. Bytes(m) \in Seq(Byte)
    BY <2>1, BytesAre
  <2>3. batch' = batch \o Bytes(m) /\ sent' = Append(sent, m)
    BY <1>2 DEF Accept, m
  <2>4. batch' \in Seq(Byte)
    BY <2>2, <2>3
  <2>5. sent' \in Seq(Message) /\ Len(sent') = Len(sent) + 1
    BY <2>1, <2>3, AppendProperties
  <2>6. earlier' \in 0..Len(sent')
    BY <1>0, <1>2, <2>5 DEF Accept
  <2>7. QED
    BY <1>2, <2>4, <2>5, <2>6 DEF Accept
<1>3. CASE WriteBatch
  BY <1>3 DEF WriteBatch
<1>4. CASE WriteBroken
  BY <1>4 DEF WriteBroken
<1>5. CASE Arrive
  <2>1. PICK n \in 1..Len(medium) :
          inbox' = inbox \o SubSeq(medium, 1, n) /\ medium' = Drop(medium, n)
    BY <1>5 DEF Arrive
  <2>2. n \in 0..Len(medium)
    BY <1>0
  <2>3. SubSeq(medium, 1, n) \in Seq(Byte) /\ Drop(medium, n) \in Seq(Byte)
    BY <2>2, SplitSeq, DropFacts
  <2>4. inbox' \in Seq(Byte) /\ medium' \in Seq(Byte)
    BY <2>1, <2>3
  <2>5. QED
    BY <1>5, <2>4 DEF Arrive
<1>6. CASE ArriveDatagram
  BY <1>6 DEF ArriveDatagram
<1>7. CASE WriterCloses
  BY <1>7 DEF WriterCloses
<1>8. CASE Open
  BY <1>8 DEF Open
<1>9. CASE Read
  <2> DEFINE n == IF Len(inbox) < ReadSize THEN Len(inbox) ELSE ReadSize
  <2>1. n \in 0..Len(inbox)
    BY <1>0
  <2>2. pBuffer' = pBuffer \o SubSeq(inbox, 1, n) /\ inbox' = Drop(inbox, n) /\ iSizeRead' = 0
    BY <1>9 DEF Read
  <2> HIDE DEF n
  <2>3. SubSeq(inbox, 1, n) \in Seq(Byte) /\ Drop(inbox, n) \in Seq(Byte)
    BY <2>1, SplitSeq, DropFacts
  <2>4. pBuffer' \in Seq(Byte) /\ inbox' \in Seq(Byte)
    BY <2>2, <2>3
  <2>5. iSizeRead' \in 0..Len(pBuffer')
    BY <2>2, <2>4, LenProperties
  <2>6. QED
    BY <1>9, <2>4, <2>5 DEF Read
<1>10. CASE ProcessMsg
  <2>1. PICK c \in NextCode :
          /\ Len(Unread) >= Needed(c)
          /\ handled' = Append(handled, IF Garbled THEN [num |-> 0, code |-> c] ELSE Unread[1].msg)
          /\ iSizeRead' = iSizeRead + SizeOf[c]
    BY <1>10 DEF ProcessMsg
  <2>2. /\ c \in Code /\ Len(Unread) = Len(pBuffer) - iSizeRead
        /\ Unread[1].msg \in Message
    BY NextCodeIs
  <2>3. (IF Garbled THEN [num |-> 0, code |-> c] ELSE Unread[1].msg) \in Message
    BY <2>2 DEF Message
  <2>4. handled' \in Seq(Message)
    BY <2>1, <2>3, AppendProperties
  <2>5. SizeOf[c] \in Nat /\ SizeOf[c] <= Needed(c) /\ Needed(c) \in Nat
    BY <2>2, NeededIs
  <2>6. iSizeRead' \in 0..Len(pBuffer)
    <3>1. Len(pBuffer) \in Nat /\ iSizeRead \in Nat
      BY <1>0
    <3>2. Len(pBuffer) - iSizeRead >= Needed(c) /\ iSizeRead' = iSizeRead + SizeOf[c]
      BY <2>1, <2>2
    <3>3. QED
      BY ONLY <2>5, <3>1, <3>2
  <2>7. QED
    BY <1>10, <2>4, <2>6 DEF ProcessMsg
<1>11. CASE KeepRest
  <2>1. pBuffer' \in Seq(Byte)
    BY <1>11, DropFacts DEF KeepRest, Unread
  <2>2. iSizeRead' \in 0..Len(pBuffer')
    BY <1>11, <2>1, LenProperties DEF KeepRest
  <2>3. QED
    BY <1>11, <2>1, <2>2 DEF KeepRest
<1>12. CASE ProcessError
  BY <1>12 DEF ProcessError
<1>13. CASE ReadEnd
  BY <1>13 DEF ReadEnd
<1>14. CASE Close
  BY <1>14 DEF Close
<1>15. CASE UNCHANGED vars
  BY <1>15 DEF vars
<1>16. QED
  BY <1>1, <1>2, <1>3, <1>4, <1>5, <1>6, <1>7, <1>8, <1>9, <1>10, <1>11, <1>12, <1>13, <1>14,
     <1>15 DEF Next, Writing, Reading

\* The types hold throughout; in particular doProcessDataRead never goes through more
\* than was read (iSizeRead), in sync or not.
THEOREM SpecTypeOK == Spec => []TypeOK
BY InitType, NextType, PTL DEF Spec

-----------------------------------------------------------------------------
(* The array of doReadMsg *)

\* what is in the array in each state of the reader
Filled ==
    /\ reader \in {"idle", "opening"} => pBuffer = <<>>
    /\ reader \in {"idle", "opening", "read"} => iSizeRead = 0
    /\ reader = "read" => Len(pBuffer) <= ReadSize

BufferInv == TypeOK /\ Filled

LEMMA InitBuffer == Init => BufferInv
BY InitType DEF Init, BufferInv, Filled

\* Less than what the next message needs is kept, and no message needs more than a read.
LEMMA NextBuffer == BufferInv /\ [Next]_vars => BufferInv'
<1> SUFFICES ASSUME BufferInv, [Next]_vars PROVE Filled'
  BY NextType DEF BufferInv
<1>0. TypeOK /\ Filled /\ ReadSize \in Nat /\ Len(<<>>) = 0
  BY FramingAssumption DEF BufferInv
<1> USE DEF Filled, readerVars, writerVars, mediumVars
<1>1. CASE Writing
  <2> DEFINE Started == /\ pBuffer' = pBuffer /\ iSizeRead' = iSizeRead
                        /\ \/ reader' = reader
                           \/ reader \in {"idle", "opening"} /\ reader' = "read"
  <2>1. CASE WriterOpens \/ \E c \in Code : Accept(c)
    <3>1. Started
      BY <2>1 DEF WriterOpens, Accept
    <3>2. QED
      BY <1>0, <3>1
  <2>2. CASE WriteBatch \/ WriteBroken \/ WriterCloses
    <3>1. Started
      BY <2>2 DEF WriteBatch, WriteBroken, WriterCloses
    <3>2. QED
      BY <1>0, <3>1
  <2>3. CASE Arrive \/ ArriveDatagram
    <3>1. Started
      BY <2>3 DEF Arrive, ArriveDatagram
    <3>2. QED
      BY <1>0, <3>1
  <2>4. QED
    BY <1>1, <2>1, <2>2, <2>3 DEF Writing
<1>2. CASE Open
  BY <1>0, <1>2 DEF Open
<1>3. CASE Read
  BY <1>3 DEF Read
<1>4. CASE ProcessMsg
  BY <1>4 DEF ProcessMsg
<1>5. CASE KeepRest
  <2>1. pBuffer' = Unread /\ iSizeRead' = 0 /\ reader' = "read" /\ Incomplete
    BY <1>5 DEF KeepRest
  <2>2. CASE Unread = <<>>
    BY <1>0, <2>1, <2>2
  <2>3. ASSUME NEW c \in NextCode, Len(Unread) < Needed(c) PROVE Filled'
    <3>1. c \in Code /\ Len(Unread) \in Nat
      BY <1>0, NextCodeIs
    <3>2. Needed(c) \in Nat /\ Needed(c) <= ReadSize
      BY <3>1, NeededIs
    <3>3. Len(Unread) <= ReadSize
      BY <1>0, <2>3, <3>1, <3>2
    <3>4. QED
      BY <2>1, <3>3
  <2>4. QED
    BY <2>1, <2>2, <2>3 DEF Incomplete
<1>6. CASE ProcessError
  BY <1>6 DEF ProcessError
<1>7. CASE ReadEnd
  BY <1>7 DEF ReadEnd
<1>8. CASE Close
  BY <1>8 DEF Close
<1>9. CASE UNCHANGED vars
  BY <1>0, <1>9 DEF vars
<1>10. QED
  BY <1>1, <1>2, <1>3, <1>4, <1>5, <1>6, <1>7, <1>8, <1>9 DEF Next, Reading

\* A read never passes the end of the array, over any number of reads.
THEOREM SpecBufferFits == Spec => []BufferFits
<1>1. BufferInv => BufferFits
  <2> SUFFICES ASSUME BufferInv, reader = "read" PROVE Len(pBuffer) + ReadSize <= BufferSize
    BY DEF BufferFits
  <2>1. Len(pBuffer) \in Nat /\ Len(pBuffer) <= ReadSize
    BY LenProperties DEF BufferInv, Filled, TypeOK
  <2>2. QED
    BY <2>1, FramingAssumption
<1>2. QED
  BY <1>1, InitBuffer, NextBuffer, PTL DEF Spec

-----------------------------------------------------------------------------
(* Framing *)

\* s is cut at message boundaries: every byte of it stands among all the bytes of
\* its message, at its place.
Framed(s) ==
    \A i \in 1..Len(s) :
        /\ s[i].at \in 1..SizeOf[s[i].msg.code]
        /\ \A j \in 1..SizeOf[s[i].msg.code] :
            /\ i - s[i].at + j \in 1..Len(s)
            /\ s[i - s[i].at + j] = [msg |-> s[i].msg, at |-> j]

LEMMA FramedEmpty == Framed(<<>>)
BY DEF Framed

LEMMA FramedBytes ==
    ASSUME NEW m \in Message
    PROVE  Framed(Bytes(m))
<1> DEFINE s == Bytes(m)  n == SizeOf[m.code]
<1>1. /\ n \in Nat /\ Len(s) = n
      /\ \A i \in 1..n : s[i] = [msg |-> m, at |-> i]
  BY BytesAre
<1> HIDE DEF s, n
<1>2. ASSUME NEW i \in 1..Len(s)
      PROVE  /\ s[i].at \in 1..SizeOf[s[i].msg.code]
             /\ \A j \in 1..SizeOf[s[i].msg.code] :
                 /\ i - s[i].at + j \in 1..Len(s)
                 /\ s[i - s[i].at + j] = [msg |-> s[i].msg, at |-> j]
  <2>1. s[i].msg = m /\ s[i].at = i
    BY <1>1
  <2>2. SizeOf[s[i].msg.code] = n
    BY <2>1 DEF n
  <2>3. ASSUME NEW j \in 1..n PROVE i - i + j = j /\ j \in 1..Len(s)
    BY <1>1
  <2>4. QED
    BY <1>1, <2>1, <2>2, <2>3
<1>3. QED
  BY <1>2 DEF Framed, s

\* The kind and place of a byte of s.
LEMMA ByteIs ==
    ASSUME NEW s \in Seq(Byte), NEW i \in 1..Len(s)
    PROVE  /\ s[i] \in Byte /\ s[i].msg \in Message /\ s[i].msg.code \in Code /\ s[i].at \in Nat
           /\ s[i].msg.num \in Nat
           /\ SizeOf[s[i].msg.code] \in Nat /\ SizeOf[s[i].msg.code] >= 1
<1>1. s[i] \in Byte
  BY ElementOfSeq
<1>2. s[i].msg \in Message /\ s[i].msg.code \in Code /\ s[i].at \in Nat /\ s[i].msg.num \in Nat
  BY <1>1 DEF Byte, Message
<1>3. QED
  BY <1>1, <1>2, NeededIs

\* Two framed parts are framed together.
LEMMA FramedConcat ==
    ASSUME NEW a \in Seq(Byte), NEW b \in Seq(Byte), Framed(a), Framed(b)
    PROVE  Framed(a \o b)
<1> DEFINE s == a \o b
<1>1. /\ Len(s) = Len(a) + Len(b)
      /\ \A i \in 1..Len(a) : s[i] = a[i]
      /\ \A i \in 1..Len(b) : s[Len(a) + i] = b[i]
  BY ConcatIs
<1> HIDE DEF s
<1>2. Len(a) \in Nat /\ Len(b) \in Nat
  BY LenProperties
<1>3. ASSUME NEW i \in 1..Len(s)
      PROVE  /\ s[i].at \in 1..SizeOf[s[i].msg.code]
             /\ \A j \in 1..SizeOf[s[i].msg.code] :
                 /\ i - s[i].at + j \in 1..Len(s)
                 /\ s[i - s[i].at + j] = [msg |-> s[i].msg, at |-> j]
  <2>1. CASE i \in 1..Len(a)
    <3>1. s[i] = a[i]
      BY <1>1, <2>1
    <3>2. /\ a[i].at \in 1..SizeOf[a[i].msg.code]
          /\ \A j \in 1..SizeOf[a[i].msg.code] :
              /\ i - a[i].at + j \in 1..Len(a)
              /\ a[i - a[i].at + j] = [msg |-> a[i].msg, at |-> j]
      BY <2>1 DEF Framed
    <3>3. 1..Len(a) \subseteq 1..Len(s)
      BY <1>1, <1>2
    <3>4. QED
      BY <1>1, <3>1, <3>2, <3>3
  <2>2. CASE i \notin 1..Len(a)
    <3> DEFINE k == i - Len(a)
    <3>1. k \in 1..Len(b) /\ i = Len(a) + k
      BY <1>1, <1>2, <2>2
    <3> HIDE DEF k
    <3>2. s[i] = b[k]
      BY <1>1, <3>1
    <3>3. /\ b[k].at \in 1..SizeOf[b[k].msg.code]
          /\ \A j \in 1..SizeOf[b[k].msg.code] :
              /\ k - b[k].at + j \in 1..Len(b)
              /\ b[k - b[k].at + j] = [msg |-> b[k].msg, at |-> j]
      BY <3>1 DEF Framed
    <3>4. b[k].at \in Nat /\ SizeOf[b[k].msg.code] \in Nat
      BY <3>1, ByteIs
    <3>5. ASSUME NEW j \in 1..SizeOf[b[k].msg.code]
          PROVE  /\ i - b[k].at + j \in 1..Len(s)
                 /\ s[i - b[k].at + j] = [msg |-> b[k].msg, at |-> j]
      <4>1. i - b[k].at + j = Len(a) + (k - b[k].at + j)
        BY <1>2, <3>1, <3>4
      <4>2. k - b[k].at + j \in 1..Len(b)
        BY <3>3
      <4>3. Len(a) + (k - b[k].at + j) \in 1..Len(s)
        BY <1>1, <1>2, <4>2
      <4>4. QED
        BY <1>1, <3>3, <4>1, <4>2, <4>3
    <3>6. QED
      BY <3>2, <3>3, <3>5
  <2>3. QED
    BY <2>1, <2>2
<1>4. QED
  BY <1>3 DEF Framed, s

\* What is framed begins with a whole message,
LEMMA FramedFirst ==
    ASSUME NEW s \in Seq(Byte), Framed(s), s # <<>>
    PROVE  /\ Len(s) \in Nat /\ Len(s) >= 1 /\ s[1].at = 1
           /\ SizeOf[s[1].msg.code] \in 1..Len(s)
           /\ \A j \in 1..SizeOf[s[1].msg.code] : s[j] = [msg |-> s[1].msg, at |-> j]
<1> DEFINE n == SizeOf[s[1].msg.code]
<1>1. Len(s) \in Nat /\ Len(s) >= 1
  BY LenProperties, EmptySeq
<1>2. 1 \in 1..Len(s)
  BY <1>1
<1>3. n \in Nat /\ n >= 1 /\ s[1].at \in Nat
  BY <1>2, ByteIs
<1>4. /\ s[1].at \in 1..n
      /\ \A j \in 1..n : /\ 1 - s[1].at + j \in 1..Len(s)
                         /\ s[1 - s[1].at + j] = [msg |-> s[1].msg, at |-> j]
  BY <1>2 DEF Framed
<1> HIDE DEF n
<1>5. s[1].at = 1
  <2>1. 1 \in 1..n
    BY <1>3
  <2>2. 1 - s[1].at + 1 \in 1..Len(s)
    BY <1>4, <2>1
  <2>3. QED
    BY <1>1, <1>3, <1>4, <2>2
<1>6. ASSUME NEW j \in 1..n PROVE j \in 1..Len(s) /\ s[j] = [msg |-> s[1].msg, at |-> j]
  <2>1. 1 - 1 + j = j
    BY <1>3
  <2>2. QED
    BY <1>4, <1>5, <2>1
<1>7. n \in 1..Len(s)
  <2>1. n \in 1..n
    BY <1>3
  <2>2. QED
    BY <1>6, <2>1
<1>8. QED
  BY <1>1, <1>5, <1>6, <1>7 DEF n

\* and is framed behind it.
LEMMA FramedRest ==
    ASSUME NEW s \in Seq(Byte), Framed(s), s # <<>>
    PROVE  Framed(Drop(s, SizeOf[s[1].msg.code]))
<1> DEFINE n == SizeOf[s[1].msg.code]  d == Drop(s, n)
<1>1. /\ Len(s) \in Nat /\ n \in 1..Len(s)
      /\ \A j \in 1..n : s[j] = [msg |-> s[1].msg, at |-> j]
  BY FramedFirst
<1>2. SizeOf[s[1].msg.code] = n
  OBVIOUS
<1> HIDE DEF n
<1>3. n \in 0..Len(s)
  BY <1>1
<1>4. /\ d \in Seq(Byte) /\ Len(d) = Len(s) - n
      /\ \A i \in 1..(Len(s) - n) : d[i] = s[n + i]
  BY <1>3, DropFacts
<1> HIDE DEF d
<1>5. ASSUME NEW i \in 1..Len(d)
      PROVE  /\ d[i].at \in 1..SizeOf[d[i].msg.code]
             /\ \A j \in 1..SizeOf[d[i].msg.code] :
                 /\ i - d[i].at + j \in 1..Len(d)
                 /\ d[i - d[i].at + j] = [msg |-> d[i].msg, at |-> j]
  <2> DEFINE at == d[i].at  z == SizeOf[d[i].msg.code]
  <2>1. n + i \in 1..Len(s) /\ d[i] = s[n + i] /\ i \in Nat
    BY <1>1, <1>4
  <2>2. /\ at \in 1..z
        /\ \A j \in 1..z : /\ (n + i) - at + j \in 1..Len(s)
                           /\ s[(n + i) - at + j] = [msg |-> d[i].msg, at |-> j]
    BY <2>1 DEF Framed
  <2>3. at \in Nat /\ z \in Nat
    BY ByteIs, <1>4
  <2>4. z = SizeOf[d[i].msg.code] /\ at = d[i].at
    OBVIOUS
  <2> HIDE DEF at, z
  <2>5. (n + i) - at + 1 > n
    <3> SUFFICES ASSUME (n + i) - at + 1 <= n PROVE FALSE
      BY <1>1, <2>1, <2>3
    <3> DEFINE p == (n + i) - at + 1
    <3>1. 1 \in 1..z
      BY <2>2, <2>3
    <3>2. p \in 1..Len(s) /\ s[p] = [msg |-> d[i].msg, at |-> 1]
      BY <2>2, <3>1
    <3>3. p \in 1..n
      BY <1>1, <3>2
    <3>4. s[p] = [msg |-> s[1].msg, at |-> p]
      BY <1>1, <3>3
    <3>5. p = 1 /\ d[i].msg = s[1].msg
      <4> HIDE DEF p
      <4>1. s[p].at = 1 /\ s[p].msg = d[i].msg
        BY <3>2
      <4>2. s[p].at = p /\ s[p].msg = s[1].msg
        BY <3>4
      <4>3. QED
        BY <4>1, <4>2
    <3>6. z = n
      BY <1>2, <2>4, <3>5
    <3>7. at = n + i
      BY <1>1, <2>1, <2>3, <3>5
    <3>8. QED
      BY <1>1, <2>1, <2>2, <2>3, <3>6, <3>7
  <2>6. ASSUME NEW j \in 1..z
        PROVE  i - at + j \in 1..Len(d) /\ d[i - at + j] = [msg |-> d[i].msg, at |-> j]
    <3>1. (n + i) - at + j = n + (i - at + j) /\ i - at + j \in Int
      BY <1>1, <2>1, <2>3
    <3>2. (n + i) - at + j \in 1..Len(s) /\ s[(n + i) - at + j] = [msg |-> d[i].msg, at |-> j]
      BY <2>2
    <3>3. i - at + j >= 1
      BY <1>1, <2>1, <2>3, <2>5
    <3>4. i - at + j \in 1..(Len(s) - n)
      BY <1>1, <3>1, <3>2, <3>3
    <3>5. QED
      BY <1>4, <3>1, <3>2, <3>4
  <2>7. QED
    BY <2>2, <2>4, <2>6
<1>6. QED
  BY <1>5 DEF Framed, d, n

\* What is framed and too short for its first message to be handled is one
\* backtrace: the message itself is there, only the header asked for behind it is not.
LEMMA FramedShort ==
    ASSUME NEW s \in Seq(Byte), Framed(s), s # <<>>, Len(s) < Needed(s[1].msg.code)
    PROVE  \A i \in 1..Len(s) : s[i].msg.code = "backtrace"
<1> DEFINE c == s[1].msg.code  n == SizeOf[c]  d == Drop(s, n)
<1>1. /\ Len(s) \in Nat /\ Len(s) >= 1 /\ n \in 1..Len(s)
      /\ \A j \in 1..n : s[j] = [msg |-> s[1].msg, at |-> j]
  BY FramedFirst
<1>2. c \in Code
  <2>1. 1 \in 1..Len(s)
    BY <1>1
  <2>2. QED
    BY <2>1, ByteIs
<1>3. Len(s) < Needed(c) /\ Framed(d)
  BY FramedRest
<1>4. n \in 0..Len(s)
  BY <1>1
<1>5. d \in Seq(Byte) /\ Len(d) = Len(s) - n
  <2> HIDE DEF n
  <2>1. QED
    BY <1>4, DropFacts
<1> HIDE DEF d
<1>6. c = "backtrace"
  <2>1. Needed(c) = IF c = "backtrace" THEN n + Header ELSE n
    BY DEF Needed
  <2> HIDE DEF c, n
  <2>2. QED
    BY <1>1, <1>3, <2>1
<1>7. Len(s) < n + Header /\ Header \in Nat
  BY <1>3, <1>6, FramingAssumption DEF Needed
<1>8. d = <<>>
  <2> SUFFICES ASSUME d # <<>> PROVE FALSE
    OBVIOUS
  <2>1. Len(d) \in Nat /\ SizeOf[d[1].msg.code] \in 1..Len(d) /\ Len(d) >= 1
    BY <1>3, <1>5, FramedFirst
  <2>2. d[1].msg.code \in Code
    <3>1. 1 \in 1..Len(d)
      BY <2>1
    <3>2. QED
      BY <1>5, <3>1, ByteIs
  <2>3. Header <= SizeOf[d[1].msg.code]
    BY <2>2, FramingAssumption
  <2> HIDE DEF n
  <2>4. QED
    BY <1>1, <1>5, <1>7, <2>1, <2>3
<1>9. Len(s) = n
  <2>1. Len(d) = 0
    BY <1>8
  <2> HIDE DEF n
  <2>2. QED
    BY <1>1, <1>5, <2>1
<1>10. ASSUME NEW i \in 1..Len(s) PROVE s[i].msg.code = "backtrace"
  <2>1. i \in 1..n
    BY <1>9
  <2>2. s[i] = [msg |-> s[1].msg, at |-> i]
    BY <1>1, <2>1
  <2>3. s[i].msg = s[1].msg
    BY <2>2
  <2>4. QED
    BY <1>6, <2>3
<1>11. QED
  BY <1>10

-----------------------------------------------------------------------------
(* The reader stays at message boundaries *)

\* Where the stream of a pipe or of datagrams is cut: everything on its way, what is
\* unread together with what a read finds, and each of the two by itself once a read
\* has taken all there was.
Cut ==
    /\ Framed(batch) /\ Len(batch) < ReadSize
    /\ \A d \in datagrams : Framed(d) /\ Len(d) < ReadSize
    /\ reader \in {"read", "parse"} => Framed(Unread \o inbox)
    /\ reader \in {"idle", "opening", "closing"} => Framed(inbox)
    /\ reader = "parse" /\ Len(pBuffer) < ReadSize => Framed(Unread) /\ Framed(inbox)

\* what each transport uses
Media ==
    /\ medium # <<>> => Tcp
    /\ datagrams # {} => Udp
    /\ reader = "opening" => Piped

FrameInv == BufferInv /\ Media /\ (~Tcp => Cut)

LEMMA InitFrame == Init => FrameInv
<1> SUFFICES ASSUME Init PROVE FrameInv
  OBVIOUS
<1>1. BufferInv
  BY InitBuffer
<1>2. Len(<<>>) = 0 /\ ReadSize \in Nat /\ ReadSize > 0
  BY FramingAssumption
<1>3. Cut
  BY <1>2, FramedEmpty DEF Init, Cut
<1>4. QED
  BY <1>1, <1>3 DEF Init, FrameInv, Media

\* the reader is in sync
LEMMA CutInSync == FrameInv => InSync
<1> SUFFICES ASSUME FrameInv, ~Tcp, reader = "parse", Unread # <<>>
             PROVE  Unread[1].at = 1
  BY DEF InSync, Garbled
<1>1. TypeOK /\ Framed(Unread \o inbox)
  BY DEF FrameInv, Cut, BufferInv
<1>2. Unread \in Seq(Byte) /\ inbox \in Seq(Byte)
  BY <1>1, DropFacts DEF TypeOK, Unread
<1> DEFINE u == Unread  s == u \o inbox
<1> HIDE DEF u
<1>3. u \in Seq(Byte) /\ u # <<>> /\ Framed(s)
  BY <1>1, <1>2 DEF u
<1>4. Len(u) \in Nat /\ Len(u) >= 1
  BY <1>3, LenProperties, EmptySeq
<1>5. s \in Seq(Byte) /\ Len(s) = Len(u) + Len(inbox) /\ s[1] = u[1]
  <2>1. /\ s \in Seq(Byte) /\ Len(s) = Len(u) + Len(inbox)
        /\ \A i \in 1..Len(u) : s[i] = u[i]
    BY <1>2, <1>3, ConcatIs
  <2>2. 1 \in 1..Len(u)
    BY <1>4
  <2>3. QED
    BY <2>1, <2>2
<1>6. s # <<>>
  <2>1. Len(s) # 0
    BY <1>2, <1>4, <1>5, LenProperties
  <2>2. QED
    BY <2>1
<1> HIDE DEF s
<1>7. s[1].at = 1
  BY <1>3, <1>5, <1>6, FramedFirst
<1>8. QED
  BY <1>5, <1>7 DEF u

\* What is unread after each step of the reader.
LEMMA UnreadIs ==
    ASSUME BufferInv
    PROVE  /\ Unread \in Seq(Byte) /\ Len(Unread) = Len(pBuffer) - iSizeRead
           /\ iSizeRead = 0 => Unread = pBuffer
           /\ reader \in {"idle", "opening"} => Unread = <<>>
<1>1. TypeOK /\ Filled
  BY DEF BufferInv
<1>2. Unread \in Seq(Byte) /\ Len(Unread) = Len(pBuffer) - iSizeRead
  BY <1>1, DropFacts DEF TypeOK, Unread
<1>3. iSizeRead = 0 => Unread = pBuffer
  BY <1>1, DropNone DEF TypeOK, Unread
<1>4. QED
  BY <1>1, <1>2, <1>3 DEF Filled

\* ProcessMsg in sync: what is left is what follows the message
LEMMA MessageDropped ==
    ASSUME BufferInv, ~Garbled, ProcessMsg
    PROVE  /\ Unread # <<>>
           /\ SizeOf[Unread[1].msg.code] \in 0..Len(Unread)
           /\ Unread' = Drop(Unread, SizeOf[Unread[1].msg.code])
           /\ handled' = Append(handled, Unread[1].msg)
           /\ Unread[1].msg \in Message
<1>1. PICK c \in NextCode :
        /\ Len(Unread) >= Needed(c)
        /\ handled' = Append(handled, IF Garbled THEN [num |-> 0, code |-> c] ELSE Unread[1].msg)
        /\ iSizeRead' = iSizeRead + SizeOf[c]
  BY DEF ProcessMsg
<1>2. /\ Unread # <<>> /\ c \in Code /\ Len(Unread) = Len(pBuffer) - iSizeRead
      /\ Len(Unread) \in Nat /\ c = Unread[1].msg.code /\ Unread[1].msg \in Message
  BY NextCodeIs DEF BufferInv
<1>3. SizeOf[c] \in Nat /\ SizeOf[c] <= Needed(c) /\ Needed(c) \in Nat
  BY <1>2, NeededIs
<1>4. SizeOf[c] \in 0..Len(Unread)
  BY <1>1, <1>2, <1>3
<1>5. /\ pBuffer \in Seq(Byte) /\ iSizeRead \in 0..Len(pBuffer)
      /\ SizeOf[c] \in 0..(Len(pBuffer) - iSizeRead)
  BY <1>2, <1>4 DEF BufferInv, TypeOK
<1>6. Drop(Drop(pBuffer, iSizeRead), SizeOf[c]) = Drop(pBuffer, iSizeRead + SizeOf[c])
  BY <1>5, DropTwice
<1>7. Unread' = Drop(Unread, SizeOf[c])
  BY <1>1, <1>6 DEF ProcessMsg, readerVars, Unread
<1>8. QED
  BY <1>1, <1>2, <1>4, <1>7

\* what Read takes: all there is, or as much as a read can
LEMMA ReadIs ==
    ASSUME BufferInv, Read
    PROVE  /\ Unread' = pBuffer' /\ Unread' \o inbox' = Unread \o inbox
           /\ Len(pBuffer') < ReadSize => inbox' = <<>>
           /\ Len(inbox) < ReadSize => inbox' = <<>>
           /\ inbox' = <<>> => Unread' = Unread \o inbox
<1> DEFINE n == IF Len(inbox) < ReadSize THEN Len(inbox) ELSE ReadSize
           f == SubSeq(inbox, 1, n)  d == Drop(inbox, n)
<1>1. /\ pBuffer \in Seq(Byte) /\ inbox \in Seq(Byte) /\ Len(inbox) \in Nat /\ ReadSize \in Nat
      /\ iSizeRead = 0 /\ Len(pBuffer) \in Nat
  BY LenProperties, FramingAssumption DEF BufferInv, TypeOK, Filled, Read
<1>2. n \in 0..Len(inbox) /\ (Len(inbox) < ReadSize => n = Len(inbox)) /\ (n < ReadSize => n = Len(inbox))
  BY <1>1
<1>3. /\ pBuffer' = pBuffer \o f /\ inbox' = d /\ iSizeRead' = 0
  BY DEF Read
<1> HIDE DEF n
<1>4. /\ f \in Seq(Byte) /\ Len(f) = n /\ f \o d = inbox
      /\ d \in Seq(Byte) /\ Len(d) = Len(inbox) - n
  BY <1>1, <1>2, SplitSeq, DropFacts
<1> HIDE DEF f, d
<1>5. pBuffer \o f \in Seq(Byte) /\ Len(pBuffer \o f) = Len(pBuffer) + n
  BY <1>1, <1>4, ConcatIs
<1>6. Drop(pBuffer \o f, 0) = pBuffer \o f
  BY <1>5, DropNone
<1>7. Unread' = pBuffer'
  BY <1>3, <1>6 DEF Unread
<1>8. Unread = pBuffer
  BY <1>1, UnreadIs
<1>9. (pBuffer \o f) \o d = pBuffer \o (f \o d)
  <2>1. \A a, b, c \in Seq(Byte) : (a \o b) \o c = a \o (b \o c)
    BY ConcatAssociative
  <2>2. QED
    BY ZenonT(30), <1>1, <1>4, <2>1
<1>10. Unread' \o inbox' = Unread \o inbox
  BY <1>3, <1>4, <1>7, <1>8, <1>9
<1>11. n = Len(inbox) => inbox' = <<>>
  <2>1. n = Len(inbox) => Len(d) = 0
    BY <1>1, <1>4
  <2>2. QED
    BY <1>3, <1>4, <2>1, EmptySeq
<1>12. Len(pBuffer') < ReadSize => n < ReadSize
  BY <1>1, <1>2, <1>3, <1>5
<1>13. inbox' = <<>> => Unread' = Unread \o inbox
  <2>1. pBuffer \o f \o <<>> = pBuffer \o f
    BY <1>5, ConcatEmptySeq
  <2>2. QED
    BY <1>3, <1>7, <1>10, <2>1
<1>14. QED
  BY <1>2, <1>7, <1>10, <1>11, <1>12, <1>13

\* The build does not change.
LEMMA SameMode == [Next]_vars => m_iTransferMode' = m_iTransferMode
<1> SUFFICES ASSUME [Next]_vars PROVE m_iTransferMode' = m_iTransferMode
  OBVIOUS
<1>1. CASE Writing
  BY <1>1 DEF Writing, WriterOpens, Accept, WriteBatch, WriteBroken, Arrive, ArriveDatagram,
     WriterCloses, writerVars
<1>2. CASE Reading
  BY <1>2 DEF Reading, Open, Read, ProcessMsg, KeepRest, ProcessError, ReadEnd, Close, writerVars
<1>3. QED
  BY <1>1, <1>2 DEF Next, vars, writerVars

\* Media holds throughout.
LEMMA NextMedia == Media /\ [Next]_vars => Media'
<1> SUFFICES ASSUME Media, [Next]_vars PROVE Media'
  OBVIOUS
<1> USE DEF Media, readerVars, writerVars, mediumVars, Piped, Tcp, Udp
<1>1. CASE WriterOpens
  BY <1>1 DEF WriterOpens
<1>2. CASE \E c \in Code : Accept(c)
  BY <1>2 DEF Accept
<1>3. CASE WriteBatch
  BY <1>3 DEF WriteBatch
<1>4. CASE WriteBroken
  BY <1>4 DEF WriteBroken
<1>5. CASE Arrive
  BY <1>5 DEF Arrive
<1>6. CASE ArriveDatagram
  BY <1>6 DEF ArriveDatagram
<1>7. CASE WriterCloses
  BY <1>7 DEF WriterCloses
<1>8. CASE Open \/ Read \/ ProcessMsg
  BY <1>8 DEF Open, Read, ProcessMsg
<1>9. CASE KeepRest \/ ProcessError \/ ReadEnd \/ Close
  BY <1>9 DEF KeepRest, ProcessError, ReadEnd, Close
<1>10. CASE UNCHANGED vars
  BY <1>10 DEF vars
<1>11. QED
  BY <1>1, <1>2, <1>3, <1>4, <1>5, <1>6, <1>7, <1>8, <1>9, <1>10 DEF Next, Writing, Reading

\* No message needs more than a read returns.
LEMMA IncompleteIs ==
    ASSUME BufferInv, Incomplete
    PROVE  Len(Unread) < ReadSize
<1>0. TypeOK /\ ReadSize \in Nat /\ ReadSize > 0
  BY FramingAssumption DEF BufferInv
<1>1. CASE Unread = <<>>
  BY <1>0, <1>1
<1>2. ASSUME NEW c \in NextCode, Len(Unread) < Needed(c) PROVE Len(Unread) < ReadSize
  <2>1. c \in Code /\ Len(Unread) \in Nat
    BY <1>0, NextCodeIs
  <2>2. Needed(c) \in Nat /\ Needed(c) <= ReadSize
    BY <2>1, NeededIs
  <2>3. QED
    BY <1>0, <1>2, <2>1, <2>2
<1>3. QED
  BY <1>1, <1>2 DEF Incomplete

\* The stream stays cut, every read and every drop of doReadMsg included: an error
\* comes only with the whole of what was read in the array.
LEMMA NextFrame == FrameInv /\ [Next]_vars => FrameInv'
<1> SUFFICES ASSUME FrameInv, [Next]_vars PROVE FrameInv'
  OBVIOUS
<1>m. Tcp' = Tcp /\ BufferInv' /\ Media'
  <2>1. m_iTransferMode' = m_iTransferMode
    BY SameMode
  <2>2. QED
    BY <2>1, NextBuffer, NextMedia DEF FrameInv, Tcp
<1> SUFFICES ASSUME ~Tcp PROVE Cut'
  BY <1>m DEF FrameInv
<1>0. BufferInv /\ TypeOK /\ Filled /\ Media /\ Cut /\ InSync
  BY CutInSync DEF FrameInv, BufferInv
<1>u. /\ Unread \in Seq(Byte) /\ inbox \in Seq(Byte) /\ batch \in Seq(Byte)
      /\ iSizeRead = 0 => Unread = pBuffer
      /\ reader \in {"idle", "opening"} => Unread = <<>>
      /\ ReadSize \in Nat /\ ReadSize > 0 /\ Len(<<>>) = 0
  BY <1>0, UnreadIs, FramingAssumption DEF TypeOK
<1>e. \A s \in Seq(Byte) : <<>> \o s = s /\ s \o <<>> = s
  BY ConcatEmptySeq
<1>f. \A a, b \in Seq(Byte) : Framed(a) /\ Framed(b) => Framed(a \o b)
  BY FramedConcat
<1>a. \A a, b, c \in Seq(Byte) : (a \o b) \o c = a \o (b \o c)
  BY ConcatAssociative
<1> USE DEF Cut, readerVars, writerVars, mediumVars
<1>1. CASE WriterOpens
  <2>1. /\ inbox' = inbox /\ pBuffer' = pBuffer /\ iSizeRead' = iSizeRead /\ batch' = batch
        /\ datagrams' = datagrams
        /\ reader' = reader \/ (reader = "opening" /\ reader' = "read")
    BY <1>1 DEF WriterOpens
  <2>2. Unread' = Unread
    BY <2>1 DEF Unread
  <2>3. QED
    BY <1>0, <1>u, <1>e, <2>1, <2>2
<1>2. ASSUME NEW c \in Code, Accept(c) PROVE Cut'
  <2> DEFINE m == [num |-> Len(sent) + 1, code |-> c]
  <2>1. m \in Message /\ m.code = c
    BY <1>0, LenProperties DEF Message, TypeOK
  <2>2. batch' = batch \o Bytes(m) /\ Len(batch) + SizeOf[c] < ReadSize
    BY <1>2 DEF Accept
  <2> HIDE DEF m
  <2>3. Bytes(m) \in Seq(Byte) /\ Len(Bytes(m)) = SizeOf[c] /\ Framed(Bytes(m))
    BY <2>1, BytesAre, FramedBytes
  <2>4. Len(batch') = Len(batch) + SizeOf[c]
    BY <1>u, <2>2, <2>3, ConcatIs
  <2>5. Framed(batch')
    BY <1>0, <1>u, <1>f, <2>2, <2>3
  <2>6. Len(batch') < ReadSize
    BY <2>2, <2>4
  <2>7. /\ inbox' = inbox /\ pBuffer' = pBuffer /\ iSizeRead' = iSizeRead
        /\ datagrams' = datagrams /\ reader' = reader
    BY <1>2 DEF Accept
  <2>8. Unread' = Unread
    BY <2>7 DEF Unread
  <2>9. QED
    BY <1>0, <2>5, <2>6, <2>7, <2>8
<1>3. CASE WriteBatch
  <2>1. /\ inbox' = IF Piped THEN inbox \o batch ELSE inbox
        /\ datagrams' = (IF Udp THEN datagrams \cup {batch} ELSE datagrams)
        /\ batch' = <<>> /\ reader' = reader /\ pBuffer' = pBuffer /\ iSizeRead' = iSizeRead
    BY <1>3 DEF WriteBatch
  <2>2. Unread' = Unread
    BY <2>1 DEF Unread
  <2>3. Framed(batch') /\ Len(batch') < ReadSize
    BY <1>u, <2>1, FramedEmpty
  <2>4. \A d \in datagrams' : Framed(d) /\ Len(d) < ReadSize
    BY <1>0, <2>1
  <2>5. Framed(inbox) => Framed(inbox')
    BY <1>0, <1>f, <1>u, <2>1
  <2>6. Framed(Unread \o inbox) => Framed(Unread \o inbox')
    <3>1. Unread \o inbox \in Seq(Byte)
      BY <1>u, ConcatIs
    <3>2. (Unread \o inbox) \o batch = Unread \o (inbox \o batch)
      BY <1>a, <1>u
    <3>3. QED
      BY <1>0, <1>f, <1>u, <2>1, <3>1, <3>2
  <2>7. QED
    BY <1>0, <2>1, <2>2, <2>3, <2>4, <2>5, <2>6
<1>4. CASE WriteBroken
  <2>1. /\ inbox' = <<>> /\ batch' = <<>> /\ datagrams' = datagrams /\ reader' = "idle"
    BY <1>4 DEF WriteBroken
  <2>2. QED
    BY <1>0, <1>u, <2>1, FramedEmpty
<1>5. CASE Arrive
  BY <1>0, <1>5 DEF Arrive, Media
<1>6. CASE ArriveDatagram
  <2>1. PICK d \in datagrams : inbox' = d /\ datagrams' = datagrams \ {d}
    BY <1>6 DEF ArriveDatagram
  <2>2. /\ reader = "idle" /\ reader' = "read" /\ pBuffer' = pBuffer /\ iSizeRead' = iSizeRead
        /\ batch' = batch
    BY <1>6 DEF ArriveDatagram
  <2>3. Unread' = Unread /\ Unread = <<>>
    BY <1>u, <2>2 DEF Unread
  <2>4. d \in Seq(Byte) /\ Framed(d)
    BY <1>0 DEF TypeOK
  <2>5. Framed(Unread' \o inbox')
    BY <1>e, <2>1, <2>3, <2>4
  <2>6. QED
    BY <1>0, <2>1, <2>2, <2>5
<1>7. CASE WriterCloses
  <2>1. /\ inbox' = IF Piped /\ reader = "idle" THEN <<>> ELSE inbox
        /\ batch' = batch /\ datagrams' = datagrams /\ reader' = reader /\ pBuffer' = pBuffer
        /\ iSizeRead' = iSizeRead
    BY <1>7 DEF WriterCloses
  <2>2. Unread' = Unread
    BY <2>1 DEF Unread
  <2>3. QED
    BY <1>0, <2>1, <2>2, FramedEmpty
<1>8. CASE Open
  <2>1. /\ inbox' = inbox /\ pBuffer' = pBuffer /\ iSizeRead' = iSizeRead /\ batch' = batch
        /\ datagrams' = datagrams /\ reader = "idle" /\ reader' \in {"read", "opening"}
    BY <1>8 DEF Open
  <2>2. Unread' = Unread
    BY <2>1 DEF Unread
  <2>3. QED
    BY <1>0, <1>u, <1>e, <2>1, <2>2
<1>9. CASE Read
  <2>1. batch' = batch /\ datagrams' = datagrams /\ reader = "read" /\ reader' = "parse"
    BY <1>9 DEF Read
  <2>2. Framed(Unread' \o inbox')
    BY <1>0, <1>9, <2>1, ReadIs
  <2>3. Len(pBuffer') < ReadSize => Framed(Unread') /\ Framed(inbox')
    <3>1. Len(pBuffer') < ReadSize => inbox' = <<>> /\ Unread' = Unread \o inbox
      BY <1>0, <1>9, ReadIs
    <3>2. QED
      BY <1>0, <2>1, <3>1, FramedEmpty
  <2>4. QED
    BY <1>0, <2>1, <2>2, <2>3
<1>10. CASE ProcessMsg
  <2>1. /\ reader = "parse" /\ reader' = "parse" /\ inbox' = inbox /\ pBuffer' = pBuffer
        /\ batch' = batch /\ datagrams' = datagrams
    BY <1>10 DEF ProcessMsg
  <2> DEFINE n == SizeOf[Unread[1].msg.code]
  <2>2. Unread # <<>> /\ n \in 0..Len(Unread) /\ Unread' = Drop(Unread, n)
    BY <1>0, <1>10, <2>1, MessageDropped DEF InSync
  <2>3. Framed(Unread' \o inbox')
    <3> DEFINE u == Unread  s == u \o inbox
    <3>1. u \in Seq(Byte) /\ Framed(s) /\ n = SizeOf[u[1].msg.code] /\ u # <<>> /\ n \in 0..Len(u)
      BY <1>0, <1>u, <2>1, <2>2
    <3> HIDE DEF u, n
    <3>2. Len(u) \in Nat /\ Len(u) >= 1 /\ Len(inbox) \in Nat
      BY <1>u, <3>1, LenProperties, EmptySeq
    <3>3. s \in Seq(Byte) /\ Len(s) = Len(u) + Len(inbox) /\ s[1] = u[1]
      <4>1. /\ s \in Seq(Byte) /\ Len(s) = Len(u) + Len(inbox)
            /\ \A i \in 1..Len(u) : s[i] = u[i]
        BY <1>u, <3>1, ConcatIs
      <4>2. 1 \in 1..Len(u)
        BY <3>2
      <4>3. QED
        BY <4>1, <4>2
    <3>4. Drop(s, n) = Drop(u, n) \o inbox
      BY <1>u, <3>1, DropConcat
    <3> HIDE DEF s
    <3>5. s # <<>>
      BY <3>2, <3>3
    <3>6. Framed(Drop(s, n))
      BY <3>1, <3>3, <3>5, FramedRest
    <3>7. QED
      BY <2>1, <2>2, <3>4, <3>6 DEF u, n
  <2>4. Framed(Unread) => Framed(Unread')
    BY <1>u, <2>2, FramedRest
  <2>5. QED
    BY <1>0, <2>1, <2>3, <2>4
<1>11. CASE KeepRest
  <2>1. /\ pBuffer' = Unread /\ iSizeRead' = 0 /\ reader = "parse" /\ reader' = "read"
        /\ inbox' = inbox /\ batch' = batch /\ datagrams' = datagrams
    BY <1>11 DEF KeepRest
  <2>2. Unread' = Unread
    <3>1. Drop(Unread, 0) = Unread
      BY <1>u, DropNone
    <3>2. Unread' = Drop(pBuffer', iSizeRead')
      BY DEF Unread
    <3>3. QED
      BY <2>1, <3>1, <3>2
  <2>3. QED
    BY <1>0, <2>1, <2>2
<1>12. CASE ProcessError
  <2>1. /\ reader = "parse" /\ reader' = "closing" /\ inbox' = inbox /\ batch' = batch
        /\ datagrams' = datagrams
    BY <1>12 DEF ProcessError
  <2>2. Incomplete /\ Unread = pBuffer
    BY <1>0, <1>u, <1>12 DEF ProcessError, InSync
  <2>3. Len(pBuffer) < ReadSize
    BY <1>0, <2>2, IncompleteIs
  <2>4. QED
    BY <1>0, <2>1, <2>3
<1>13. CASE ReadEnd
  <2>1. /\ reader' = "closing" /\ inbox' = <<>> /\ batch' = batch /\ datagrams' = datagrams
    BY <1>13 DEF ReadEnd
  <2>2. QED
    BY <1>0, <2>1, FramedEmpty
<1>14. CASE Close
  <2>1. /\ reader = "closing" /\ reader' = "idle" /\ batch' = batch /\ datagrams' = datagrams
        /\ inbox' \in {<<>>, inbox}
    BY <1>14 DEF Close
  <2>2. QED
    BY <1>0, <2>1, FramedEmpty
<1>15. CASE UNCHANGED vars
  <2>1. Unread' = Unread
    BY <1>15 DEF vars, Unread
  <2>2. QED
    BY <1>0, <1>15, <2>1 DEF vars
<1>16. QED
  BY <1>1, <1>2, <1>3, <1>4, <1>5, <1>6, <1>7, <1>8, <1>9, <1>10, <1>11, <1>12, <1>13, <1>14,
     <1>15 DEF Next, Writing, Reading

\* The reader of a pipe or of datagrams is never in the middle of a message, for every
\* mix of sizes, batches, reads and processes.
THEOREM SpecInSync == Spec => []InSync
BY InitFrame, NextFrame, CutInSync, PTL DEF Spec

-----------------------------------------------------------------------------
(* The order of the numbers *)

\* the numbers of the messages s has a byte of, and of those it has the first byte of
Nums(s) == {s[i].msg.num : i \in 1..Len(s)}
Starts(s) == {s[i].msg.num : i \in {k \in 1..Len(s) : s[k].at = 1}}

\* The numbers A come before the numbers B; any: in any order, but none twice.
Ahead(A, B, any) == \A a \in A, b \in B : a # b /\ (~any => a < b)

\* Where a message begins in s, none of its bytes and no later one was before.
Ordered(s, any) ==
    \A i, j \in 1..Len(s) :
        i < j /\ s[j].at = 1 =>
            s[i].msg.num # s[j].msg.num /\ (~any => s[i].msg.num < s[j].msg.num)

LEMMA NoNums == Nums(<<>>) = {} /\ Starts(<<>>) = {} /\ \A any \in BOOLEAN : Ordered(<<>>, any)
<1>1. Len(<<>>) = 0
  OBVIOUS
<1>2. 1..0 = {}
  OBVIOUS
<1>3. Nums(<<>>) = {} /\ Starts(<<>>) = {}
  BY <1>1, <1>2 DEF Nums, Starts
<1>4. ASSUME NEW any \in BOOLEAN PROVE Ordered(<<>>, any)
  BY <1>1, <1>2 DEF Ordered
<1>5. QED
  BY <1>3, <1>4

LEMMA NumsAre ==
    ASSUME NEW s \in Seq(Byte)
    PROVE  Nums(s) \subseteq Nat /\ Starts(s) \subseteq Nums(s)
<1>1. \A i \in 1..Len(s) : s[i].msg.num \in Nat
  BY ByteIs
<1>2. QED
  BY <1>1 DEF Nums, Starts

\* The bytes of a message have one number.
LEMMA BytesNums ==
    ASSUME NEW m \in Message, NEW any \in BOOLEAN
    PROVE  Nums(Bytes(m)) = {m.num} /\ Starts(Bytes(m)) = {m.num} /\ Ordered(Bytes(m), any)
<1> DEFINE s == Bytes(m)  n == SizeOf[m.code]
<1>1. /\ n \in Nat /\ n >= 1 /\ Len(s) = n
      /\ \A i \in 1..n : s[i] = [msg |-> m, at |-> i]
  BY BytesAre
<1> HIDE DEF s, n
<1>2. \A i \in 1..Len(s) : s[i].msg = m /\ s[i].at = i
  BY <1>1
<1>3. 1 \in 1..Len(s)
  BY <1>1
<1>4. Nums(s) = {m.num}
  BY <1>2, <1>3 DEF Nums
<1>5. Starts(s) = {m.num}
  BY <1>2, <1>3 DEF Starts
<1>6. Ordered(s, any)
  <2> SUFFICES ASSUME NEW i \in 1..Len(s), NEW j \in 1..Len(s), i < j, s[j].at = 1
               PROVE  FALSE
    BY DEF Ordered
  <2>1. j = 1
    BY <1>2
  <2>2. QED
    BY <1>1, <2>1
<1>7. QED
  BY <1>4, <1>5, <1>6 DEF s

\* A concatenation has the numbers of both parts, and is ordered when they are and the
\* first comes before the second.
LEMMA ConcatNums ==
    ASSUME NEW a \in Seq(Byte), NEW b \in Seq(Byte), NEW any \in BOOLEAN
    PROVE  /\ Nums(a \o b) = Nums(a) \cup Nums(b)
           /\ Starts(a \o b) = Starts(a) \cup Starts(b)
           /\ Ordered(a \o b, any) <=>
                Ordered(a, any) /\ Ordered(b, any) /\ Ahead(Nums(a), Starts(b), any)
<1> DEFINE s == a \o b
<1>1. /\ s \in Seq(Byte) /\ Len(s) = Len(a) + Len(b)
      /\ \A i \in 1..Len(a) : s[i] = a[i]
      /\ \A i \in 1..Len(b) : s[Len(a) + i] = b[i]
  BY ConcatIs
<1> HIDE DEF s
<1>2. Len(a) \in Nat /\ Len(b) \in Nat
  BY LenProperties
<1>3. ASSUME NEW i \in 1..Len(s)
      PROVE  \/ i \in 1..Len(a) /\ s[i] = a[i]
             \/ i \notin 1..Len(a) /\ \E k \in 1..Len(b) : i = Len(a) + k /\ s[i] = b[k]
  <2>1. CASE i \in 1..Len(a)
    BY <1>1, <2>1
  <2>2. CASE i \notin 1..Len(a)
    <3>1. i - Len(a) \in 1..Len(b) /\ i = Len(a) + (i - Len(a))
      BY <1>1, <1>2, <2>2
    <3>2. s[i] = b[i - Len(a)]
      BY <1>1, <3>1
    <3>3. QED
      BY <2>2, <3>1, <3>2
  <2>3. QED
    BY <2>1, <2>2
<1>4. /\ \A i \in 1..Len(a) : i \in 1..Len(s)
      /\ \A i \in 1..Len(b) : Len(a) + i \in 1..Len(s)
  BY <1>1, <1>2
<1>5. Nums(s) = Nums(a) \cup Nums(b)
  <2>1. ASSUME NEW x \in Nums(s) PROVE x \in Nums(a) \cup Nums(b)
    BY <1>3 DEF Nums
  <2>2. ASSUME NEW x \in Nums(a) \cup Nums(b) PROVE x \in Nums(s)
    <3>1. CASE x \in Nums(a)
      BY <1>1, <1>4, <3>1 DEF Nums
    <3>2. CASE x \in Nums(b)
      <4>1. PICK k \in 1..Len(b) : x = b[k].msg.num
        BY <3>2 DEF Nums
      <4>2. Len(a) + k \in 1..Len(s) /\ s[Len(a) + k].msg.num = x
        BY <1>1, <1>4, <4>1
      <4>3. QED
        BY <4>2 DEF Nums
    <3>3. QED
      BY <2>2, <3>1, <3>2
  <2>3. QED
    BY <2>1, <2>2
<1>6. Starts(s) = Starts(a) \cup Starts(b)
  <2>1. ASSUME NEW x \in Starts(s) PROVE x \in Starts(a) \cup Starts(b)
    <3>1. PICK i \in 1..Len(s) : s[i].at = 1 /\ x = s[i].msg.num
      BY <2>1 DEF Starts
    <3>2. QED
      BY <1>3, <3>1 DEF Starts
  <2>2. ASSUME NEW x \in Starts(a) \cup Starts(b) PROVE x \in Starts(s)
    <3>1. CASE x \in Starts(a)
      BY <1>1, <1>4, <3>1 DEF Starts
    <3>2. CASE x \in Starts(b)
      <4>1. PICK k \in 1..Len(b) : b[k].at = 1 /\ x = b[k].msg.num
        BY <3>2 DEF Starts
      <4>2. Len(a) + k \in 1..Len(s) /\ s[Len(a) + k].at = 1 /\ s[Len(a) + k].msg.num = x
        BY <1>1, <1>4, <4>1
      <4>3. QED
        BY <4>2 DEF Starts
    <3>3. QED
      BY <2>2, <3>1, <3>2
  <2>3. QED
    BY <2>1, <2>2
<1>7. ASSUME Ordered(s, any)
      PROVE  Ordered(a, any) /\ Ordered(b, any) /\ Ahead(Nums(a), Starts(b), any)
  <2>1. Ordered(a, any)
    BY <1>1, <1>4, <1>7 DEF Ordered
  <2>2. ASSUME NEW i \in 1..Len(b), NEW j \in 1..Len(b), i < j, b[j].at = 1
        PROVE  b[i].msg.num # b[j].msg.num /\ (~any => b[i].msg.num < b[j].msg.num)
    <3>1. /\ Len(a) + i \in 1..Len(s) /\ Len(a) + j \in 1..Len(s) /\ Len(a) + i < Len(a) + j
          /\ s[Len(a) + i] = b[i] /\ s[Len(a) + j] = b[j]
      BY <1>1, <1>2, <1>4, <2>2
    <3>2. QED
      BY <1>7, <2>2, <3>1 DEF Ordered
  <2>3. ASSUME NEW i \in 1..Len(a), NEW j \in 1..Len(b), b[j].at = 1
        PROVE  a[i].msg.num # b[j].msg.num /\ (~any => a[i].msg.num < b[j].msg.num)
    <3>1. /\ i \in 1..Len(s) /\ Len(a) + j \in 1..Len(s) /\ i < Len(a) + j
          /\ s[i] = a[i] /\ s[Len(a) + j] = b[j]
      BY <1>1, <1>2, <1>4, <2>3
    <3>2. QED
      BY <1>7, <2>3, <3>1 DEF Ordered
  <2>4. Ordered(b, any)
    BY <2>2 DEF Ordered
  <2>5. Ahead(Nums(a), Starts(b), any)
    BY <2>3 DEF Ahead, Nums, Starts
  <2>6. QED
    BY <2>1, <2>4, <2>5
<1>8. ASSUME Ordered(a, any), Ordered(b, any), Ahead(Nums(a), Starts(b), any)
      PROVE  Ordered(s, any)
  <2> SUFFICES ASSUME NEW i \in 1..Len(s), NEW j \in 1..Len(s), i < j, s[j].at = 1
               PROVE  s[i].msg.num # s[j].msg.num /\ (~any => s[i].msg.num < s[j].msg.num)
    BY DEF Ordered
  <2>1. CASE j \in 1..Len(a)
    <3>1. i \in 1..Len(a)
      BY <1>1, <1>2, <2>1
    <3>2. QED
      BY <1>1, <1>8, <2>1, <3>1 DEF Ordered
  <2>2. CASE i \in 1..Len(a) /\ j \notin 1..Len(a)
    <3>1. PICK k \in 1..Len(b) : s[j] = b[k]
      BY <1>3, <2>2
    <3>2. s[j].msg.num \in Starts(b) /\ s[i].msg.num \in Nums(a)
      BY <1>1, <2>2, <3>1 DEF Starts, Nums
    <3>3. QED
      BY <1>8, <3>2 DEF Ahead
  <2>3. CASE i \notin 1..Len(a) /\ j \notin 1..Len(a)
    <3>1. PICK k \in 1..Len(b) : i = Len(a) + k /\ s[i] = b[k]
      BY <1>3, <2>3
    <3>2. PICK l \in 1..Len(b) : j = Len(a) + l /\ s[j] = b[l]
      BY <1>3, <2>3
    <3>3. k < l
      BY <1>2, <3>1, <3>2
    <3>4. QED
      BY <1>8, <3>1, <3>2, <3>3 DEF Ordered
  <2>4. QED
    BY <2>1, <2>2, <2>3
<1>9. QED
  BY <1>5, <1>6, <1>7, <1>8 DEF s

\* Both parts of a sequence cut in two, and what the cut leaves ordered.
LEMMA CutNums ==
    ASSUME NEW s \in Seq(Byte), NEW n \in 0..Len(s), NEW any \in BOOLEAN, Ordered(s, any)
    PROVE  LET f == SubSeq(s, 1, n)
               d == Drop(s, n)
           IN  /\ f \in Seq(Byte) /\ d \in Seq(Byte)
               /\ Nums(s) = Nums(f) \cup Nums(d) /\ Starts(s) = Starts(f) \cup Starts(d)
               /\ Ordered(f, any) /\ Ordered(d, any) /\ Ahead(Nums(f), Starts(d), any)
               /\ n >= 1 => s[1].msg.num \in Nums(f)
<1> DEFINE f == SubSeq(s, 1, n)  d == Drop(s, n)
<1>1. f \in Seq(Byte) /\ d \in Seq(Byte) /\ f \o d = s /\ Len(f) = n
  BY SplitSeq, DropFacts
<1>2. n >= 1 => 1 \in 1..n /\ f[1] = s[1]
  BY LenProperties
<1> HIDE DEF f, d
<1>3. /\ Nums(s) = Nums(f) \cup Nums(d) /\ Starts(s) = Starts(f) \cup Starts(d)
      /\ Ordered(f, any) /\ Ordered(d, any) /\ Ahead(Nums(f), Starts(d), any)
  <2>1. Ordered(f \o d, any)
    BY <1>1
  <2>2. f \in Seq(Byte) /\ d \in Seq(Byte)
    BY <1>1
  <2>3. /\ Nums(f \o d) = Nums(f) \cup Nums(d)
        /\ Starts(f \o d) = Starts(f) \cup Starts(d)
        /\ Ordered(f \o d, any) <=>
             Ordered(f, any) /\ Ordered(d, any) /\ Ahead(Nums(f), Starts(d), any)
    BY <2>2, ConcatNums
  <2>4. QED
    BY <1>1, <2>1, <2>3
<1>4. n >= 1 => s[1].msg.num \in Nums(f)
  BY <1>1, <1>2 DEF Nums
<1>5. QED
  BY <1>1, <1>3, <1>4 DEF f, d

-----------------------------------------------------------------------------
(* Handled in order *)

\* Everything that follows the numbers H: what is unread (u), what a read finds (i),
\* what is on its way (m) and in the batch (b) each come behind the ones before them;
\* every datagram of D shares a number with nothing.
Linked(H, u, i, m, b, D, any) ==
    /\ Ordered(u, any) /\ Ordered(i, any) /\ Ordered(m, any) /\ Ordered(b, any)
    /\ Ahead(H, Starts(u), any)
    /\ Ahead(H \cup Nums(u), Starts(i), any)
    /\ Ahead(H \cup Nums(u) \cup Nums(i), Starts(m), any)
    /\ Ahead(H \cup Nums(u) \cup Nums(i) \cup Nums(m), Starts(b), any)
    /\ \A d \in D :
        /\ Ordered(d, any)
        /\ Ahead(H \cup Nums(u) \cup Nums(i) \cup Nums(b), Starts(d), any)
        /\ Ahead(Nums(d), Starts(b), any)
    /\ \A d, e \in D : d # e => Ahead(Nums(d), Starts(e), any)

\* every number was given to a message, none to two
Numbered(u, i, m, b, D, n) ==
    /\ Nums(u) \subseteq 1..n /\ Nums(i) \subseteq 1..n /\ Nums(m) \subseteq 1..n
    /\ Nums(b) \subseteq 1..n
    /\ \A d \in D : Nums(d) \subseteq 1..n

HandledNums == {handled[k].num : k \in 1..Len(handled)}

OrderInv ==
    /\ BufferInv /\ Media
    /\ Linked(HandledNums, Unread, inbox, medium, batch, datagrams, Udp)
    /\ Numbered(Unread, inbox, medium, batch, datagrams, Len(sent))
    /\ HandledNums \subseteq 0..Len(sent)
    /\ \A k \in 1..Len(sent) : sent[k].num = k
    /\ HandledInOrder

LEMMA InitOrder == Init => OrderInv
<1> SUFFICES ASSUME Init PROVE OrderInv
  OBVIOUS
<1>1. BufferInv /\ Media
  BY InitBuffer DEF Init, Media
<1>2. Unread = <<>>
  BY <1>1, UnreadIs DEF Init
<1>3. Len(<<>>) = 0 /\ 1..0 = {} /\ Udp \in BOOLEAN
  BY DEF Udp
<1>4. HandledNums = {}
  BY <1>3 DEF Init, HandledNums
<1>5. Linked(HandledNums, Unread, inbox, medium, batch, datagrams, Udp)
  BY <1>2, <1>3, <1>4, NoNums DEF Init, Linked, Ahead
<1>6. Numbered(Unread, inbox, medium, batch, datagrams, Len(sent))
  BY <1>2, NoNums DEF Init, Numbered
<1>7. HandledInOrder /\ \A k \in 1..Len(sent) : sent[k].num = k
  BY <1>3 DEF Init, HandledInOrder
<1>8. QED
  BY <1>1, <1>4, <1>5, <1>6, <1>7 DEF OrderInv

\* A batch joins what is before it: what a read finds (pipe),
LEMMA LinkedInbox ==
    ASSUME NEW H, NEW u \in Seq(Byte), NEW i \in Seq(Byte), NEW b \in Seq(Byte),
           NEW any \in BOOLEAN, Linked(H, u, i, <<>>, b, {}, any)
    PROVE  Linked(H, u, i \o b, <<>>, <<>>, {}, any)
<1> DEFINE s == i \o b
<1>1. /\ Nums(s) = Nums(i) \cup Nums(b) /\ Starts(s) = Starts(i) \cup Starts(b)
      /\ Ordered(s, any) <=> Ordered(i, any) /\ Ordered(b, any) /\ Ahead(Nums(i), Starts(b), any)
  BY ConcatNums
<1> HIDE DEF s
<1>2. Nums(<<>>) = {} /\ Starts(<<>>) = {} /\ Ordered(<<>>, any)
  BY NoNums
<1>3. /\ Ordered(u, any) /\ Ordered(i, any) /\ Ordered(b, any)
      /\ Ahead(H, Starts(u), any) /\ Ahead(H \cup Nums(u), Starts(i), any)
      /\ Ahead(H \cup Nums(u) \cup Nums(i) \cup Nums(<<>>), Starts(b), any)
  BY DEF Linked
<1>4. Ordered(s, any) /\ Ahead(H \cup Nums(u), Starts(s), any)
  BY <1>1, <1>3 DEF Ahead
<1>5. Linked(H, u, s, <<>>, <<>>, {}, any)
  BY <1>2, <1>3, <1>4 DEF Linked, Ahead
<1>6. QED
  BY <1>5 DEF s

\* what is on its way (TCP),
LEMMA LinkedMedium ==
    ASSUME NEW H, NEW u \in Seq(Byte), NEW i \in Seq(Byte), NEW m \in Seq(Byte),
           NEW b \in Seq(Byte), NEW any \in BOOLEAN, Linked(H, u, i, m, b, {}, any)
    PROVE  Linked(H, u, i, m \o b, <<>>, {}, any)
<1> DEFINE s == m \o b
<1>1. /\ Nums(s) = Nums(m) \cup Nums(b) /\ Starts(s) = Starts(m) \cup Starts(b)
      /\ Ordered(s, any) <=> Ordered(m, any) /\ Ordered(b, any) /\ Ahead(Nums(m), Starts(b), any)
  BY ConcatNums
<1> HIDE DEF s
<1>2. Nums(<<>>) = {} /\ Starts(<<>>) = {} /\ Ordered(<<>>, any)
  BY NoNums
<1>3. /\ Ordered(u, any) /\ Ordered(i, any) /\ Ordered(m, any) /\ Ordered(b, any)
      /\ Ahead(H, Starts(u), any) /\ Ahead(H \cup Nums(u), Starts(i), any)
      /\ Ahead(H \cup Nums(u) \cup Nums(i), Starts(m), any)
      /\ Ahead(H \cup Nums(u) \cup Nums(i) \cup Nums(m), Starts(b), any)
  BY DEF Linked
<1>4. Ordered(s, any) /\ Ahead(H \cup Nums(u) \cup Nums(i), Starts(s), any)
  BY <1>1, <1>3 DEF Ahead
<1>5. Linked(H, u, i, s, <<>>, {}, any)
  BY <1>2, <1>3, <1>4 DEF Linked, Ahead
<1>6. QED
  BY <1>5 DEF s

\* or the datagrams (UDP).
LEMMA LinkedDatagram ==
    ASSUME NEW H, NEW u, NEW i, NEW b, NEW D, Linked(H, u, i, <<>>, b, D, TRUE),
           Starts(b) \subseteq Nums(b), \A d \in D : Starts(d) \subseteq Nums(d)
    PROVE  Linked(H, u, i, <<>>, <<>>, D \cup {b}, TRUE)
<1>1. Nums(<<>>) = {} /\ Starts(<<>>) = {} /\ Ordered(<<>>, TRUE)
  BY NoNums
<1>2. /\ Ordered(u, TRUE) /\ Ordered(i, TRUE) /\ Ordered(b, TRUE)
      /\ Ahead(H, Starts(u), TRUE) /\ Ahead(H \cup Nums(u), Starts(i), TRUE)
      /\ Ahead(H \cup Nums(u) \cup Nums(i) \cup Nums(<<>>), Starts(b), TRUE)
  BY DEF Linked
<1>3. ASSUME NEW d \in D
      PROVE  /\ Ordered(d, TRUE)
             /\ Ahead(H \cup Nums(u) \cup Nums(i) \cup Nums(b), Starts(d), TRUE)
             /\ Ahead(Nums(d), Starts(b), TRUE)
  BY DEF Linked
<1>4. \A d, e \in D : d # e => Ahead(Nums(d), Starts(e), TRUE)
  BY DEF Linked
<1>5. ASSUME NEW d \in D \cup {b}
      PROVE  /\ Ordered(d, TRUE)
             /\ Ahead(H \cup Nums(u) \cup Nums(i) \cup Nums(<<>>), Starts(d), TRUE)
             /\ Ahead(Nums(d), Starts(<<>>), TRUE)
  BY <1>1, <1>2, <1>3 DEF Ahead
<1>6. ASSUME NEW d \in D \cup {b}, NEW e \in D \cup {b}, d # e
      PROVE  Ahead(Nums(d), Starts(e), TRUE)
  <2>1. CASE d \in D /\ e \in D
    BY <1>4, <1>6, <2>1
  <2>2. CASE d = b /\ e \in D
    BY <1>3, <2>2 DEF Ahead
  <2>3. CASE d \in D /\ e = b
    BY <1>3, <2>3
  <2>4. QED
    BY <1>6, <2>1, <2>2, <2>3
<1>7. QED
  BY <1>1, <1>2, <1>5, <1>6 DEF Linked, Ahead

\* A message joins the batch with a number of its own.
LEMMA LinkedAccept ==
    ASSUME NEW H, NEW u, NEW i, NEW m, NEW b \in Seq(Byte), NEW D, NEW any \in BOOLEAN,
           NEW n \in Nat, NEW x \in Message, x.num = n + 1,
           Linked(H, u, i, m, b, D, any), Numbered(u, i, m, b, D, n), H \subseteq 0..n,
           any \/ D = {}, \A d \in D : Starts(d) \subseteq Nums(d)
    PROVE  /\ Linked(H, u, i, m, b \o Bytes(x), D, any)
           /\ Numbered(u, i, m, b \o Bytes(x), D, n + 1)
<1> DEFINE y == Bytes(x)  s == b \o y
<1>1. y \in Seq(Byte) /\ Nums(y) = {n + 1} /\ Starts(y) = {n + 1} /\ Ordered(y, any)
  BY BytesAre, BytesNums
<1> HIDE DEF y
<1>2. /\ Nums(s) = Nums(b) \cup Nums(y) /\ Starts(s) = Starts(b) \cup Starts(y)
      /\ Ordered(s, any) <=> Ordered(b, any) /\ Ordered(y, any) /\ Ahead(Nums(b), Starts(y), any)
  BY <1>1, ConcatNums
<1> HIDE DEF s
<1>3. \A A : A \subseteq 0..n => Ahead(A, {n + 1}, any)
  BY DEF Ahead
<1>4. /\ H \cup Nums(u) \cup Nums(i) \cup Nums(m) \subseteq 0..n /\ Nums(b) \subseteq 0..n
      /\ 1..n \subseteq 1..(n + 1) /\ n + 1 \in 1..(n + 1)
  <2>1. /\ Nums(u) \subseteq 1..n /\ Nums(i) \subseteq 1..n /\ Nums(m) \subseteq 1..n
        /\ Nums(b) \subseteq 1..n
    BY DEF Numbered
  <2>2. 1..n \subseteq 0..n /\ 1..n \subseteq 1..(n + 1) /\ n + 1 \in 1..(n + 1)
    OBVIOUS
  <2>3. QED
    BY <2>1, <2>2
<1>5. Ordered(s, any)
  BY <1>1, <1>2, <1>3, <1>4 DEF Linked
<1>6. Ahead(H \cup Nums(u) \cup Nums(i) \cup Nums(m), Starts(s), any)
  <2>1. Ahead(H \cup Nums(u) \cup Nums(i) \cup Nums(m), Starts(b), any)
    BY DEF Linked
  <2>2. Ahead(H \cup Nums(u) \cup Nums(i) \cup Nums(m), {n + 1}, any)
    BY <1>3, <1>4
  <2>3. QED
    BY <1>1, <1>2, <2>1, <2>2 DEF Ahead
<1>7. ASSUME NEW d \in D
      PROVE  /\ Ahead(H \cup Nums(u) \cup Nums(i) \cup Nums(s), Starts(d), any)
             /\ Ahead(Nums(d), Starts(s), any)
  <2>1. /\ Ahead(H \cup Nums(u) \cup Nums(i) \cup Nums(b), Starts(d), any)
        /\ Ahead(Nums(d), Starts(b), any) /\ any
    BY DEF Linked
  <2>2. Nums(d) \subseteq 1..n /\ Starts(d) \subseteq 1..n
    BY DEF Numbered
  <2>3. n + 1 \notin Starts(d) /\ n + 1 \notin Nums(d)
    BY <2>2
  <2>4. QED
    BY <1>1, <1>2, <2>1, <2>3 DEF Ahead
<1>8. Linked(H, u, i, m, s, D, any)
  BY <1>5, <1>6, <1>7 DEF Linked
<1>9. Numbered(u, i, m, s, D, n + 1)
  BY <1>1, <1>2, <1>4 DEF Numbered
<1>10. QED
  BY <1>8, <1>9 DEF s, y

\* Parts can be dropped,
LEMMA LinkedFewer ==
    ASSUME NEW H, NEW u, NEW i, NEW m, NEW b, NEW D, NEW any \in BOOLEAN,
           Linked(H, u, i, m, b, D, any),
           NEW v \in {u, <<>>}, NEW j \in {i, <<>>}, NEW c \in {b, <<>>}
    PROVE  Linked(H, v, j, m, c, D, any)
<1>1. Nums(<<>>) = {} /\ Starts(<<>>) = {} /\ Ordered(<<>>, any)
  BY NoNums
<1>2. /\ Nums(v) \subseteq Nums(u) /\ Starts(v) \subseteq Starts(u)
      /\ Ordered(u, any) => Ordered(v, any)
  BY <1>1
<1>3. /\ Nums(j) \subseteq Nums(i) /\ Starts(j) \subseteq Starts(i)
      /\ Ordered(i, any) => Ordered(j, any)
  BY <1>1
<1>4. /\ Nums(c) \subseteq Nums(b) /\ Starts(c) \subseteq Starts(b)
      /\ Ordered(b, any) => Ordered(c, any)
  BY <1>1
<1>5. \A A, B, C, E : Ahead(A, B, any) /\ C \subseteq A /\ E \subseteq B => Ahead(C, E, any)
  BY DEF Ahead
<1>6. /\ Ordered(v, any) /\ Ordered(j, any) /\ Ordered(m, any) /\ Ordered(c, any)
  BY <1>2, <1>3, <1>4 DEF Linked
<1>7. /\ Ahead(H, Starts(v), any)
      /\ Ahead(H \cup Nums(v), Starts(j), any)
      /\ Ahead(H \cup Nums(v) \cup Nums(j), Starts(m), any)
      /\ Ahead(H \cup Nums(v) \cup Nums(j) \cup Nums(m), Starts(c), any)
  BY <1>2, <1>3, <1>4 DEF Linked, Ahead
<1>8. ASSUME NEW d \in D
      PROVE  /\ Ordered(d, any)
             /\ Ahead(H \cup Nums(v) \cup Nums(j) \cup Nums(c), Starts(d), any)
             /\ Ahead(Nums(d), Starts(c), any)
  BY <1>2, <1>3, <1>4 DEF Linked, Ahead
<1>9. QED
  BY <1>6, <1>7, <1>8 DEF Linked

\* a part can pass from what is on its way to what a read finds,
LEMMA LinkedArrive ==
    ASSUME NEW H, NEW u \in Seq(Byte), NEW i \in Seq(Byte), NEW m \in Seq(Byte), NEW b,
           NEW any \in BOOLEAN, NEW k \in 0..Len(m), Linked(H, u, i, m, b, {}, any)
    PROVE  Linked(H, u, i \o SubSeq(m, 1, k), Drop(m, k), b, {}, any)
<1> DEFINE f == SubSeq(m, 1, k)  d == Drop(m, k)  s == i \o f
<1>1. /\ f \in Seq(Byte) /\ d \in Seq(Byte)
      /\ Nums(m) = Nums(f) \cup Nums(d) /\ Starts(m) = Starts(f) \cup Starts(d)
      /\ Ordered(f, any) /\ Ordered(d, any) /\ Ahead(Nums(f), Starts(d), any)
  <2>1. Ordered(m, any)
    BY DEF Linked
  <2>2. QED
    BY <2>1, CutNums
<1> HIDE DEF f, d
<1>2. f \in Seq(Byte)
  BY <1>1
<1>3. /\ Nums(s) = Nums(i) \cup Nums(f) /\ Starts(s) = Starts(i) \cup Starts(f)
      /\ Ordered(s, any) <=> Ordered(i, any) /\ Ordered(f, any) /\ Ahead(Nums(i), Starts(f), any)
  BY <1>2, ConcatNums
<1> HIDE DEF s
<1>4. /\ Ordered(u, any) /\ Ordered(i, any) /\ Ordered(b, any)
      /\ Ahead(H, Starts(u), any) /\ Ahead(H \cup Nums(u), Starts(i), any)
      /\ Ahead(H \cup Nums(u) \cup Nums(i), Starts(m), any)
      /\ Ahead(H \cup Nums(u) \cup Nums(i) \cup Nums(m), Starts(b), any)
  BY DEF Linked
<1>5. Ordered(s, any)
  BY <1>1, <1>3, <1>4 DEF Ahead
<1>6. Ahead(H \cup Nums(u), Starts(s), any)
  BY <1>1, <1>3, <1>4 DEF Ahead
<1>7. Ahead(H \cup Nums(u) \cup Nums(s), Starts(d), any)
  BY <1>1, <1>3, <1>4 DEF Ahead
<1>8. Ahead(H \cup Nums(u) \cup Nums(s) \cup Nums(d), Starts(b), any)
  BY <1>1, <1>3, <1>4 DEF Ahead
<1>9. Linked(H, u, s, d, b, {}, any)
  BY <1>1, <1>4, <1>5, <1>6, <1>7, <1>8 DEF Linked
<1>10. QED
  BY <1>9 DEF s, f, d

\* and from there to what is unread;
LEMMA LinkedRead ==
    ASSUME NEW H, NEW u \in Seq(Byte), NEW i \in Seq(Byte), NEW m, NEW b, NEW D,
           NEW any \in BOOLEAN, NEW k \in 0..Len(i), Linked(H, u, i, m, b, D, any)
    PROVE  Linked(H, u \o SubSeq(i, 1, k), Drop(i, k), m, b, D, any)
<1> DEFINE f == SubSeq(i, 1, k)  d == Drop(i, k)  s == u \o f
<1>1. /\ f \in Seq(Byte) /\ d \in Seq(Byte)
      /\ Nums(i) = Nums(f) \cup Nums(d) /\ Starts(i) = Starts(f) \cup Starts(d)
      /\ Ordered(f, any) /\ Ordered(d, any) /\ Ahead(Nums(f), Starts(d), any)
  <2>1. Ordered(i, any)
    BY DEF Linked
  <2>2. QED
    BY <2>1, CutNums
<1> HIDE DEF f, d
<1>2. f \in Seq(Byte)
  BY <1>1
<1>3. /\ Nums(s) = Nums(u) \cup Nums(f) /\ Starts(s) = Starts(u) \cup Starts(f)
      /\ Ordered(s, any) <=> Ordered(u, any) /\ Ordered(f, any) /\ Ahead(Nums(u), Starts(f), any)
  BY <1>2, ConcatNums
<1> HIDE DEF s
<1>4. /\ Ordered(u, any) /\ Ordered(m, any) /\ Ordered(b, any)
      /\ Ahead(H, Starts(u), any) /\ Ahead(H \cup Nums(u), Starts(i), any)
      /\ Ahead(H \cup Nums(u) \cup Nums(i), Starts(m), any)
      /\ Ahead(H \cup Nums(u) \cup Nums(i) \cup Nums(m), Starts(b), any)
  BY DEF Linked
<1>5. Ordered(s, any)
  BY <1>1, <1>3, <1>4 DEF Ahead
<1>6. Ahead(H, Starts(s), any)
  BY <1>1, <1>3, <1>4 DEF Ahead
<1>7. Ahead(H \cup Nums(s), Starts(d), any)
  BY <1>1, <1>3, <1>4 DEF Ahead
<1>8. H \cup Nums(s) \cup Nums(d) = H \cup Nums(u) \cup Nums(i)
  BY <1>1, <1>3
<1>9. ASSUME NEW e \in D
      PROVE  /\ Ordered(e, any) /\ Ahead(Nums(e), Starts(b), any)
             /\ Ahead(H \cup Nums(s) \cup Nums(d) \cup Nums(b), Starts(e), any)
  BY <1>8 DEF Linked
<1>10. \A e, g \in D : e # g => Ahead(Nums(e), Starts(g), any)
  BY DEF Linked
<1>11. Linked(H, s, d, m, b, D, any)
  BY <1>1, <1>4, <1>5, <1>6, <1>7, <1>8, <1>9, <1>10 DEF Linked
<1>12. QED
  BY <1>11 DEF s, f, d

\* a message can pass from there to those handled, under its number or 0;
LEMMA LinkedHandle ==
    ASSUME NEW H, NEW u, NEW i, NEW m, NEW b, NEW D, NEW any \in BOOLEAN, NEW n \in Nat,
           Linked(H, u, i, m, b, D, any), Numbered(u, i, m, b, D, n),
           NEW f, NEW d, Nums(u) = Nums(f) \cup Nums(d), Starts(u) = Starts(f) \cup Starts(d),
           Ordered(d, any), Ahead(Nums(f), Starts(d), any), NEW x \in Nums(f) \cup {0},
           \A s \in {d, i, m, b} \cup D : Starts(s) \subseteq Nums(s)
    PROVE  Linked(H \cup {x}, d, i, m, b, D, any)
<1>1. Nums(u) = Nums(f) \cup Nums(d)
  OBVIOUS
<1>2. x \in Nums(f) \cup {0} /\ Starts(d) \subseteq Nums(d)
  OBVIOUS
<1>3. \A A : A \subseteq 1..n => Ahead({0}, A, any)
  BY DEF Ahead
<1>4. /\ Starts(d) \subseteq 1..n /\ Starts(i) \subseteq 1..n /\ Starts(m) \subseteq 1..n
      /\ Starts(b) \subseteq 1..n /\ \A e \in D : Starts(e) \subseteq 1..n
  BY <1>1, <1>2 DEF Numbered
<1>5. /\ Ordered(i, any) /\ Ordered(m, any) /\ Ordered(b, any)
      /\ Ahead(H, Starts(u), any) /\ Ahead(H \cup Nums(u), Starts(i), any)
      /\ Ahead(H \cup Nums(u) \cup Nums(i), Starts(m), any)
      /\ Ahead(H \cup Nums(u) \cup Nums(i) \cup Nums(m), Starts(b), any)
  BY DEF Linked
<1>6. \A A, B, C : Ahead(A, C, any) /\ B \subseteq A \cup {0} /\ C \subseteq 1..n
                     => Ahead(B, C, any)
  BY <1>3 DEF Ahead
<1>7. Ahead(H \cup {x}, Starts(d), any)
  <2>1. Ahead(H \cup Nums(f), Starts(d), any)
    BY <1>1, <1>5 DEF Ahead
  <2>2. QED
    BY <1>2, <1>4, <1>6, <2>1
<1>8. Ahead((H \cup {x}) \cup Nums(d), Starts(i), any)
  <2>1. (H \cup {x}) \cup Nums(d) \subseteq (H \cup Nums(u)) \cup {0}
    BY <1>1, <1>2
  <2>2. QED
    BY <1>4, <1>5, <1>6, <2>1
<1>9. Ahead((H \cup {x}) \cup Nums(d) \cup Nums(i), Starts(m), any)
  <2>1. (H \cup {x}) \cup Nums(d) \cup Nums(i) \subseteq (H \cup Nums(u) \cup Nums(i)) \cup {0}
    BY <1>1, <1>2
  <2>2. QED
    BY <1>4, <1>5, <1>6, <2>1
<1>10. Ahead((H \cup {x}) \cup Nums(d) \cup Nums(i) \cup Nums(m), Starts(b), any)
  <2>1. (H \cup {x}) \cup Nums(d) \cup Nums(i) \cup Nums(m)
          \subseteq (H \cup Nums(u) \cup Nums(i) \cup Nums(m)) \cup {0}
    BY <1>1, <1>2
  <2>2. QED
    BY <1>4, <1>5, <1>6, <2>1
<1>11. ASSUME NEW e \in D
       PROVE  /\ Ordered(e, any) /\ Ahead(Nums(e), Starts(b), any)
              /\ Ahead((H \cup {x}) \cup Nums(d) \cup Nums(i) \cup Nums(b), Starts(e), any)
  <2>1. (H \cup {x}) \cup Nums(d) \cup Nums(i) \cup Nums(b)
          \subseteq (H \cup Nums(u) \cup Nums(i) \cup Nums(b)) \cup {0}
    BY <1>1, <1>2
  <2>2. /\ Ordered(e, any) /\ Ahead(Nums(e), Starts(b), any)
        /\ Ahead(H \cup Nums(u) \cup Nums(i) \cup Nums(b), Starts(e), any)
    BY DEF Linked
  <2>3. QED
    BY <1>4, <1>6, <2>1, <2>2
<1>12. \A e, g \in D : e # g => Ahead(Nums(e), Starts(g), any)
  BY DEF Linked
<1>13. QED
  BY <1>5, <1>7, <1>8, <1>9, <1>10, <1>11, <1>12 DEF Linked

\* and a datagram can be what a read finds.
LEMMA LinkedTaken ==
    ASSUME NEW H, NEW i, NEW b, NEW D, NEW any \in BOOLEAN, NEW d \in D,
           Linked(H, <<>>, i, <<>>, b, D, any)
    PROVE  Linked(H, <<>>, d, <<>>, b, D \ {d}, any)
<1>1. Nums(<<>>) = {} /\ Starts(<<>>) = {} /\ Ordered(<<>>, any)
  BY NoNums
<1>2. \A e \in D : /\ Ordered(e, any) /\ Ahead(Nums(e), Starts(b), any)
                   /\ Ahead(H \cup Nums(<<>>) \cup Nums(i) \cup Nums(b), Starts(e), any)
  BY DEF Linked
<1>3. \A e, g \in D : e # g => Ahead(Nums(e), Starts(g), any)
  BY DEF Linked
<1>4. Ordered(b, any) /\ Ahead(H \cup Nums(<<>>) \cup Nums(i) \cup Nums(<<>>), Starts(b), any)
  BY DEF Linked
<1>5. /\ Ahead(H \cup Nums(<<>>), Starts(d), any)
      /\ Ahead(H \cup Nums(<<>>) \cup Nums(d) \cup Nums(<<>>), Starts(b), any)
  BY <1>1, <1>2, <1>4 DEF Ahead
<1>6. ASSUME NEW e \in D \ {d}
      PROVE  Ahead(H \cup Nums(<<>>) \cup Nums(d) \cup Nums(b), Starts(e), any)
  BY <1>1, <1>2, <1>3 DEF Ahead
<1>7. /\ Ahead(H, Starts(<<>>), any)
      /\ Ahead(H \cup Nums(<<>>) \cup Nums(d), Starts(<<>>), any)
  BY <1>1 DEF Ahead
<1>8. QED
  BY <1>1, <1>2, <1>3, <1>4, <1>5, <1>6, <1>7 DEF Linked

\* What is handled stays in order, each message once, over reads, errors, connections
\* and lost or overtaking datagrams.
LEMMA NextOrder == OrderInv /\ [Next]_vars => OrderInv'
<1> SUFFICES ASSUME OrderInv, [Next]_vars PROVE OrderInv'
  OBVIOUS
<1> DEFINE H == HandledNums  u == Unread  n == Len(sent)
<1>0. /\ BufferInv /\ TypeOK /\ Filled /\ Media /\ HandledInOrder
      /\ Linked(H, u, inbox, medium, batch, datagrams, Udp)
      /\ Numbered(u, inbox, medium, batch, datagrams, n)
      /\ H \subseteq 0..n /\ \A k \in 1..n : sent[k].num = k
  BY DEF OrderInv, BufferInv
<1>m. m_iTransferMode' = m_iTransferMode /\ Udp' = Udp /\ BufferInv' /\ Media'
  <2>1. m_iTransferMode' = m_iTransferMode
    BY SameMode
  <2>2. QED
    BY <1>0, <2>1, NextBuffer, NextMedia DEF Udp
<1>t. /\ u \in Seq(Byte) /\ inbox \in Seq(Byte) /\ medium \in Seq(Byte) /\ batch \in Seq(Byte)
      /\ \A d \in datagrams : d \in Seq(Byte)
      /\ handled \in Seq(Message) /\ Len(handled) \in Nat /\ n \in Nat /\ Udp \in BOOLEAN
      /\ sent \in Seq(Message) /\ iSizeRead = 0 => u = pBuffer
      /\ reader \in {"idle", "opening"} => u = <<>>
  BY <1>0, UnreadIs, LenProperties DEF TypeOK, Udp
<1>s. /\ Starts(inbox) \subseteq Nums(inbox) /\ Starts(medium) \subseteq Nums(medium)
      /\ Starts(batch) \subseteq Nums(batch)
      /\ \A d \in datagrams : Starts(d) \subseteq Nums(d)
      /\ Nums(<<>>) = {}
  BY <1>t, NumsAre, NoNums
<1>k. ASSUME handled' = handled, sent' = sent,
             Linked(H, Unread', inbox', medium', batch', datagrams', Udp),
             Numbered(Unread', inbox', medium', batch', datagrams', n)
      PROVE  OrderInv'
  <2>1. HandledNums' = H /\ HandledInOrder'
    BY <1>0, <1>k, <1>m DEF HandledNums, HandledInOrder, Udp
  <2>2. QED
    BY <1>0, <1>k, <1>m, <2>1 DEF OrderInv
<1>f. ASSUME handled' = handled, sent' = sent, medium' = medium, datagrams' = datagrams,
             Unread' \in {u, <<>>}, inbox' \in {inbox, <<>>}, batch' \in {batch, <<>>}
      PROVE  OrderInv'
  <2>1. Linked(H, Unread', inbox', medium, batch', datagrams, Udp)
    BY <1>0, <1>f, <1>t, LinkedFewer
  <2>2. Numbered(Unread', inbox', medium, batch', datagrams, n)
    BY <1>0, <1>f, <1>s DEF Numbered
  <2>3. QED
    BY <1>f, <1>k, <2>1, <2>2
<1> USE DEF readerVars, writerVars, mediumVars
<1>1. CASE WriterOpens
  BY <1>1, <1>f DEF WriterOpens, Unread
<1>2. ASSUME NEW c \in Code, Accept(c) PROVE OrderInv'
  <2> DEFINE x == [num |-> Len(sent) + 1, code |-> c]
  <2>1. x \in Message /\ x.num = n + 1
    BY <1>t DEF Message
  <2>2. batch' = batch \o Bytes(x) /\ sent' = Append(sent, x)
    BY <1>2 DEF Accept
  <2>3. /\ medium' = medium /\ datagrams' = datagrams /\ inbox' = inbox /\ handled' = handled
        /\ pBuffer' = pBuffer /\ iSizeRead' = iSizeRead
    BY <1>2 DEF Accept
  <2> HIDE DEF x
  <2>4. Unread' = u
    BY <2>3 DEF Unread
  <2>5. Udp \/ datagrams = {}
    BY <1>0 DEF Media
  <2> HIDE DEF u, H
  <2>6. /\ Linked(H, u, inbox, medium, batch \o Bytes(x), datagrams, Udp)
        /\ Numbered(u, inbox, medium, batch \o Bytes(x), datagrams, n + 1)
    <3>1. /\ batch \in Seq(Byte) /\ Udp \in BOOLEAN /\ n \in Nat /\ H \subseteq 0..n
          /\ Linked(H, u, inbox, medium, batch, datagrams, Udp)
          /\ Numbered(u, inbox, medium, batch, datagrams, n)
          /\ \A e \in datagrams : Starts(e) \subseteq Nums(e)
      BY <1>0, <1>t, <1>s
    <3>2. QED
      BY <2>1, <2>5, <3>1, LinkedAccept
  <2>7. /\ Len(sent') = n + 1 /\ \A k \in 1..(n + 1) : sent'[k].num = k
    <3>1. Len(sent') = n + 1 /\ sent'[n + 1] = x /\ \A k \in 1..n : sent'[k] = sent[k]
      BY <1>t, <2>1, <2>2, AppendProperties
    <3>2. \A k \in 1..(n + 1) : k \in 1..n \/ k = n + 1
      BY <1>t
    <3>3. QED
      BY <1>0, <2>1, <3>1, <3>2
  <2>8. HandledNums' = H /\ HandledInOrder'
    BY <1>0, <1>m, <2>3 DEF HandledNums, HandledInOrder, H, Udp
  <2>9. H \subseteq 0..(n + 1)
    <3>1. 0..n \subseteq 0..(n + 1)
      BY <1>t
    <3>2. QED
      BY <1>0, <3>1
  <2>10. QED
    BY <1>0, <1>m, <2>2, <2>3, <2>4, <2>6, <2>7, <2>8, <2>9 DEF OrderInv
<1>3. CASE WriteBatch
  <2>1. /\ inbox' = IF Piped THEN inbox \o batch ELSE inbox
        /\ medium' = (IF Tcp THEN medium \o batch ELSE medium)
        /\ datagrams' = (IF Udp THEN datagrams \cup {batch} ELSE datagrams)
        /\ batch' = <<>> /\ handled' = handled /\ sent' = sent /\ Unread' = u
    BY <1>3 DEF WriteBatch, Unread
  <2> HIDE DEF u, H, n
  <2>2. CASE Piped
    <3>1. medium = <<>> /\ datagrams = {} /\ ~Tcp /\ ~Udp
      BY <1>0, <2>2 DEF Media, Piped, Tcp, Udp
    <3>2. Linked(H, u, inbox \o batch, <<>>, <<>>, {}, Udp)
      BY <1>0, <1>t, <3>1, LinkedInbox
    <3>3. Nums(inbox \o batch) = Nums(inbox) \cup Nums(batch)
      BY <1>t, ConcatNums
    <3>4. Numbered(u, inbox \o batch, <<>>, <<>>, {}, n)
      BY <1>0, <1>s, <3>3 DEF Numbered
    <3>5. QED
      BY <1>k, <2>1, <2>2, <3>1, <3>2, <3>4
  <2>3. CASE Tcp
    <3>1. datagrams = {} /\ ~Piped /\ ~Udp
      BY <1>0, <2>3 DEF Media, Piped, Tcp, Udp
    <3>2. Linked(H, u, inbox, medium \o batch, <<>>, {}, Udp)
      BY <1>0, <1>t, <3>1, LinkedMedium
    <3>3. Nums(medium \o batch) = Nums(medium) \cup Nums(batch)
      BY <1>t, ConcatNums
    <3>4. Numbered(u, inbox, medium \o batch, <<>>, {}, n)
      BY <1>0, <1>s, <3>3 DEF Numbered
    <3>5. QED
      BY <1>k, <2>1, <2>3, <3>1, <3>2, <3>4
  <2>4. CASE Udp
    <3>1. medium = <<>> /\ ~Piped /\ ~Tcp /\ Udp = TRUE
      BY <1>0, <2>4 DEF Media, Piped, Tcp, Udp
    <3>2. Linked(H, u, inbox, <<>>, <<>>, datagrams \cup {batch}, TRUE)
      BY <1>0, <1>s, <3>1, LinkedDatagram
    <3>3. Numbered(u, inbox, <<>>, <<>>, datagrams \cup {batch}, n)
      BY <1>0, <1>s DEF Numbered
    <3>4. QED
      BY <1>k, <2>1, <2>4, <3>1, <3>2, <3>3
  <2>5. Piped \/ Tcp \/ Udp
    BY <1>0, FramingAssumption DEF TypeOK, Piped, Tcp, Udp
  <2>6. QED
    BY <2>2, <2>3, <2>4, <2>5
<1>4. CASE WriteBroken
  BY <1>4, <1>f DEF WriteBroken, Unread
<1>5. CASE Arrive
  <2>1. PICK k \in 1..Len(medium) :
          inbox' = inbox \o SubSeq(medium, 1, k) /\ medium' = Drop(medium, k)
    BY <1>5 DEF Arrive
  <2>2. /\ datagrams' = datagrams /\ batch' = batch /\ handled' = handled /\ sent' = sent
        /\ Unread' = u
    BY <1>5 DEF Arrive, Unread
  <2>3. datagrams = {} /\ k \in 0..Len(medium) /\ Ordered(medium, Udp)
    BY <1>0, <1>5, <1>t, LenProperties DEF Arrive, Media, Tcp, Udp, Linked
  <2> DEFINE f == SubSeq(medium, 1, k)  d == Drop(medium, k)
  <2> HIDE DEF u, H, n
  <2>4. Linked(H, u, inbox \o f, d, batch, {}, Udp)
    BY <1>0, <1>t, <2>3, LinkedArrive
  <2>5. f \in Seq(Byte) /\ Nums(medium) = Nums(f) \cup Nums(d)
    BY <1>t, <2>3, CutNums
  <2> HIDE DEF f, d
  <2>6. Nums(inbox \o f) = Nums(inbox) \cup Nums(f)
    BY <1>t, <2>5, ConcatNums
  <2>7. Numbered(u, inbox \o f, d, batch, {}, n)
    BY <1>0, <2>5, <2>6 DEF Numbered
  <2>8. QED
    BY <1>k, <2>1, <2>2, <2>3, <2>4, <2>7 DEF f, d
<1>6. CASE ArriveDatagram
  <2>1. PICK d \in datagrams : inbox' = d /\ datagrams' = datagrams \ {d}
    BY <1>6 DEF ArriveDatagram
  <2>2. /\ medium' = medium /\ batch' = batch /\ handled' = handled /\ sent' = sent
        /\ Unread' = u /\ u = <<>> /\ medium = <<>>
    BY <1>0, <1>6, <1>t DEF ArriveDatagram, Unread, Media, Tcp, Udp
  <2> HIDE DEF u, H, n
  <2>3. Linked(H, <<>>, d, <<>>, batch, datagrams \ {d}, Udp)
    BY <1>0, <1>t, <2>2, LinkedTaken
  <2>4. Numbered(<<>>, d, <<>>, batch, datagrams \ {d}, n)
    BY <1>0, <1>s, <2>2 DEF Numbered
  <2>5. QED
    BY <1>k, <2>1, <2>2, <2>3, <2>4
<1>7. CASE WriterCloses
  BY <1>7, <1>f DEF WriterCloses, Unread
<1>8. CASE Open
  BY <1>8, <1>f DEF Open, Unread
<1>9. CASE Read
  <2> DEFINE k == IF Len(inbox) < ReadSize THEN Len(inbox) ELSE ReadSize
             f == SubSeq(inbox, 1, k)  d == Drop(inbox, k)
  <2>1. pBuffer' = pBuffer \o f /\ inbox' = d /\ k \in 0..Len(inbox)
    BY <1>9, <1>t, LenProperties, FramingAssumption DEF Read
  <2>2. /\ medium' = medium /\ batch' = batch /\ handled' = handled /\ sent' = sent
        /\ datagrams' = datagrams
    BY <1>9 DEF Read
  <2>r. u = pBuffer
    <3>1. iSizeRead = 0
      BY <1>0, <1>9 DEF Read, Filled
    <3>2. QED
      BY <1>0, <3>1, UnreadIs
  <2>p. Unread' = pBuffer'
    BY <1>0, <1>9, ReadIs
  <2> HIDE DEF u, H, n, k
  <2>3. Linked(H, u \o f, d, medium, batch, datagrams, Udp)
    BY <1>0, <1>t, <2>1, LinkedRead
  <2>4. f \in Seq(Byte) /\ Nums(inbox) = Nums(f) \cup Nums(d)
    <3>1. Ordered(inbox, Udp)
      BY <1>0 DEF Linked
    <3>2. QED
      BY <1>t, <2>1, <3>1, CutNums
  <2> HIDE DEF f, d
  <2>5. Nums(u \o f) = Nums(u) \cup Nums(f)
    BY <1>t, <2>4, ConcatNums
  <2>6. Numbered(u \o f, d, medium, batch, datagrams, n)
    BY <1>0, <2>4, <2>5 DEF Numbered
  <2>7. QED
    BY <1>k, <2>1, <2>2, <2>r, <2>p, <2>3, <2>6
<1>11. CASE KeepRest
  <2>1. Drop(u, 0) = u
    BY <1>t, DropNone
  <2>2. Unread' = u
    BY <1>11, <2>1 DEF KeepRest, Unread
  <2>3. QED
    BY <1>11, <1>f, <2>2 DEF KeepRest
<1>12. CASE ProcessError
  BY <1>12, <1>f DEF ProcessError, Unread
<1>13. CASE ReadEnd
  BY <1>13, <1>f DEF ReadEnd, Unread
<1>14. CASE Close
  <2>1. Unread' = <<>>
    <3>1. <<>> \in Seq(Byte)
      OBVIOUS
    <3>2. Drop(<<>>, 0) = <<>>
      BY <3>1, DropNone
    <3>3. QED
      BY <1>14, <3>2 DEF Close, Unread
  <2>2. QED
    BY <1>14, <1>f, <2>1 DEF Close
<1>15. CASE UNCHANGED vars
  BY <1>15, <1>f DEF vars, Unread
<1>10. CASE ProcessMsg
  <2>1. PICK c \in NextCode :
          /\ Len(u) >= Needed(c)
          /\ handled' = Append(handled, IF Garbled THEN [num |-> 0, code |-> c] ELSE u[1].msg)
          /\ iSizeRead' = iSizeRead + SizeOf[c]
    BY <1>10 DEF ProcessMsg
  <2>2. /\ medium' = medium /\ batch' = batch /\ sent' = sent /\ inbox' = inbox
        /\ datagrams' = datagrams /\ pBuffer' = pBuffer
    BY <1>10 DEF ProcessMsg
  <2>3. /\ u # <<>> /\ c \in Code /\ Len(u) = Len(pBuffer) - iSizeRead
        /\ Len(u) \in Nat /\ Len(u) >= 1 /\ u[1].msg \in Message /\ (~Garbled => u[1].at = 1)
    BY <1>0, NextCodeIs DEF Garbled
  <2> DEFINE z == SizeOf[c]  h == IF Garbled THEN [num |-> 0, code |-> c] ELSE u[1].msg
             f == SubSeq(u, 1, z)  d == Drop(u, z)
  <2>4. z \in 0..Len(u) /\ z >= 1
    BY <2>1, <2>3, NeededIs
  <2>5. Unread' = d
    <3>1. /\ pBuffer \in Seq(Byte) /\ iSizeRead \in 0..Len(pBuffer)
          /\ z \in 0..(Len(pBuffer) - iSizeRead)
      BY <1>0, <2>3, <2>4 DEF TypeOK
    <3> HIDE DEF z
    <3>2. Drop(Drop(pBuffer, iSizeRead), z) = Drop(pBuffer, iSizeRead + z)
      BY <3>1, DropTwice
    <3>3. QED
      BY <2>1, <2>2, <3>2 DEF Unread, z
  <2>6. h \in Message
    BY <2>3 DEF Message
  <2>7. (Garbled /\ h.num = 0) \/ (~Garbled /\ h = u[1].msg /\ u[1].at = 1)
    BY <2>3
  <2>8. handled' = Append(handled, h)
    BY <2>1
  <2> HIDE DEF u, H, n, h, z
  <2>9. Ordered(u, Udp)
    BY <1>0 DEF Linked
  <2>10. /\ d \in Seq(Byte) /\ Nums(u) = Nums(f) \cup Nums(d) /\ u[1].msg.num \in Nums(f)
         /\ Starts(u) = Starts(f) \cup Starts(d)
         /\ Ordered(d, Udp) /\ Ahead(Nums(f), Starts(d), Udp)
    BY <1>t, <2>4, <2>9, CutNums
  <2>11. h.num \in Nums(f) \cup {0}
    BY <2>7, <2>10
  <2>12. Starts(d) \subseteq Nums(d)
    <3>1. d \in Seq(Byte)
      BY <2>10
    <3> HIDE DEF d
    <3>2. QED
      BY <3>1, NumsAre
  <2>13. Linked(H \cup {h.num}, d, inbox, medium, batch, datagrams, Udp)
    <3> HIDE DEF f, d
    <3>1. /\ Udp \in BOOLEAN /\ n \in Nat
          /\ Linked(H, u, inbox, medium, batch, datagrams, Udp)
          /\ Numbered(u, inbox, medium, batch, datagrams, n)
      BY <1>0, <1>t
    <3>2. \A s \in {d, inbox, medium, batch} \cup datagrams : Starts(s) \subseteq Nums(s)
      BY <1>s, <2>12
    <3>3. /\ Nums(u) = Nums(f) \cup Nums(d) /\ Starts(u) = Starts(f) \cup Starts(d)
          /\ Ordered(d, Udp) /\ Ahead(Nums(f), Starts(d), Udp)
      BY <2>10
    <3>4. ASSUME NEW any \in BOOLEAN, any = Udp
          PROVE  Linked(H \cup {h.num}, d, inbox, medium, batch, datagrams, any)
      <4>1. /\ Linked(H, u, inbox, medium, batch, datagrams, any)
            /\ Ordered(d, any) /\ Ahead(Nums(f), Starts(d), any)
        BY <3>1, <3>3, <3>4
      <4>2. QED
        BY <2>11, <3>1, <3>2, <3>3, <4>1, LinkedHandle
    <3>5. QED
      BY <3>1, <3>4
  <2>14. Numbered(d, inbox, medium, batch, datagrams, n)
    BY <1>0, <2>10 DEF Numbered
  <2>15. /\ Len(handled') = Len(handled) + 1 /\ handled'[Len(handled) + 1] = h
         /\ \A k \in 1..Len(handled) : handled'[k] = handled[k]
    BY <1>t, <2>6, <2>8, AppendProperties
  <2>16. \A k \in 1..(Len(handled) + 1) : k \in 1..Len(handled) \/ k = Len(handled) + 1
    <3>1. Len(handled) \in Nat
      BY <1>t
    <3>2. QED
      BY <3>1
  <2>17. HandledNums' = H \cup {h.num}
    <3>1. ASSUME NEW x \in HandledNums' PROVE x \in H \cup {h.num}
      BY <2>15, <2>16 DEF HandledNums, H
    <3>2. ASSUME NEW x \in H PROVE x \in HandledNums'
      <4>1. PICK k \in 1..Len(handled) : x = handled[k].num
        BY DEF HandledNums, H
      <4>2. k \in 1..Len(handled') /\ handled'[k].num = x
        BY <1>t, <2>15, <4>1
      <4>3. QED
        BY <4>2 DEF HandledNums
    <3>3. h.num \in HandledNums'
      <4>1. Len(handled) + 1 \in 1..Len(handled')
        BY <1>t, <2>15
      <4>2. QED
        BY <2>15, <4>1 DEF HandledNums
    <3>4. QED
      BY <3>1, <3>2, <3>3
  <2>18. H \cup {h.num} \subseteq 0..n
    <3>1. Nums(f) \subseteq 1..n
      BY <1>0, <2>10 DEF Numbered
    <3>2. 1..n \subseteq 0..n /\ 0 \in 0..n
      BY <1>t
    <3>3. QED
      BY <1>0, <2>11, <3>1, <3>2
  <2>19. h.num # 0 => \A k \in 1..Len(handled) :
                        handled[k].num # h.num /\ (~Udp => handled[k].num < h.num)
    <3> SUFFICES ASSUME h.num # 0, NEW k \in 1..Len(handled)
                 PROVE  handled[k].num # h.num /\ (~Udp => handled[k].num < h.num)
      OBVIOUS
    <3>1. h = u[1].msg /\ u[1].at = 1
      BY <2>7
    <3>2. 1 \in 1..Len(u)
      BY <2>4
    <3>3. h.num \in Starts(u)
      BY <3>1, <3>2 DEF Starts
    <3>4. Ahead(H, Starts(u), Udp)
      BY <1>0 DEF Linked
    <3>5. handled[k].num \in H
      BY DEF H, HandledNums
    <3>6. QED
      BY <3>3, <3>4, <3>5 DEF Ahead
  <2>20. HandledInOrder'
    <3> SUFFICES ASSUME NEW i \in 1..Len(handled'), NEW j \in 1..Len(handled'),
                        i < j, handled'[j].num # 0
                 PROVE  /\ handled'[i] # handled'[j]
                        /\ ~Udp => handled'[i].num < handled'[j].num
      BY <1>m DEF HandledInOrder
    <3>1. i \in 1..Len(handled)
      BY <1>t, <2>15
    <3>2. CASE j \in 1..Len(handled)
      BY <1>0, <2>15, <3>1, <3>2 DEF HandledInOrder
    <3>3. CASE j = Len(handled) + 1
      BY <2>15, <2>19, <3>1, <3>3
    <3>4. QED
      BY <2>15, <2>16, <3>2, <3>3
  <2>21. QED
    BY <1>0, <1>m, <2>2, <2>5, <2>13, <2>14, <2>17, <2>18, <2>20 DEF OrderInv, n
<1>16. QED
  BY <1>1, <1>2, <1>3, <1>4, <1>5, <1>6, <1>7, <1>8, <1>9, <1>10, <1>11, <1>12, <1>13, <1>14,
     <1>15 DEF Next, Writing, Reading

\* No message is handled twice, nor before an earlier one unless datagrams overtook each
\* other: for every transport, batch, cut of a segment and dropped rest.
THEOREM SpecHandledInOrder == Spec => []HandledInOrder
<1>1. OrderInv => HandledInOrder
  BY DEF OrderInv
<1>2. QED
  BY <1>1, InitOrder, NextOrder, PTL DEF Spec

-----------------------------------------------------------------------------
(* What is dropped *)

\* the messages s has a byte of
Messages(s) == {s[i].msg : i \in 1..Len(s)}

Backtraces(s) == \A i \in 1..Len(s) : s[i].msg.code = "backtrace"

LEMMA NoMessages == Messages(<<>>) = {} /\ Backtraces(<<>>)
<1>1. Len(<<>>) = 0 /\ 1..0 = {}
  OBVIOUS
<1>2. QED
  BY <1>1 DEF Messages, Backtraces

LEMMA ConcatMessages ==
    ASSUME NEW a \in Seq(Byte), NEW b \in Seq(Byte)
    PROVE  Messages(a \o b) = Messages(a) \cup Messages(b)
<1> DEFINE s == a \o b
<1>1. /\ Len(s) = Len(a) + Len(b)
      /\ \A i \in 1..Len(a) : s[i] = a[i]
      /\ \A i \in 1..Len(b) : s[Len(a) + i] = b[i]
  BY ConcatIs
<1> HIDE DEF s
<1>2. Len(a) \in Nat /\ Len(b) \in Nat
  BY LenProperties
<1>3. /\ \A i \in 1..Len(a) : i \in 1..Len(s)
      /\ \A i \in 1..Len(b) : Len(a) + i \in 1..Len(s)
  BY <1>1, <1>2
<1>4. ASSUME NEW x \in Messages(s) PROVE x \in Messages(a) \cup Messages(b)
  <2>1. PICK i \in 1..Len(s) : x = s[i].msg
    BY <1>4 DEF Messages
  <2>2. CASE i \in 1..Len(a)
    BY <1>1, <2>1, <2>2 DEF Messages
  <2>3. CASE i \notin 1..Len(a)
    <3>1. i - Len(a) \in 1..Len(b) /\ i = Len(a) + (i - Len(a))
      BY <1>1, <1>2, <2>3
    <3>2. s[i] = b[i - Len(a)]
      BY <1>1, <3>1
    <3>3. QED
      BY <2>1, <3>1, <3>2 DEF Messages
  <2>4. QED
    BY <2>2, <2>3
<1>5. ASSUME NEW x \in Messages(a) PROVE x \in Messages(s)
  BY <1>1, <1>3 DEF Messages
<1>6. ASSUME NEW x \in Messages(b) PROVE x \in Messages(s)
  <2>1. PICK k \in 1..Len(b) : x = b[k].msg
    BY <1>6 DEF Messages
  <2>2. Len(a) + k \in 1..Len(s) /\ s[Len(a) + k].msg = x
    BY <1>1, <1>3, <2>1
  <2>3. QED
    BY <2>2 DEF Messages
<1>7. QED
  BY <1>4, <1>5, <1>6 DEF s

\* a sequence has the messages of its two parts
LEMMA CutMessages ==
    ASSUME NEW s \in Seq(Byte), NEW n \in 0..Len(s)
    PROVE  Messages(s) = Messages(SubSeq(s, 1, n)) \cup Messages(Drop(s, n))
<1> DEFINE f == SubSeq(s, 1, n)  d == Drop(s, n)
<1>1. f \in Seq(Byte) /\ d \in Seq(Byte) /\ f \o d = s
  BY SplitSeq, DropFacts
<1> HIDE DEF f, d
<1>2. Messages(f \o d) = Messages(f) \cup Messages(d)
  BY <1>1, ConcatMessages
<1>3. QED
  BY <1>1, <1>2 DEF f, d

\* The messages under way, in terms of where they are.
Way(S) == {b.msg : b \in UNION {{s[i] : i \in 1..Len(s)} : s \in S}}

LEMMA WayIs ==
    ASSUME NEW S, NEW x
    PROVE  x \in Way(S) <=> \E s \in S : x \in Messages(s)
<1>1. ASSUME x \in Way(S) PROVE \E s \in S : x \in Messages(s)
  <2>1. PICK b \in UNION {{s[i] : i \in 1..Len(s)} : s \in S} : x = b.msg
    BY <1>1 DEF Way
  <2>2. PICK s \in S : b \in {s[i] : i \in 1..Len(s)}
    BY <2>1
  <2>3. QED
    BY <2>1, <2>2 DEF Messages
<1>2. ASSUME NEW s \in S, x \in Messages(s) PROVE x \in Way(S)
  <2>1. PICK i \in 1..Len(s) : x = s[i].msg
    BY <1>2 DEF Messages
  <2>2. s[i] \in UNION {{t[k] : k \in 1..Len(t)} : t \in S}
    BY <2>1
  <2>3. QED
    BY <2>1, <2>2 DEF Way
<1>3. QED
  BY <1>1, <1>2

\* What is left when the reader gives up or starts a new read is a backtrace: all of a
\* datagram was read at once, and nothing but a backtrace is asked for with more than
\* it has.
Leftovers ==
    /\ Udp => /\ reader \in {"idle", "parse", "closing"} => inbox = <<>>
              /\ reader = "read" => \/ /\ pBuffer = <<>>
                                       /\ Framed(inbox) /\ Len(inbox) < ReadSize
                                    \/ inbox = <<>> /\ Backtraces(pBuffer)
              /\ reader = "closing" => Backtraces(Unread)
    /\ Piped /\ writer = "open" /\ reader = "closing" =>
         \A i \in 1..Len(Unread) :
            Unread[i].msg.code = "backtrace" \/ Unread[i].msg.num <= earlier

DropInv == FrameInv /\ OrderInv /\ Leftovers /\ OnlyBacktracesDropped

LEMMA InitDrop == Init => DropInv
<1> SUFFICES ASSUME Init PROVE DropInv
  OBVIOUS
<1>1. FrameInv /\ OrderInv
  BY InitFrame, InitOrder
<1>2. Leftovers
  BY DEF Init, Leftovers
<1>3. OnlyBacktracesDropped
  <2>1. Len(sent) = 0
    BY DEF Init
  <2>2. earlier = 0
    BY DEF Init
  <2>3. QED
    BY <2>1, <2>2 DEF OnlyBacktracesDropped
<1>4. QED
  BY <1>1, <1>2, <1>3 DEF DropInv

\* what is unread and incomplete is a backtrace
LEMMA IncompleteBacktrace ==
    ASSUME FrameInv, ~Tcp, reader = "parse", Incomplete, Framed(Unread)
    PROVE  Backtraces(Unread)
<1>0. TypeOK /\ BufferInv /\ ~Garbled
  BY CutInSync DEF FrameInv, BufferInv, InSync
<1>1. CASE Unread = <<>>
  BY <1>1, NoMessages
<1>2. CASE Unread # <<>>
  <2>1. PICK c \in NextCode : Len(Unread) < Needed(c)
    BY <1>2 DEF Incomplete
  <2>2. c = Unread[1].msg.code /\ Unread \in Seq(Byte)
    BY <1>0, NextCodeIs
  <2>3. Len(Unread) < Needed(Unread[1].msg.code)
    BY <2>1, <2>2
  <2> DEFINE s == Unread
  <2>4. s \in Seq(Byte) /\ s # <<>> /\ Framed(s) /\ Len(s) < Needed(s[1].msg.code)
    BY <1>2, <2>2, <2>3
  <2> HIDE DEF s
  <2>5. \A i \in 1..Len(s) : s[i].msg.code = "backtrace"
    BY <2>4, FramedShort
  <2>6. QED
    BY <2>5 DEF s, Backtraces
<1>3. QED
  BY <1>1, <1>2

LEMMA NextLeftovers == DropInv /\ [Next]_vars => Leftovers'
<1> SUFFICES ASSUME DropInv, [Next]_vars PROVE Leftovers'
  OBVIOUS
<1>0. /\ FrameInv /\ OrderInv /\ BufferInv /\ TypeOK /\ Filled /\ Media /\ Leftovers
      /\ (~Tcp => Cut)
  BY DEF DropInv, FrameInv, BufferInv
<1>m. /\ m_iTransferMode' = m_iTransferMode /\ Udp' = Udp /\ Piped' = Piped
      /\ (Udp => ~Piped /\ ~Tcp) /\ (Piped => ~Tcp)
  <2>1. m_iTransferMode' = m_iTransferMode
    BY SameMode
  <2>2. QED
    BY <2>1 DEF Udp, Piped, Tcp
<1>u. /\ Unread \in Seq(Byte) /\ inbox \in Seq(Byte)
      /\ iSizeRead = 0 => Unread = pBuffer
  BY <1>0, UnreadIs DEF TypeOK
<1> USE DEF Leftovers, readerVars, writerVars, mediumVars
<1>k. ASSUME Unread' = Unread, pBuffer' = pBuffer, reader' = reader,
             Udp => inbox' = inbox,
             Piped => (writer' = "open" => writer = "open") /\ earlier' = earlier
      PROVE  Leftovers'
  BY <1>0, <1>m, <1>k
<1>1. CASE WriterOpens
  <2>1. /\ pBuffer' = pBuffer /\ Unread' = Unread /\ earlier' = Len(sent)
        /\ inbox' = (IF Tcp THEN <<>> ELSE inbox)
        /\ reader' = reader \/ (reader = "opening" /\ reader' = "read")
    BY <1>1 DEF WriterOpens, Unread
  <2>2. Udp => reader' = reader /\ inbox' = inbox
    BY <1>0, <1>m, <2>1 DEF Media
  <2>3. \A i \in 1..Len(Unread) : Unread[i].msg.num <= Len(sent)
    <3>1. Nums(Unread) \subseteq 1..Len(sent)
      BY <1>0 DEF OrderInv, Numbered
    <3>2. \A i \in 1..Len(Unread) : Unread[i].msg.num \in 1..Len(sent)
      BY <3>1 DEF Nums
    <3>3. Len(sent) \in Nat
      BY <1>0, LenProperties DEF TypeOK
    <3>4. QED
      BY <3>2, <3>3
  <2>4. QED
    BY <1>0, <1>m, <2>1, <2>2, <2>3
<1>2. CASE \E c \in Code : Accept(c)
  BY <1>2, <1>k DEF Accept, Unread
<1>3. CASE WriteBatch
  BY <1>3, <1>k, <1>m DEF WriteBatch, Unread
<1>4. CASE WriteBroken
  BY <1>4, <1>k, <1>m DEF WriteBroken, Unread
<1>5. CASE Arrive
  BY <1>0, <1>5, <1>m DEF Arrive, Media
<1>6. CASE ArriveDatagram
  <2>1. PICK d \in datagrams : inbox' = d
    BY <1>6 DEF ArriveDatagram
  <2>2. Udp /\ reader' = "read" /\ pBuffer' = pBuffer /\ pBuffer = <<>>
    BY <1>0, <1>6 DEF ArriveDatagram, Media, Filled
  <2>3. Framed(inbox') /\ Len(inbox') < ReadSize
    BY <1>0, <1>m, <2>1, <2>2 DEF Cut
  <2>4. QED
    BY <1>m, <2>2, <2>3
<1>7. CASE WriterCloses
  BY <1>7, <1>k, <1>m DEF WriterCloses, Unread
<1>8. CASE Open
  BY <1>8, <1>m DEF Open
<1>9. CASE Read
  <2>1. reader = "read" /\ reader' = "parse" /\ inbox # <<>>
    BY <1>9 DEF Read
  <2>2. Udp => inbox' = <<>>
    BY <1>0, <1>9, <2>1, ReadIs
  <2>3. QED
    BY <1>m, <2>1, <2>2
<1>10. CASE ProcessMsg
  BY <1>0, <1>10, <1>m DEF ProcessMsg
<1>11. CASE KeepRest
  <2>1. /\ reader = "parse" /\ reader' = "read" /\ inbox' = inbox /\ pBuffer' = Unread
        /\ Incomplete
    BY <1>11 DEF KeepRest
  <2>2. ASSUME Udp PROVE inbox = <<>> /\ Backtraces(Unread)
    <3>1. inbox = <<>> /\ Framed(Unread \o inbox)
      BY <1>0, <1>m, <2>1, <2>2 DEF Cut
    <3>2. Framed(Unread)
      BY <1>u, <3>1, ConcatEmptySeq
    <3>3. QED
      BY <1>0, <1>m, <2>1, <2>2, <3>1, <3>2, IncompleteBacktrace
  <2>3. QED
    BY <1>m, <2>1, <2>2
<1>12. CASE ProcessError
  <2>1. /\ reader = "parse" /\ reader' = "closing" /\ inbox' = inbox /\ Unread' = Unread
    BY <1>12 DEF ProcessError, Unread
  <2>2. ASSUME ~Tcp PROVE Backtraces(Unread)
    <3>1. Incomplete /\ Unread = pBuffer
      BY <1>0, <1>u, <1>12, <2>1, <2>2, CutInSync DEF ProcessError, InSync
    <3>2. Len(pBuffer) < ReadSize
      BY <1>0, <3>1, IncompleteIs
    <3>3. Framed(Unread)
      BY <1>0, <2>1, <2>2, <3>2 DEF Cut
    <3>4. QED
      BY <1>0, <2>1, <2>2, <3>1, <3>3, IncompleteBacktrace
  <2>3. QED
    BY <1>0, <1>m, <2>1, <2>2 DEF Backtraces
<1>13. CASE ReadEnd
  <2>1. /\ reader = "read" /\ reader' = "closing" /\ inbox' = inbox /\ inbox = <<>>
        /\ Unread' = Unread /\ writer' = writer /\ (Piped => writer # "open")
    BY <1>13 DEF ReadEnd, Unread
  <2>2. Unread = pBuffer
    BY <1>0, <1>u, <2>1 DEF Filled
  <2>3. Udp => Backtraces(Unread)
    BY <1>0, <2>1, <2>2, NoMessages
  <2>4. QED
    BY <1>m, <2>1, <2>3
<1>14. CASE Close
  BY <1>14, <1>m DEF Close
<1>15. CASE UNCHANGED vars
  BY <1>15, <1>k DEF vars, Unread
<1>16. QED
  BY <1>1, <1>2, <1>3, <1>4, <1>5, <1>6, <1>7, <1>8, <1>9, <1>10, <1>11, <1>12, <1>13, <1>14,
     <1>15 DEF Next, Writing, Reading

\* No step takes the last byte of an operation from its way without handling it.
LEMMA NextDrop == DropInv /\ [Next]_vars => DropInv'
<1> SUFFICES ASSUME DropInv, [Next]_vars PROVE OnlyBacktracesDropped'
  BY NextFrame, NextOrder, NextLeftovers DEF DropInv
<1>0. /\ FrameInv /\ OrderInv /\ BufferInv /\ TypeOK /\ Filled /\ Media /\ Leftovers
      /\ (~Tcp => Cut) /\ OnlyBacktracesDropped /\ InSync
  BY CutInSync DEF DropInv, FrameInv, BufferInv
<1>m. /\ m_iTransferMode' = m_iTransferMode /\ Udp' = Udp /\ Piped' = Piped
      /\ (Udp => ~Piped /\ ~Tcp) /\ (Piped => ~Tcp)
  <2>1. m_iTransferMode' = m_iTransferMode
    BY SameMode
  <2>2. QED
    BY <2>1 DEF Udp, Piped, Tcp
<1>t. /\ Unread \in Seq(Byte) /\ inbox \in Seq(Byte) /\ batch \in Seq(Byte)
      /\ medium \in Seq(Byte) /\ handled \in Seq(Message) /\ sent \in Seq(Message)
      /\ iSizeRead = 0 => Unread = pBuffer
      /\ reader \in {"idle", "opening"} => Unread = <<>>
      /\ Messages(<<>>) = {}
  BY <1>0, UnreadIs, NoMessages DEF TypeOK
<1>w. \A x : x \in UnderWay <=> \/ x \in Messages(batch) \/ x \in Messages(medium)
                                \/ x \in Messages(inbox) \/ x \in Messages(Unread)
                                \/ \E d \in datagrams : x \in Messages(d)
  <2>1. UnderWay = Way({batch, medium, inbox, Unread} \cup datagrams)
    BY DEF UnderWay, Way
  <2>2. QED
    BY <2>1, WayIs
<1>v. \A x : x \in UnderWay' <=> \/ x \in Messages(batch') \/ x \in Messages(medium')
                                 \/ x \in Messages(inbox') \/ x \in Messages(Unread')
                                 \/ \E d \in datagrams' : x \in Messages(d)
  <2>1. UnderWay' = Way({batch', medium', inbox', Unread'} \cup datagrams')
    BY DEF UnderWay, Way
  <2>2. QED
    BY <2>1, WayIs
<1>n. \A i \in 1..Len(sent) : sent[i].num = i
  BY <1>0 DEF OrderInv
<1> USE DEF readerVars, writerVars, mediumVars
\* what must be shown of a step: whatever leaves the way is handled, or may go
<1>k. ASSUME sent' = sent, earlier' = earlier, Piped /\ writer' = "open" => writer = "open",
             Handled \subseteq Handled',
             ASSUME Udp \/ (Piped /\ writer' = "open"), NEW x \in UnderWay
             PROVE  \/ x \in Handled' \cup UnderWay' \/ x.code = "backtrace"
                    \/ Piped /\ x.num <= earlier
      PROVE  OnlyBacktracesDropped'
  <2> SUFFICES ASSUME Udp \/ (Piped /\ writer' = "open"),
                      NEW i \in (IF Udp THEN 1 ELSE earlier + 1)..Len(sent),
                      sent[i].code # "backtrace"
               PROVE  sent[i] \in Handled' \cup UnderWay'
    BY <1>k, <1>m DEF OnlyBacktracesDropped
  <2>1. sent[i] \in Handled \cup UnderWay
    BY <1>0, <1>k DEF OnlyBacktracesDropped
  <2>2. Piped => ~(sent[i].num <= earlier)
    <3>1. earlier \in Nat /\ Len(sent) \in Nat
      BY <1>0, LenProperties DEF TypeOK
    <3>2. Piped => i \in 1..Len(sent) /\ i > earlier
      BY <1>m, <3>1
    <3>3. QED
      BY <1>n, <3>1, <3>2
  <2>3. QED
    BY <1>k, <2>1, <2>2
<1>s. ASSUME sent' = sent, earlier' = earlier, Piped /\ writer' = "open" => writer = "open",
             handled' = handled,
             Udp \/ (Piped /\ writer' = "open") => UnderWay \subseteq UnderWay'
      PROVE  OnlyBacktracesDropped'
  <2>1. Handled' = Handled
    BY <1>s DEF Handled
  <2>2. QED
    BY <1>k, <1>s, <2>1
<1>1. CASE WriterOpens
  <2>1. /\ batch' = batch /\ medium' = medium /\ datagrams' = datagrams /\ Unread' = Unread
        /\ sent' = sent /\ handled' = handled /\ earlier' = Len(sent)
        /\ inbox' = (IF Tcp THEN <<>> ELSE inbox)
    BY <1>1 DEF WriterOpens, Unread
  <2>2. CASE Udp
    <3>1. Handled' = Handled /\ UnderWay \subseteq UnderWay'
      BY <1>m, <1>w, <1>v, <2>1, <2>2 DEF Handled
    <3>2. QED
      BY <1>0, <1>m, <2>1, <2>2, <3>1 DEF OnlyBacktracesDropped
  <2>3. CASE ~Udp
    <3>1. (Len(sent) + 1)..Len(sent) = {}
      BY <1>t, LenProperties
    <3>2. QED
      BY <1>m, <2>1, <2>3, <3>1 DEF OnlyBacktracesDropped
  <2>4. QED
    BY <2>2, <2>3
<1>2. ASSUME NEW c \in Code, Accept(c) PROVE OnlyBacktracesDropped'
  <2> DEFINE m == [num |-> Len(sent) + 1, code |-> c]  y == Bytes(m)
  <2>1. /\ medium' = medium /\ datagrams' = datagrams /\ Unread' = Unread /\ inbox' = inbox
        /\ handled' = handled /\ earlier' = earlier /\ writer' = writer
        /\ batch' = batch \o y /\ sent' = Append(sent, m)
    BY <1>2 DEF Accept, Unread
  <2>2. m \in Message
    BY <1>t, LenProperties DEF Message
  <2> HIDE DEF m
  <2>3. y \in Seq(Byte) /\ 1 \in 1..Len(y) /\ y[1].msg = m
    <3>1. /\ SizeOf[m.code] \in Nat /\ SizeOf[m.code] >= 1
          /\ y \in Seq(Byte) /\ Len(y) = SizeOf[m.code]
          /\ \A i \in 1..SizeOf[m.code] : y[i] = [msg |-> m, at |-> i]
      BY <2>2, BytesAre
    <3>2. 1 \in 1..SizeOf[m.code]
      BY <3>1
    <3>3. y[1] = [msg |-> m, at |-> 1]
      BY <3>1, <3>2
    <3>4. QED
      BY <3>1, <3>2, <3>3
  <2>4. m \in Messages(y)
    BY <2>3 DEF Messages
  <2> HIDE DEF y
  <2>5. Messages(batch') = Messages(batch) \cup Messages(y)
    BY <1>t, <2>1, <2>3, ConcatMessages
  <2>6. Handled' = Handled /\ UnderWay \subseteq UnderWay' /\ m \in UnderWay'
    BY <1>w, <1>v, <2>1, <2>4, <2>5 DEF Handled
  <2>7. /\ Len(sent) \in Nat /\ Len(sent') = Len(sent) + 1 /\ sent'[Len(sent) + 1] = m
        /\ \A k \in 1..Len(sent) : sent'[k] = sent[k]
    BY <1>t, <2>1, <2>2, AppendProperties, LenProperties
  <2> SUFFICES ASSUME Udp \/ (Piped /\ writer = "open"),
                      NEW i \in (IF Udp THEN 1 ELSE earlier + 1)..(Len(sent) + 1),
                      sent'[i].code # "backtrace"
               PROVE  sent'[i] \in Handled' \cup UnderWay'
    BY <1>m, <2>1, <2>7 DEF OnlyBacktracesDropped
  <2>8. CASE i = Len(sent) + 1
    BY <2>6, <2>7, <2>8
  <2>9. CASE i # Len(sent) + 1
    <3>1. earlier \in Nat
      BY <1>0 DEF TypeOK
    <3>2. i \in (IF Udp THEN 1 ELSE earlier + 1)..Len(sent) /\ i \in 1..Len(sent)
      BY <2>7, <2>9, <3>1
    <3>3. sent'[i] = sent[i]
      BY <2>7, <3>2
    <3>4. sent[i] \in Handled \cup UnderWay
      BY <1>0, <3>2, <3>3 DEF OnlyBacktracesDropped
    <3>5. QED
      BY <2>6, <3>3, <3>4
  <2>10. QED
    BY <2>8, <2>9
<1>3. CASE WriteBatch
  <2>1. /\ inbox' = IF Piped THEN inbox \o batch ELSE inbox
        /\ medium' = (IF Tcp THEN medium \o batch ELSE medium)
        /\ datagrams' = (IF Udp THEN datagrams \cup {batch} ELSE datagrams)
        /\ batch' = <<>> /\ handled' = handled /\ sent' = sent /\ Unread' = Unread
        /\ earlier' = earlier /\ writer' = writer
    BY <1>3 DEF WriteBatch, Unread
  <2>2. CASE Piped
    <3>1. Messages(inbox') = Messages(inbox) \cup Messages(batch)
      BY <1>t, <2>1, <2>2, ConcatMessages
    <3>2. UnderWay \subseteq UnderWay'
      BY <1>m, <1>w, <1>v, <2>1, <2>2, <3>1
    <3>3. QED
      BY <1>s, <2>1, <3>2
  <2>3. CASE Udp
    <3>1. UnderWay \subseteq UnderWay'
      BY <1>m, <1>w, <1>v, <2>1, <2>3
    <3>2. QED
      BY <1>s, <2>1, <3>1
  <2>4. CASE ~Piped /\ ~Udp
    BY <1>s, <2>1, <2>4
  <2>5. QED
    BY <2>2, <2>3, <2>4
<1>4. CASE WriteBroken
  BY <1>4, <1>s, <1>m DEF WriteBroken
<1>5. CASE Arrive
  BY <1>0, <1>5, <1>m, <1>s DEF Arrive, Media
<1>6. CASE ArriveDatagram
  <2>1. PICK d \in datagrams : inbox' = d /\ datagrams' = datagrams \ {d}
    BY <1>6 DEF ArriveDatagram
  <2>2. /\ medium' = medium /\ batch' = batch /\ handled' = handled /\ sent' = sent
        /\ Unread' = Unread /\ earlier' = earlier /\ writer' = writer /\ inbox = <<>>
    BY <1>0, <1>6 DEF ArriveDatagram, Unread, Media, Leftovers
  <2>3. UnderWay \subseteq UnderWay'
    BY <1>t, <1>w, <1>v, <2>1, <2>2
  <2>4. QED
    BY <1>s, <2>2, <2>3
<1>7. CASE WriterCloses
  <2>1. /\ medium' = medium /\ batch' = batch /\ handled' = handled /\ sent' = sent
        /\ Unread' = Unread /\ earlier' = earlier /\ writer' = "none" /\ datagrams' = datagrams
        /\ (Udp => inbox' = inbox)
    BY <1>7, <1>m DEF WriterCloses, Unread
  <2>2. Udp => UnderWay \subseteq UnderWay'
    BY <1>w, <1>v, <2>1
  <2>3. QED
    BY <1>s, <2>1, <2>2
<1>8. CASE Open
  BY <1>8, <1>s, <1>w, <1>v DEF Open, Unread
<1>9. CASE Read
  <2>1. /\ medium' = medium /\ batch' = batch /\ handled' = handled /\ sent' = sent
        /\ earlier' = earlier /\ writer' = writer /\ datagrams' = datagrams
    BY <1>9 DEF Read
  <2>2. Unread' \o inbox' = Unread \o inbox
    BY <1>0, <1>9, ReadIs
  <2>3. Unread' \in Seq(Byte) /\ inbox' \in Seq(Byte)
    <3>1. BufferInv'
      BY <1>0, NextBuffer
    <3>2. TypeOK'
      BY <3>1 DEF BufferInv
    <3>3. Unread' = pBuffer'
      BY <1>0, <1>9, ReadIs
    <3>4. QED
      BY <3>2, <3>3 DEF TypeOK
  <2>4. Messages(Unread') \cup Messages(inbox') = Messages(Unread) \cup Messages(inbox)
    <3>1. Messages(Unread \o inbox) = Messages(Unread) \cup Messages(inbox)
      BY <1>t, ConcatMessages
    <3>2. \A a, b \in Seq(Byte) : Messages(a \o b) = Messages(a) \cup Messages(b)
      BY ConcatMessages
    <3>3. Messages(Unread' \o inbox') = Messages(Unread') \cup Messages(inbox')
      BY <2>3, <3>2
    <3>4. QED
      BY <2>2, <3>1, <3>3
  <2>5. UnderWay \subseteq UnderWay'
    BY <1>w, <1>v, <2>1, <2>4
  <2>6. QED
    BY <1>s, <2>1, <2>5
<1>10. CASE ProcessMsg
  <2>1. /\ medium' = medium /\ batch' = batch /\ sent' = sent /\ inbox' = inbox
        /\ earlier' = earlier /\ writer' = writer /\ datagrams' = datagrams
        /\ reader = "parse"
    BY <1>10 DEF ProcessMsg
  <2>2. Handled \subseteq Handled' /\ (~Tcp => Unread[1].msg \in Handled')
    <3>1. PICK h \in Message : handled' = Append(handled, h) /\ (~Garbled => h = Unread[1].msg)
      <4>1. PICK c \in NextCode :
              handled' = Append(handled, IF Garbled THEN [num |-> 0, code |-> c] ELSE Unread[1].msg)
        BY <1>10 DEF ProcessMsg
      <4>2. c \in Code /\ Unread[1].msg \in Message
        BY <1>0, NextCodeIs
      <4>3. (IF Garbled THEN [num |-> 0, code |-> c] ELSE Unread[1].msg) \in Message
        BY <4>2 DEF Message
      <4>4. QED
        BY <4>1, <4>3
    <3>2. /\ Len(handled) \in Nat /\ Len(handled') = Len(handled) + 1
          /\ handled'[Len(handled) + 1] = h
          /\ \A k \in 1..Len(handled) : handled'[k] = handled[k]
      BY <1>t, <3>1, AppendProperties, LenProperties
    <3>3. h \in Handled'
      <4>1. Len(handled) + 1 \in 1..Len(handled')
        BY <3>2
      <4>2. QED
        BY <3>2, <4>1 DEF Handled
    <3>4. Handled \subseteq Handled'
      <4>1. \A k \in 1..Len(handled) : k \in 1..Len(handled')
        BY <3>2
      <4>2. QED
        BY <3>2, <4>1 DEF Handled
    <3>5. ~Tcp => ~Garbled
      BY <1>0, <2>1 DEF InSync
    <3>6. QED
      BY <3>1, <3>3, <3>4, <3>5
  <2>3. ASSUME ~Tcp PROVE Messages(Unread) \subseteq {Unread[1].msg} \cup Messages(Unread')
    <3> DEFINE u == Unread  z == SizeOf[u[1].msg.code]  s == u \o inbox
    <3>1. u # <<>> /\ z \in 0..Len(u) /\ Unread' = Drop(u, z)
      BY <1>0, <1>10, <2>1, <2>3, MessageDropped DEF InSync
    <3>2. Framed(s)
      BY <1>0, <2>1, <2>3 DEF Cut
    <3>3. z = SizeOf[u[1].msg.code]
      OBVIOUS
    <3> HIDE DEF u, z
    <3>4. u \in Seq(Byte)
      BY <1>t DEF u
    <3>5. /\ s \in Seq(Byte) /\ Len(s) = Len(u) + Len(inbox)
          /\ \A i \in 1..Len(u) : s[i] = u[i]
      BY <1>t, <3>4, ConcatIs
    <3>6. Len(u) \in Nat /\ Len(u) >= 1 /\ Len(inbox) \in Nat /\ 1 \in 1..Len(u)
      BY <1>t, <3>1, <3>4, LenProperties, EmptySeq
    <3>7. s # <<>> /\ s[1] = u[1]
      <4>1. Len(s) # 0 /\ s[1] = u[1]
        BY <3>5, <3>6
      <4>2. QED
        BY <4>1
    <3> HIDE DEF s
    <3>8. \A j \in 1..z : s[j] = [msg |-> u[1].msg, at |-> j]
      <4>1. \A j \in 1..SizeOf[s[1].msg.code] : s[j] = [msg |-> s[1].msg, at |-> j]
        BY <3>2, <3>5, <3>7, FramedFirst
      <4>2. QED
        BY <3>3, <3>7, <4>1
    <3>9. Messages(u) = Messages(SubSeq(u, 1, z)) \cup Messages(Drop(u, z))
      BY <3>1, <3>4, CutMessages
    <3>10. Messages(SubSeq(u, 1, z)) \subseteq {u[1].msg}
      <4>1. Len(SubSeq(u, 1, z)) = z
        BY <3>1, <3>4, SplitSeq
      <4>2. \A j \in 1..z : SubSeq(u, 1, z)[j] = u[j] /\ j \in 1..Len(u)
        BY <3>1, <3>4, <3>6, ElementOfSeq
      <4>3. ASSUME NEW j \in 1..z PROVE SubSeq(u, 1, z)[j].msg = u[1].msg
        <5>1. s[j] = u[j] /\ s[j] = [msg |-> u[1].msg, at |-> j]
          BY <3>5, <3>8, <4>2
        <5>2. SubSeq(u, 1, z)[j] = [msg |-> u[1].msg, at |-> j]
          BY <4>2, <5>1
        <5>3. \A b : b = [msg |-> u[1].msg, at |-> j] => b.msg = u[1].msg
          OBVIOUS
        <5>4. QED
          BY <5>2, <5>3
      <4>4. QED
        BY <4>1, <4>3 DEF Messages
    <3>11. QED
      BY <3>1, <3>9, <3>10 DEF u
  <2>4. ASSUME Udp \/ (Piped /\ writer' = "open"), NEW x \in UnderWay
        PROVE  x \in Handled' \cup UnderWay'
    <3>1. ~Tcp
      BY <1>m, <2>4
    <3>2. x \in Messages(Unread) => x \in Handled' \cup Messages(Unread')
      BY <2>2, <2>3, <3>1
    <3>3. QED
      BY <1>w, <1>v, <2>1, <3>2
  <2>5. QED
    BY <1>k, <2>1, <2>2, <2>4
<1>11. CASE KeepRest
  <2>1. Drop(Unread, 0) = Unread
    BY <1>t, DropNone
  <2>2. Unread' = Unread
    <3>1. pBuffer' = Unread /\ iSizeRead' = 0
      BY <1>11 DEF KeepRest
    <3>2. Unread' = Drop(pBuffer', iSizeRead')
      BY DEF Unread
    <3>3. QED
      BY <2>1, <3>1, <3>2
  <2>3. UnderWay \subseteq UnderWay'
    BY <1>11, <1>w, <1>v, <2>2 DEF KeepRest
  <2>4. QED
    BY <1>11, <1>s, <2>3 DEF KeepRest
<1>12. CASE ProcessError
  BY <1>12, <1>s, <1>w, <1>v DEF ProcessError, Unread
<1>13. CASE ReadEnd
  BY <1>13, <1>s, <1>w, <1>v DEF ReadEnd, Unread
<1>14. CASE Close
  <2>1. /\ medium' = medium /\ batch' = batch /\ handled' = handled /\ sent' = sent
        /\ earlier' = earlier /\ writer' = writer /\ datagrams' = datagrams
        /\ inbox' = (IF Udp \/ (Piped /\ writer # "open") THEN <<>> ELSE inbox)
        /\ reader = "closing"
    BY <1>14 DEF Close
  <2>2. Handled' = Handled
    BY <2>1 DEF Handled
  <2>3. ASSUME Udp \/ (Piped /\ writer' = "open"), NEW x \in UnderWay
        PROVE  \/ x \in Handled' \cup UnderWay' \/ x.code = "backtrace"
               \/ Piped /\ x.num <= earlier
    <3>1. x \in Messages(Unread) => x.code = "backtrace" \/ (Piped /\ x.num <= earlier)
      <4>1. CASE Udp
        BY <1>0, <2>1, <4>1 DEF Leftovers, Backtraces, Messages
      <4>2. CASE Piped /\ writer = "open"
        BY <1>0, <2>1, <4>2 DEF Leftovers, Messages
      <4>3. QED
        BY <2>1, <2>3, <4>1, <4>2
    <3>2. Messages(inbox) \subseteq Messages(inbox')
      BY <1>0, <1>m, <1>t, <2>1, <2>3 DEF Leftovers
    <3>3. QED
      BY <1>w, <1>v, <2>1, <3>1, <3>2
  <2>4. QED
    BY <1>k, <2>1, <2>2, <2>3
<1>15. CASE UNCHANGED vars
  <2>1. UnderWay' = UnderWay
    BY <1>15 DEF vars, UnderWay, Unread
  <2>2. QED
    BY <1>15, <1>s, <2>1 DEF vars
<1>16. QED
  BY <1>1, <1>2, <1>3, <1>4, <1>5, <1>6, <1>7, <1>8, <1>9, <1>10, <1>11, <1>12, <1>13, <1>14,
     <1>15 DEF Next, Writing, Reading

\* The reader drops only backtraces: an operation of a process that lives (in datagrams,
\* of any) is handled or still has a byte under way.
THEOREM SpecOnlyBacktracesDropped == Spec => []OnlyBacktracesDropped
<1>1. DropInv => OnlyBacktracesDropped
  BY DEF DropInv
<1>2. QED
  BY <1>1, InitDrop, NextDrop, PTL DEF Spec
=============================================================================

--------------------------- MODULE StartupProofs ----------------------------
(***************************************************************************)
(* What Startup guarantees for every size of tmpbuf, every size of block   *)
(* and every number of allocations of the loader and the program.          *)
(***************************************************************************)
EXTENDS Startup, FiniteSetTheorems, SequenceTheorems, TLAPS

-----------------------------------------------------------------------------
(* The steps of wrapper_init *)

\* where a block is allocated, in the order of the steps
Early == {"backtrace", "malloc", "calloc"}
Places == Early \cup {"free", "realloc", "aligned", "comm", "env", "none"}

\* What each step is and when a function is known.
LEMMA StepsAre ==
    ASSUME step \in 0..Done
    PROVE  /\ Done = 9 /\ step \in Int /\ 0 <= step /\ step <= 9
           /\ At \in Places
           /\ At = "backtrace" <=> step = 1
           /\ At = "malloc" <=> step = 2
           /\ At = "calloc" <=> step = 3
           /\ At = "free" <=> step = 4
           /\ At = "realloc" <=> step = 5
           /\ At = "aligned" <=> step = 6
           /\ At = "comm" <=> step = 7
           /\ At = "env" <=> step = 8
           /\ Passed("backtrace") <=> step > 1
           /\ Real("malloc") <=> step > 2
           /\ Real("calloc") <=> step > 3
           /\ Real("free") <=> step > 4
           /\ Real("realloc") <=> step > 5
           /\ Real("aligned") <=> step > 6
<1>1. /\ Len(Steps) = 8
      /\ Steps[1] = "backtrace" /\ Steps[2] = "malloc" /\ Steps[3] = "calloc"
      /\ Steps[4] = "free" /\ Steps[5] = "realloc" /\ Steps[6] = "aligned"
      /\ Steps[7] = "comm" /\ Steps[8] = "env"
  BY DEF Steps
<1> HIDE DEF Steps
<1>2. Done = 9
  BY <1>1 DEF Done
<1>3. step \in 0..9
  BY <1>2
<1>4. \A i \in 1..8 : i = 1 \/ i = 2 \/ i = 3 \/ i = 4 \/ i = 5 \/ i = 6 \/ i = 7 \/ i = 8
  OBVIOUS
<1>5. \/ step = 0 /\ At = "none"
      \/ step = 1 /\ At = "backtrace"
      \/ step = 2 /\ At = "malloc"
      \/ step = 3 /\ At = "calloc"
      \/ step = 4 /\ At = "free"
      \/ step = 5 /\ At = "realloc"
      \/ step = 6 /\ At = "aligned"
      \/ step = 7 /\ At = "comm"
      \/ step = 8 /\ At = "env"
      \/ step = 9 /\ At = "none"
  BY <1>1, <1>3 DEF At
<1>6. /\ Passed("backtrace") <=> 1 < step
      /\ Passed("malloc") <=> 2 < step
      /\ Passed("calloc") <=> 3 < step
      /\ Passed("free") <=> 4 < step
      /\ Passed("realloc") <=> 5 < step
      /\ Passed("aligned") <=> 6 < step
  BY <1>1, <1>3, <1>4 DEF Passed
<1>7. QED
  BY <1>2, <1>3, <1>5, <1>6 DEF Real, Places, Early
-----------------------------------------------------------------------------
(* The inductive invariant *)

BlockType == [fn : Allocating, dummy : BOOLEAN, at : Places, reported : BOOLEAN,
              held : BOOLEAN, kept : BOOLEAN, freeReported : BOOLEAN]

\* what a block says of the moment it was allocated, when wrapper_init is at s
BlockFacts(k, s) ==
    /\ k.reported <=> ~(k.fn = "malloc" /\ k.at = "backtrace")
    /\ k.held => ~k.freeReported /\ ~k.kept
    /\ ~k.held => k.freeReported
    /\ k.dummy => k.at \in Early
    /\ ~k.dummy => k.at \notin {"backtrace", "malloc"}
    /\ s <= 4 => k.at \in Early \cup {"free"}
    /\ k.kept => k.at \in {"calloc", "free"}

TypeInv == TypeOK /\ blocks \in Seq(BlockType)

BlocksInv == \A b \in 1..Len(blocks) : BlockFacts(blocks[b], step)

\* only a block of tmpbuf can be misfreed, and only when the real free is known
MisfreedInv == misfreed # NULL => blocks[misfreed].dummy /\ step > 4

\* backtraces are sent when wrapper_init is through
PreparedInv == (g_bSendBacktrace => step = Done) /\ ~unprepared

Freed(list) == {b \in 1..Len(list) : ~list[b].held}

\* each block is reported at most twice before the pipe is open, and a program
\* that runs under the constructor's eyes has the pipe
PipeInv ==
    /\ step = 0 => blocks = <<>> /\ g_preInitPos = 0 /\ ~g_socket
    /\ g_socket => step > 7
    /\ step > 7 /\ res = 0 => g_socket
    /\ program = "running" => step = Done
    /\ program = "running" /\ ~g_socket => initBy # "constructor"
    /\ initBy = "constructor" /\ g_socket => g_preInitPos = 0
    /\ initBy = "constructor" /\ ~g_socket =>
            /\ Len(blocks) <= MaxLookup
            /\ g_preInitPos <= Len(blocks) + Cardinality(Freed(blocks))

Inv == TypeInv /\ BlocksInv /\ MisfreedInv /\ PreparedInv /\ PipeInv

-----------------------------------------------------------------------------
(* Counting the blocks given back *)

\* There are at most as many blocks given back as blocks.
LEMMA FreedIsFinite ==
    ASSUME NEW list \in Seq(BlockType)
    PROVE  /\ IsFiniteSet(Freed(list)) /\ Cardinality(Freed(list)) \in Nat
           /\ Cardinality(Freed(list)) <= Len(list)
<1>1. Len(list) \in Nat
  BY LenProperties
<1>2. IsFiniteSet(1..Len(list)) /\ Cardinality(1..Len(list)) = Len(list)
  BY SMTT(30), <1>1, FS_Interval
<1>3. Freed(list) \subseteq 1..Len(list)
  BY DEF Freed
<1>4. QED
  BY <1>1, <1>2, <1>3, FS_Subset, FS_CardinalityType

\* A new block is not given back;
LEMMA FreedAppend ==
    ASSUME NEW list \in Seq(BlockType), NEW k \in BlockType, k.held
    PROVE  Freed(Append(list, k)) = Freed(list)
<1>1. /\ Len(Append(list, k)) = Len(list) + 1
      /\ \A i \in 1..Len(list) : Append(list, k)[i] = list[i]
      /\ Append(list, k)[Len(list) + 1] = k
  BY AppendProperties
<1>2. Len(list) \in Nat
  BY LenProperties
<1>3. ASSUME NEW b PROVE b \in Freed(Append(list, k)) <=> b \in Freed(list)
  BY <1>1, <1>2 DEF Freed
<1>4. QED
  BY <1>3

\* giving back one that was held makes one more.
LEMMA FreedOne ==
    ASSUME NEW list \in Seq(BlockType), NEW b \in 1..Len(list), list[b].held,
           NEW k \in BlockType, ~k.held
    PROVE  Cardinality(Freed([list EXCEPT ![b] = k])) = Cardinality(Freed(list)) + 1
<1> DEFINE new == [list EXCEPT ![b] = k]
<1>1. Len(new) = Len(list) /\ \A i \in 1..Len(list) : new[i] = IF i = b THEN k ELSE list[i]
  BY ExceptSeq
<1> HIDE DEF new
<1>2. Freed(new) = Freed(list) \cup {b}
  BY <1>1 DEF Freed
<1>3. b \notin Freed(list)
  BY DEF Freed
<1>4. IsFiniteSet(Freed(list))
  BY FreedIsFinite
<1>5. Cardinality(Freed(list) \cup {b}) = Cardinality(Freed(list)) + 1
  BY <1>3, <1>4, FS_AddElement
<1>6. QED
  BY <1>2, <1>5 DEF new

-----------------------------------------------------------------------------
(* One wrapper *)

\* Reports fill the pre-init buffer only while the pipe is not open.
LEMMA ReportFacts ==
    ASSUME TypeInv, PreparedInv, Report
    PROVE  /\ g_preInitPos' \in Nat /\ ~unprepared' /\ unprepared' \in BOOLEAN
           /\ g_socket => g_preInitPos' = g_preInitPos
           /\ g_preInitPos' <= g_preInitPos + 1
<1>1. g_bSendBacktrace => Passed("backtrace")
  BY StepsAre DEF TypeInv, TypeOK, PreparedInv
<1>2. QED
  BY <1>1 DEF Report, TypeInv, TypeOK, PreparedInv

\* Fields of a listed block.
LEMMA BlockFields ==
    ASSUME NEW list \in Seq(BlockType), NEW b \in 1..Len(list)
    PROVE  list[b].fn \in Allocating /\ list[b].held \in BOOLEAN
<1>1. list[b] \in BlockType
  BY ElementOfSeq
<1>2. QED
  BY <1>1 DEF BlockType

\* A step of a wrapper keeps the types when it keeps those of what it changes.
LEMMA WrapperType ==
    ASSUME TypeInv, UNCHANGED <<step, initBy, res, g_socket, g_bSendBacktrace>>,
           program' \in {program, "aborted"}, tmppos' \in 0..(TMPBUF - 1),
           g_preInitPos' \in Nat, unprepared' \in BOOLEAN, misfreed' \in {NULL} \cup 1..Len(blocks'),
           blocks' \in Seq(BlockType)
    PROVE  TypeInv'
<1>1. /\ step \in 0..Done /\ res \in {0, -1}
      /\ initBy \in {NULL, "constructor", "free"} \cup Allocating
      /\ program \in {"loading", "running", "ended", "aborted"}
      /\ g_socket \in BOOLEAN /\ g_bSendBacktrace \in BOOLEAN
  BY DEF TypeInv, TypeOK
<1>2. /\ step' = step /\ res' = res /\ initBy' = initBy /\ g_socket' = g_socket
      /\ g_bSendBacktrace' = g_bSendBacktrace
  OBVIOUS
<1>3. program' \in {"loading", "running", "ended", "aborted"}
  BY <1>1
<1>5. \A b \in 1..Len(blocks') : blocks'[b].fn \in Allocating /\ blocks'[b].held \in BOOLEAN
  BY BlockFields
<1>6. step' \in 0..Done'
  BY <1>1, <1>2 DEF Done, Steps
<1>7. TypeOK'
  BY <1>1, <1>2, <1>3, <1>5, <1>6 DEF TypeOK, Allocating
<1>8. QED
  BY <1>7 DEF TypeInv, BlockType, Places, Early, Allocating

\* A list of blocks that keep the facts, and a new block with them.
LEMMA AppendBlocks ==
    ASSUME NEW list \in Seq(BlockType), NEW s, NEW k \in BlockType,
           \A b \in 1..Len(list) : BlockFacts(list[b], s), BlockFacts(k, s)
    PROVE  /\ Append(list, k) \in Seq(BlockType) /\ Len(Append(list, k)) = Len(list) + 1
           /\ Len(list) \in Nat
           /\ \A b \in 1..Len(list) : Append(list, k)[b] = list[b]
           /\ \A b \in 1..Len(Append(list, k)) : BlockFacts(Append(list, k)[b], s)
<1> DEFINE new == Append(list, k)
<1>1. /\ new \in Seq(BlockType) /\ Len(new) = Len(list) + 1
      /\ \A i \in 1..Len(list) : new[i] = list[i]
      /\ new[Len(list) + 1] = k
  BY AppendProperties
<1>2. Len(list) \in Nat
  BY LenProperties
<1> HIDE DEF new
<1>3. \A b \in 1..Len(new) : BlockFacts(new[b], s)
  BY <1>1, <1>2
<1>4. QED
  BY <1>1, <1>2, <1>3 DEF new

\* A new block has the facts.
LEMMA BlockIsBlock ==
    ASSUME TypeInv, step > 0, NEW f \in Allocating,
           f \in {"malloc", "calloc"} \/ step = Done
    PROVE  /\ Block(f, ~Real(f)) \in BlockType /\ BlockFacts(Block(f, ~Real(f)), step)
           /\ Block(f, ~Real(f)).held
           /\ f \in {"malloc", "calloc"} \/ Real(f)
<1>1. step \in 0..Done
  BY DEF TypeInv, TypeOK
<1>2. /\ At \in Places /\ Real(f) \in BOOLEAN
  BY <1>1, StepsAre DEF Real, Passed
<1>3. Block(f, ~Real(f)) \in BlockType
  BY <1>2 DEF Block, BlockType, Ignored
<1>4. Real(f) => step > 2 /\ (f = "calloc" => step > 3)
                /\ (f \notin {"malloc", "calloc"} => step > 5)
  BY <1>1, StepsAre DEF Allocating
<1>5. /\ ~Real(f) /\ f = "malloc" => step <= 2
      /\ ~Real(f) /\ f = "calloc" => step <= 3
      /\ step = Done => Real(f)
  BY <1>1, StepsAre DEF Allocating
<1>6. BlockFacts(Block(f, ~Real(f)), step)
  <2> DEFINE k == Block(f, ~Real(f))
  <2>1. /\ k.fn = f /\ k.dummy = ~Real(f) /\ k.at = At /\ k.reported = ~Ignored(f)
        /\ k.held = TRUE /\ k.kept = FALSE /\ k.freeReported = FALSE
    BY DEF Block
  <2>2. Ignored(f) <=> f = "malloc" /\ At = "backtrace"
    BY DEF Ignored
  <2>3. /\ ~Real(f) => At \in Early
        /\ Real(f) => At \notin {"backtrace", "malloc"}
        /\ step <= 4 => At \in Early \cup {"free"}
    <3>1. ~Real(f) => step <= 3
      BY <1>1, <1>5, StepsAre DEF Allocating
    <3>2. Real(f) => step > 2
      BY <1>4
    <3>3. step <= 3 => At \in Early
      BY <1>1, StepsAre DEF Early
    <3>4. step > 2 => At \notin {"backtrace", "malloc"}
      BY <1>1, StepsAre
    <3>5. step = 4 => At = "free"
      BY <1>1, StepsAre
    <3>6. step \in Int
      BY <1>1, StepsAre
    <3>7. QED
      BY <3>1, <3>2, <3>3, <3>4, <3>5, <3>6
  <2> HIDE DEF k
  <2>4. BlockFacts(k, step)
    BY <2>1, <2>2, <2>3 DEF BlockFacts
  <2>5. QED
    BY <2>4 DEF k
<1>7. QED
  BY <1>3, <1>5, <1>6 DEF Block

\* What the conjuncts about start-up need of a step of a wrapper.
LEMMA WrapperPipe ==
    ASSUME TypeInv, PipeInv, step > 0, UNCHANGED <<step, initBy, res, g_socket>>,
           program' \in {program, "aborted"},
           g_socket => g_preInitPos' = g_preInitPos,
           initBy = "constructor" /\ ~g_socket =>
                /\ Len(blocks') <= MaxLookup
                /\ g_preInitPos' <= Len(blocks') + Cardinality(Freed(blocks'))
    PROVE  PipeInv'
<1>1. /\ step' = step /\ initBy' = initBy /\ res' = res /\ g_socket' = g_socket
      /\ step \in Int /\ step' # 0
  BY StepsAre DEF TypeInv, TypeOK
<1>2. /\ program' = "running" => program = "running"
      /\ initBy' = "constructor" /\ g_socket' => g_preInitPos' = 0
  BY <1>1 DEF PipeInv
<1>3. /\ g_socket' => step' > 7
      /\ step' > 7 /\ res' = 0 => g_socket'
      /\ program' = "running" => step' = Done
      /\ program' = "running" /\ ~g_socket' => initBy' # "constructor"
  BY <1>1, <1>2 DEF PipeInv
<1>4. initBy' = "constructor" /\ ~g_socket' =>
          /\ Len(blocks') <= MaxLookup
          /\ g_preInitPos' <= Len(blocks') + Cardinality(Freed(blocks'))
  BY <1>1
<1>5. step' = 0 => blocks' = <<>> /\ g_preInitPos' = 0 /\ ~g_socket'
  BY <1>1
<1>6. QED
  BY <1>2, <1>3, <1>4, <1>5 DEF PipeInv, Freed, Done, Steps

\* An allocation keeps the invariant.
LEMMA AllocateStep ==
    ASSUME Inv, step > 0, NEW f \in Allocating, NEW size \in Sizes, Allocate(f, size),
           Fits(f, size), f \in {"malloc", "calloc"} \/ step = Done,
           initBy = "constructor" /\ ~g_socket => Len(blocks) < MaxLookup
    PROVE  Inv'
<1> DEFINE k == Block(f, ~Real(f))  n == Len(blocks)
<1>1. /\ TypeInv /\ BlocksInv /\ MisfreedInv /\ PreparedInv /\ PipeInv
      /\ blocks \in Seq(BlockType) /\ step \in 0..Done
  BY DEF Inv, TypeInv, TypeOK
<1>2. k \in BlockType /\ BlockFacts(k, step) /\ k.held
  BY <1>1, BlockIsBlock
<1>3. /\ blocks' = Append(blocks, k)
      /\ UNCHANGED <<step, initBy, res, program, g_socket, g_bSendBacktrace, misfreed>>
      /\ tmppos' = IF Real(f) THEN tmppos ELSE tmppos + size
      /\ Report \/ NoReport
  BY DEF Allocate, initVars
<1>4. /\ blocks' \in Seq(BlockType) /\ Len(blocks') = n + 1 /\ n \in Nat
      /\ \A b \in 1..n : blocks'[b] = blocks[b]
      /\ \A b \in 1..Len(blocks') : BlockFacts(blocks'[b], step)
  BY <1>1, <1>2, <1>3, AppendBlocks DEF BlocksInv
<1>5. Freed(blocks') = Freed(blocks)
  BY <1>1, <1>2, <1>3, FreedAppend
<1>6. /\ g_preInitPos' \in Nat /\ ~unprepared' /\ unprepared' \in BOOLEAN /\ g_preInitPos \in Nat
      /\ g_socket => g_preInitPos' = g_preInitPos
      /\ g_preInitPos' <= g_preInitPos + 1
  <2>1. g_preInitPos \in Nat /\ ~unprepared /\ unprepared \in BOOLEAN
    BY <1>1 DEF TypeInv, TypeOK, PreparedInv
  <2>2. CASE Report
    BY <1>1, <2>1, <2>2, ReportFacts
  <2>3. CASE NoReport
    BY <2>1, <2>3 DEF NoReport
  <2>4. QED
    BY <1>3, <2>2, <2>3
<1>7. tmppos' \in 0..(TMPBUF - 1)
  BY <1>1, <1>3, StartupAssumption DEF Fits, TypeInv, TypeOK
<1> HIDE DEF k, n
<1>9. misfreed' \in {NULL} \cup 1..Len(blocks')
  BY <1>1, <1>3, <1>4 DEF TypeInv, TypeOK, n
<1>10. TypeInv'
  BY <1>1, <1>3, <1>4, <1>6, <1>7, <1>9, WrapperType
<1>11. BlocksInv'
  BY <1>3, <1>4 DEF BlocksInv
<1>12. MisfreedInv'
  BY <1>1, <1>3, <1>4 DEF MisfreedInv, TypeInv, TypeOK, n
<1>13. PreparedInv'
  BY <1>1, <1>3, <1>6 DEF PreparedInv, Done, Steps
<1>14. PipeInv'
  <2>1. initBy = "constructor" /\ ~g_socket =>
          /\ Len(blocks') <= MaxLookup
          /\ g_preInitPos' <= Len(blocks') + Cardinality(Freed(blocks'))
    <3>1. Cardinality(Freed(blocks)) \in Nat /\ MaxLookup \in Nat
      BY <1>1, FreedIsFinite, StartupAssumption
    <3>2. initBy = "constructor" /\ ~g_socket => g_preInitPos <= n + Cardinality(Freed(blocks))
      BY <1>1 DEF PipeInv, n
    <3>3. QED
      BY <1>4, <1>5, <1>6, <3>1, <3>2 DEF n
  <2>2. QED
    BY <1>1, <1>3, <1>6, <2>1, WrapperPipe
<1>15. QED
  BY <1>10, <1>11, <1>12, <1>13, <1>14 DEF Inv

\* What giving a block back does to misfreed and to the program.
LEMMA GiveBackFacts ==
    ASSUME Inv, NEW b \in 1..Len(blocks), NEW f \in {"free", "realloc"}, GiveBack(b, f)
    PROVE  /\ program' \in {program, "aborted"}
           /\ misfreed' \in {NULL} \cup 1..Len(blocks)
           /\ misfreed' # NULL => blocks[misfreed'].dummy /\ step > 4
<1>1. Real(f) => step > 4
  BY StepsAre DEF Inv, TypeInv, TypeOK
<1>2. misfreed \in {NULL} \cup 1..Len(blocks) /\ (misfreed # NULL => blocks[misfreed].dummy /\ step > 4)
  BY DEF Inv, TypeInv, TypeOK, MisfreedInv
<1>3. QED
  BY <1>1, <1>2 DEF GiveBack

\* A release keeps the invariant.
LEMMA FreeStep ==
    ASSUME Inv, step > 0, NEW b \in 1..Len(blocks), Free(b)
    PROVE  Inv'
<1> DEFINE k == [blocks[b] EXCEPT !.held = FALSE, !.freeReported = TRUE,
                                  !.kept = ~Real("free") /\ ~blocks[b].dummy]
           n == Len(blocks)
<1>1. /\ TypeInv /\ BlocksInv /\ MisfreedInv /\ PreparedInv /\ PipeInv
      /\ blocks \in Seq(BlockType) /\ step \in 0..Done
  BY DEF Inv, TypeInv, TypeOK
<1>2. /\ blocks[b] \in BlockType /\ blocks[b].held /\ BlockFacts(blocks[b], step)
  BY <1>1 DEF Free, BlocksInv
<1>3. /\ blocks' = [blocks EXCEPT ![b] = k]
      /\ UNCHANGED <<step, initBy, res, tmppos, g_socket, g_bSendBacktrace>>
      /\ Report /\ GiveBack(b, "free")
  <2>1. [blocks EXCEPT ![b].held = FALSE, ![b].freeReported = TRUE,
                       ![b].kept = ~Real("free") /\ ~blocks[b].dummy]
          = [blocks EXCEPT ![b] = k]
    BY <1>1, <1>2
  <2>2. QED
    BY <2>1 DEF Free
<1>4. /\ k \in BlockType
      /\ k.fn = blocks[b].fn /\ k.at = blocks[b].at /\ k.reported = blocks[b].reported
      /\ k.dummy = blocks[b].dummy /\ k.held = FALSE /\ k.freeReported = TRUE
      /\ k.kept = (~Real("free") /\ ~blocks[b].dummy)
  BY <1>2 DEF BlockType
<1> HIDE DEF k
<1>5. ~Real("free") => step <= 4
  BY <1>1, StepsAre
<1>6. BlockFacts(k, step)
  <2>1. k.kept => k.at \in {"calloc", "free"}
    <3>1. k.kept => step <= 4 /\ ~blocks[b].dummy
      BY <1>4, <1>5
    <3>2. QED
      BY <1>2, <1>4, <3>1 DEF BlockFacts, Early
  <2>2. QED
    BY <1>2, <1>4, <2>1 DEF BlockFacts
<1>7. /\ Len(blocks') = n /\ blocks' \in Seq(BlockType) /\ n \in Nat
      /\ \A i \in 1..n : blocks'[i] = IF i = b THEN k ELSE blocks[i]
  BY <1>1, <1>3, <1>4, ExceptSeq, LenProperties
<1>8. \A i \in 1..n : BlockFacts(blocks'[i], step) /\ blocks'[i].dummy = blocks[i].dummy
  BY <1>1, <1>4, <1>6, <1>7 DEF BlocksInv
<1>9. Cardinality(Freed(blocks')) = Cardinality(Freed(blocks)) + 1
  BY <1>1, <1>2, <1>3, <1>4, FreedOne
<1>10. /\ program' \in {program, "aborted"}
       /\ misfreed' \in {NULL} \cup 1..n
       /\ misfreed' # NULL => blocks[misfreed'].dummy /\ step > 4
  BY <1>3, GiveBackFacts
<1>11. /\ g_preInitPos' \in Nat /\ ~unprepared' /\ unprepared' \in BOOLEAN /\ g_preInitPos \in Nat
       /\ g_socket => g_preInitPos' = g_preInitPos
       /\ g_preInitPos' <= g_preInitPos + 1
  BY <1>1, <1>3, ReportFacts DEF TypeInv, TypeOK
<1> HIDE DEF n
<1>12. tmppos' \in 0..(TMPBUF - 1) /\ misfreed' \in {NULL} \cup 1..Len(blocks')
  BY <1>1, <1>3, <1>7, <1>10 DEF TypeInv, TypeOK
<1>13. TypeInv'
  BY <1>1, <1>3, <1>7, <1>10, <1>11, <1>12, WrapperType
<1>14. BlocksInv'
  BY <1>3, <1>7, <1>8 DEF BlocksInv
<1>15. MisfreedInv'
  BY <1>3, <1>8, <1>10 DEF MisfreedInv
<1>16. PreparedInv'
  BY <1>1, <1>3, <1>11 DEF PreparedInv, Done, Steps
<1>17. PipeInv'
  <2>1. initBy = "constructor" /\ ~g_socket =>
          /\ Len(blocks') <= MaxLookup
          /\ g_preInitPos' <= Len(blocks') + Cardinality(Freed(blocks'))
    <3>1. Cardinality(Freed(blocks)) \in Nat
      BY <1>1, FreedIsFinite
    <3>2. initBy = "constructor" /\ ~g_socket
            => n <= MaxLookup /\ g_preInitPos <= n + Cardinality(Freed(blocks))
      BY <1>1 DEF PipeInv, n
    <3>3. QED
      BY <1>7, <1>9, <1>11, <3>1, <3>2
  <2>2. QED
    BY <1>1, <1>3, <1>10, <1>11, <2>1, WrapperPipe
<1>18. QED
  BY <1>13, <1>14, <1>15, <1>16, <1>17 DEF Inv

\* A realloc keeps the invariant.
LEMMA ReallocStep ==
    ASSUME Inv, step = Done, NEW b \in 1..Len(blocks), Realloc(b),
           initBy = "constructor" => g_socket
    PROVE  Inv'
<1> DEFINE k == [blocks[b] EXCEPT !.held = FALSE, !.freeReported = TRUE]
           new == Block("realloc", ~Real("realloc"))
           list == [blocks EXCEPT ![b] = k]
           n == Len(blocks)
<1>1. /\ TypeInv /\ BlocksInv /\ MisfreedInv /\ PreparedInv /\ PipeInv
      /\ blocks \in Seq(BlockType) /\ step \in 0..Done /\ step > 0 /\ n \in Nat
  BY StepsAre, LenProperties DEF Inv, TypeInv, TypeOK
<1>2. /\ blocks[b] \in BlockType /\ blocks[b].held /\ BlockFacts(blocks[b], step)
  BY <1>1 DEF Realloc, BlocksInv
<1>3. /\ UNCHANGED <<step, initBy, res, tmppos, g_socket, g_bSendBacktrace>>
      /\ GiveBack(b, "realloc")
  BY DEF Realloc
<1>4. /\ program' \in {program, "aborted"}
      /\ misfreed' \in {NULL} \cup 1..n
      /\ misfreed' # NULL => blocks[misfreed'].dummy /\ step > 4
  BY <1>3, GiveBackFacts
<1>5. /\ new \in BlockType /\ BlockFacts(new, step) /\ new = Block("realloc", FALSE)
  <2>1. Real("realloc") /\ Real("realloc") \in BOOLEAN
    BY <1>1, StepsAre DEF Real, Passed
  <2>2. new = Block("realloc", FALSE)
    BY <2>1
  <2>3. "realloc" \in Allocating
    BY DEF Allocating
  <2>4. QED
    BY <1>1, <2>2, <2>3, BlockIsBlock
<1>6. /\ k \in BlockType
      /\ k.fn = blocks[b].fn /\ k.at = blocks[b].at /\ k.reported = blocks[b].reported
      /\ k.dummy = blocks[b].dummy /\ k.held = FALSE /\ k.freeReported = TRUE
      /\ k.kept = blocks[b].kept
  BY <1>2 DEF BlockType
<1> HIDE DEF k, new
<1>7. BlockFacts(k, step)
  BY <1>2, <1>6 DEF BlockFacts
<1>8. /\ list \in Seq(BlockType) /\ Len(list) = n
      /\ \A i \in 1..n : list[i] = IF i = b THEN k ELSE blocks[i]
  BY <1>1, <1>6, ExceptSeq
<1>9. \A i \in 1..n : BlockFacts(list[i], step) /\ list[i].dummy = blocks[i].dummy
  BY <1>1, <1>6, <1>7, <1>8 DEF BlocksInv
<1>10. \/ blocks' = blocks /\ NoReport
       \/ blocks' = Append(list, new) /\ Report
  <2>1. [blocks EXCEPT ![b].held = FALSE, ![b].freeReported = TRUE] = list
    BY <1>1, <1>2 DEF k
  <2>2. QED
    BY <1>5, <2>1 DEF Realloc
<1> HIDE DEF list, n
<1>11. /\ blocks' \in Seq(BlockType) /\ n <= Len(blocks')
       /\ \A i \in 1..n : blocks'[i].dummy = blocks[i].dummy
       /\ \A i \in 1..Len(blocks') : BlockFacts(blocks'[i], step)
  <2>1. CASE blocks' = blocks
    BY <1>1, <2>1 DEF BlocksInv, n
  <2>2. CASE blocks' = Append(list, new)
    <3>1. /\ Append(list, new) \in Seq(BlockType) /\ Len(Append(list, new)) = n + 1
          /\ \A i \in 1..n : Append(list, new)[i] = list[i]
          /\ \A i \in 1..Len(Append(list, new)) : BlockFacts(Append(list, new)[i], step)
      BY <1>5, <1>8, <1>9, AppendBlocks
    <3>2. QED
      BY <1>1, <1>9, <2>2, <3>1
  <2>3. QED
    BY <1>10, <2>1, <2>2
<1>12. /\ g_preInitPos' \in Nat /\ ~unprepared' /\ unprepared' \in BOOLEAN
       /\ g_socket => g_preInitPos' = g_preInitPos
  <2>1. g_preInitPos \in Nat /\ ~unprepared /\ unprepared \in BOOLEAN
    BY <1>1 DEF TypeInv, TypeOK, PreparedInv
  <2>2. CASE Report
    BY <1>1, <2>1, <2>2, ReportFacts
  <2>3. CASE NoReport
    BY <2>1, <2>3 DEF NoReport
  <2>4. QED
    BY <1>10, <2>2, <2>3
<1>13. tmppos' \in 0..(TMPBUF - 1) /\ misfreed' \in {NULL} \cup 1..Len(blocks')
  <2>1. tmppos' \in 0..(TMPBUF - 1)
    BY <1>1, <1>3 DEF TypeInv, TypeOK
  <2>2. 1..n \subseteq 1..Len(blocks')
    BY <1>1, <1>11, LenProperties
  <2>3. QED
    BY <1>4, <2>1, <2>2
<1>14. TypeInv'
  BY <1>1, <1>3, <1>4, <1>11, <1>12, <1>13, WrapperType
<1>15. BlocksInv'
  BY <1>3, <1>11 DEF BlocksInv
<1>16. MisfreedInv'
  BY <1>3, <1>4, <1>11 DEF MisfreedInv
<1>17. PreparedInv'
  BY <1>1, <1>3, <1>12 DEF PreparedInv, Done, Steps
<1>18. PipeInv'
  BY <1>1, <1>3, <1>4, <1>12, WrapperPipe
<1>19. QED
  BY <1>14, <1>15, <1>16, <1>17, <1>18 DEF Inv

-----------------------------------------------------------------------------
(* Every step *)

\* The steps of wrapper_init and the constructor report nothing.
LEMMA QuietStep ==
    ASSUME Inv, UNCHANGED <<tmppos, blocks, misfreed, unprepared>>, PipeInv',
           step' \in 0..Done, step <= step', initBy' \in {NULL, "constructor", "free"} \cup Allocating,
           res' \in {0, -1}, program' \in {"loading", "running", "ended", "aborted"},
           g_socket' \in BOOLEAN, g_preInitPos' \in Nat, g_bSendBacktrace' \in BOOLEAN,
           g_bSendBacktrace' => step' = Done
    PROVE  Inv'
<1>1. /\ TypeInv /\ BlocksInv /\ MisfreedInv /\ PreparedInv
      /\ blocks' = blocks /\ misfreed' = misfreed /\ step \in Int /\ step' \in Int
  BY StepsAre DEF Inv, TypeInv, TypeOK, Done, Steps
<1>2. TypeInv'
  <2>1. /\ tmppos' \in 0..(TMPBUF - 1) /\ unprepared' \in BOOLEAN
        /\ misfreed' \in {NULL} \cup 1..Len(blocks') /\ blocks' \in Seq(BlockType)
    BY <1>1 DEF TypeInv, TypeOK
  <2>2. \A b \in 1..Len(blocks') : blocks'[b].fn \in Allocating /\ blocks'[b].held \in BOOLEAN
    BY <2>1, BlockFields
  <2>3. step' \in 0..Done'
    BY DEF Done, Steps
  <2>4. TypeOK'
    BY <2>1, <2>2, <2>3 DEF TypeOK, Allocating
  <2>5. QED
    BY <2>1, <2>4 DEF TypeInv, BlockType, Places, Early, Allocating
<1>3. BlocksInv'
  <2>1. \A k : BlockFacts(k, step) => BlockFacts(k, step')
    BY <1>1 DEF BlockFacts
  <2>2. QED
    BY <1>1, <2>1 DEF BlocksInv
<1>4. MisfreedInv'
  BY <1>1 DEF MisfreedInv
<1>5. PreparedInv'
  BY <1>1 DEF PreparedInv, Done, Steps
<1>6. QED
  BY <1>2, <1>3, <1>4, <1>5 DEF Inv

\* The invariant holds at the start,
LEMMA InitInv == Init => Inv
<1> SUFFICES ASSUME Init PROVE Inv
  OBVIOUS
<1>1. Done = 9
  BY DEF Done, Steps
<1>2. /\ step = 0 /\ initBy = NULL /\ res = 0 /\ program = "loading" /\ tmppos = 0
      /\ g_socket = FALSE /\ g_preInitPos = 0 /\ g_bSendBacktrace = FALSE
      /\ blocks = <<>> /\ misfreed = NULL /\ unprepared = FALSE
  BY DEF Init
<1>3. <<>> \in Seq(BlockType) /\ Len(<<>>) = 0
  OBVIOUS
<1>4. TypeInv
  <2>1. step \in 0..Done /\ tmppos \in 0..(TMPBUF - 1) /\ g_preInitPos \in Nat
    BY <1>1, <1>2, StartupAssumption
  <2>2. misfreed \in {NULL} \cup 1..Len(blocks) /\ blocks \in Seq(BlockType)
    BY <1>2, <1>3
  <2>3. \A b \in 1..Len(blocks) : blocks[b].fn \in Allocating /\ blocks[b].held \in BOOLEAN
    BY <1>2, <1>3
  <2>4. QED
    BY <1>2, <2>1, <2>2, <2>3 DEF TypeInv, TypeOK
<1>5. BlocksInv
  BY <1>2, <1>3 DEF BlocksInv
<1>6. MisfreedInv /\ PreparedInv
  BY <1>2 DEF MisfreedInv, PreparedInv
<1>7. PipeInv
  <2>1. Cardinality(Freed(blocks)) \in Nat
    BY <1>2, <1>3, FreedIsFinite
  <2>2. Len(blocks) = 0 /\ MaxLookup \in Nat
    BY <1>2, <1>3, StartupAssumption
  <2>3. initBy = "constructor" /\ ~g_socket =>
            /\ Len(blocks) <= MaxLookup
            /\ g_preInitPos <= Len(blocks) + Cardinality(Freed(blocks))
    BY <1>2, <2>1, <2>2
  <2>4. QED
    BY <1>2, <2>3 DEF PipeInv
<1>8. QED
  BY <1>4, <1>5, <1>6, <1>7 DEF Inv

\* and every step keeps it.
LEMMA NextInv == Inv /\ [Next]_vars => Inv'
<1> SUFFICES ASSUME Inv, [Next]_vars PROVE Inv'
  OBVIOUS
<1>1. /\ TypeInv /\ PreparedInv /\ PipeInv /\ step \in 0..Done /\ step \in Int /\ Done = 9
      /\ initBy \in {NULL, "constructor", "free"} \cup Allocating /\ res \in {0, -1}
      /\ program \in {"loading", "running", "ended", "aborted"}
      /\ g_socket \in BOOLEAN /\ g_preInitPos \in Nat /\ g_bSendBacktrace \in BOOLEAN
      /\ blocks \in Seq(BlockType)
  BY StepsAre DEF Inv, TypeInv, TypeOK
<1>2. Done' = Done
  BY DEF Done, Steps
<1>3. ASSUME NEW c \in {"constructor", "free"} \cup Allocating, Begin(c) PROVE Inv'
  <2>1. /\ step = 0 /\ step' = 1 /\ initBy' = c
        /\ UNCHANGED <<res, program, tmppos, g_socket, g_preInitPos, g_bSendBacktrace,
                       blocks, misfreed, unprepared>>
    BY <1>3 DEF Begin, commVars
  <2>2. blocks = <<>> /\ g_preInitPos = 0 /\ ~g_socket /\ program # "running"
    BY <1>1, <2>1 DEF PipeInv
  <2>3. Cardinality(Freed(blocks)) \in Nat /\ Len(blocks) = 0 /\ MaxLookup \in Nat
    BY <1>1, <2>2, FreedIsFinite, StartupAssumption
  <2>4. /\ Len(blocks') <= MaxLookup
        /\ g_preInitPos' <= Len(blocks') + Cardinality(Freed(blocks'))
    BY <2>1, <2>2, <2>3
  <2>5. PipeInv'
    BY <2>1, <2>2, <2>4 DEF PipeInv, Freed
  <2>6. ~g_bSendBacktrace
    BY <1>1, <2>1 DEF PreparedInv
  <2>7. QED
    BY <1>1, <2>1, <2>5, <2>6, QuietStep
<1>4. ASSUME LookUp PROVE Inv'
  <2>1. /\ step' = step + 1 /\ step > 0 /\ step <= 6
        /\ UNCHANGED <<initBy, res, program, tmppos, g_socket, g_preInitPos, g_bSendBacktrace,
                       blocks, misfreed, unprepared>>
    <3>1. At \in {"backtrace", "malloc", "calloc", "free", "realloc", "aligned"}
      BY <1>4 DEF LookUp
    <3>2. step > 0 /\ step <= 6
      BY <1>1, <3>1, StepsAre
    <3>3. QED
      BY <1>4, <3>2 DEF LookUp, commVars
  <2>2. ~g_socket /\ program # "running"
    BY <1>1, <2>1 DEF PipeInv
  <2>3. PipeInv'
    BY <1>1, <2>1, <2>2 DEF PipeInv, Freed
  <2>4. ~g_bSendBacktrace
    BY <1>1, <2>1 DEF PreparedInv
  <2>5. step' \in 0..Done
    BY <1>1, <2>1
  <2>6. QED
    BY <1>1, <2>1, <2>3, <2>4, <2>5, QuietStep
<1>5. ASSUME InitComm PROVE Inv'
  <2>1. /\ step = 7 /\ step' = 8
        /\ UNCHANGED <<initBy, program, tmppos, g_bSendBacktrace, blocks, misfreed, unprepared>>
        /\ \/ g_socket' = TRUE /\ g_preInitPos' = 0 /\ res' = 0
           \/ res' = -1 /\ UNCHANGED <<g_socket, g_preInitPos>>
    <3>1. At = "comm"
      BY <1>5 DEF InitComm
    <3>2. step = 7
      BY <1>1, <3>1, StepsAre
    <3>3. QED
      BY <1>5, <3>2 DEF InitComm, commVars
  <2>2. ~g_socket /\ program # "running"
    BY <1>1, <2>1 DEF PipeInv
  <2>3. PipeInv'
    <3>1. CASE g_socket' = TRUE /\ g_preInitPos' = 0 /\ res' = 0
      BY <2>1, <2>2, <3>1 DEF PipeInv
    <3>2. CASE res' = -1 /\ UNCHANGED <<g_socket, g_preInitPos>>
      BY <1>1, <2>1, <2>2, <3>2 DEF PipeInv, Freed
    <3>3. QED
      BY <2>1, <3>1, <3>2
  <2>4. ~g_bSendBacktrace
    BY <1>1, <2>1 DEF PreparedInv
  <2>5. step' \in 0..Done /\ res' \in {0, -1} /\ g_socket' \in BOOLEAN /\ g_preInitPos' \in Nat
    <3>1. step' \in 0..Done
      BY <1>1, <2>1
    <3>2. CASE g_socket' = TRUE /\ g_preInitPos' = 0 /\ res' = 0
      BY <3>1, <3>2
    <3>3. CASE res' = -1 /\ UNCHANGED <<g_socket, g_preInitPos>>
      BY <1>1, <3>1, <3>3
    <3>4. QED
      BY <2>1, <3>2, <3>3
  <2>6. QED
    BY <1>1, <2>1, <2>3, <2>4, <2>5, QuietStep
<1>6. ASSUME ReadEnv PROVE Inv'
  <2>1. /\ step = 8 /\ step' = 9 /\ g_bSendBacktrace' \in BOOLEAN
        /\ UNCHANGED <<initBy, res, program, tmppos, g_socket, g_preInitPos,
                       blocks, misfreed, unprepared>>
    <3>1. At = "env"
      BY <1>6 DEF ReadEnv
    <3>2. step = 8
      BY <1>1, <3>1, StepsAre
    <3>3. QED
      BY <1>6, <3>2 DEF ReadEnv, commVars
  <2>2. program # "running"
    BY <1>1, <2>1 DEF PipeInv
  <2>3. PipeInv'
    BY <1>1, <2>1, <2>2 DEF PipeInv, Freed
  <2>4. step' \in 0..Done /\ step' = Done
    BY <1>1, <2>1
  <2>5. QED
    BY <1>1, <2>1, <2>3, <2>4, QuietStep
<1>7. ASSUME ConstructorReturns PROVE Inv'
  <2>1. /\ step = Done /\ step' = step
        /\ program' = IF initBy = "constructor" /\ res # 0 THEN "ended" ELSE "running"
        /\ UNCHANGED <<initBy, res, tmppos, g_socket, g_preInitPos, g_bSendBacktrace,
                       blocks, misfreed, unprepared>>
    BY <1>7 DEF ConstructorReturns, commVars
  <2>2. program' = "running" /\ ~g_socket => initBy # "constructor"
    BY <1>1, <2>1 DEF PipeInv
  <2>3. PipeInv'
    BY <1>1, <1>2, <2>1, <2>2 DEF PipeInv, Freed
  <2>4. QED
    BY <1>1, <2>1, <2>3, QuietStep
<1>8. ASSUME Loader PROVE Inv'
  <2>1. At \in {"backtrace", "malloc", "calloc", "free", "realloc", "aligned"}
    BY <1>8 DEF Loader
  <2>2. step > 0 /\ step <= 6
    BY <1>1, <2>1, StepsAre
  <2>3. ASSUME Len(blocks) < MaxLookup, NEW f \in {"malloc", "calloc"}, NEW size \in Sizes,
               Fits(f, size), Allocate(f, size)
        PROVE  Inv'
    <3>1. f \in Allocating
      BY DEF Allocating
    <3>2. QED
      BY <2>2, <2>3, <3>1, AllocateStep
  <2>4. ASSUME NEW f \in {"malloc", "calloc"}, NEW size \in Sizes, TmpbufFull(f, size)
        PROVE  Inv'
    <3>1. /\ program' = "ended"
          /\ UNCHANGED <<step, initBy, res, tmppos, g_socket, g_preInitPos, g_bSendBacktrace,
                         blocks, misfreed, unprepared>>
      BY <2>4 DEF TmpbufFull, commVars
    <3>2. PipeInv'
      BY <1>1, <1>2, <3>1 DEF PipeInv, Freed
    <3>3. g_bSendBacktrace' => step' = Done
      BY <1>1, <3>1 DEF PreparedInv
    <3>4. QED
      BY <1>1, <3>1, <3>2, <3>3, QuietStep
  <2>5. ASSUME NEW b \in 1..Len(blocks), Free(b) PROVE Inv'
    BY <2>2, <2>5, FreeStep
  <2>6. QED
    BY <1>8, <2>3, <2>4, <2>5 DEF Loader
<1>9. ASSUME Call PROVE Inv'
  <2>1. /\ step = Done /\ step > 0
        /\ initBy = "constructor" => g_socket
    BY <1>1, <1>9 DEF Call, PipeInv
  <2>2. ASSUME NEW f \in Allocating, NEW size \in Sizes, Allocate(f, size) PROVE Inv'
    <3>1. f \in {"malloc", "calloc"} \/ step = Done
      BY <2>1
    <3>2. Fits(f, size)
      BY <1>1, <2>1, StepsAre DEF Fits, Allocating
    <3>3. initBy = "constructor" /\ ~g_socket => Len(blocks) < MaxLookup
      BY <2>1
    <3>4. QED
      BY <2>1, <2>2, <3>1, <3>2, <3>3, AllocateStep
  <2>3. ASSUME NEW b \in 1..Len(blocks), Free(b) PROVE Inv'
    BY <2>1, <2>3, FreeStep
  <2>4. ASSUME NEW b \in 1..Len(blocks), Realloc(b) PROVE Inv'
    BY <2>1, <2>4, ReallocStep
  <2>5. QED
    BY <1>9, <2>2, <2>3, <2>4 DEF Call
<1>10. CASE UNCHANGED vars
  <2>1. UNCHANGED <<step, initBy, res, program, tmppos, g_socket, g_preInitPos, g_bSendBacktrace,
                    blocks, misfreed, unprepared>>
    BY <1>10 DEF vars, initVars, commVars
  <2>2. PipeInv'
    BY <1>1, <1>2, <2>1 DEF PipeInv, Freed
  <2>3. g_bSendBacktrace' => step' = Done
    BY <1>1, <2>1 DEF PreparedInv
  <2>4. QED
    BY <1>1, <2>1, <2>2, <2>3, QuietStep
<1>11. QED
  BY <1>3, <1>4, <1>5, <1>6, <1>7, <1>8, <1>9, <1>10 DEF Next

\* So it holds in every reachable state.
LEMMA SpecInv == Spec => []Inv
<1>1. QED
  BY InitInv, NextInv, PTL DEF Spec

-----------------------------------------------------------------------------
(* What it implies *)

\* Every variable keeps its type; dummy_malloc never gives out the last byte of
\* tmpbuf, however often the loader allocates.
THEOREM SpecTypeOK == Spec => []TypeOK
<1>1. Inv => TypeOK
  BY DEF Inv, TypeInv
<1>2. QED
  BY <1>1, SpecInv, PTL

\* What a lookup takes from tmpbuf and gives back within that lookup never
\* reaches the real free: tmpbuf serves the first three steps only, and the real
\* free is not known before the fourth.
THEOREM SpecLookupsFreeTheirOwn == Spec => []LookupsFreeTheirOwn
<1>1. Inv => LookupsFreeTheirOwn
  <2> SUFFICES ASSUME Inv, misfreed # NULL PROVE blocks[misfreed].at # At
    BY DEF LookupsFreeTheirOwn
  <2>1. misfreed \in 1..Len(blocks) /\ blocks[misfreed].dummy /\ step > 4
    BY DEF Inv, TypeInv, TypeOK, MisfreedInv
  <2>2. blocks[misfreed].at \in Early
    BY <2>1 DEF Inv, BlocksInv, BlockFacts
  <2>3. At \notin Early
    BY <2>1, StepsAre DEF Inv, TypeInv, TypeOK, Early
  <2>4. QED
    BY <2>2, <2>3
<1>2. QED
  BY <1>1, SpecInv, PTL

\* What the reports show as not free is what is allocated, in tmpbuf or in the
\* heap, up to the malloc calls of backtrace_init and the blocks freed while the
\* real free is unknown.
THEOREM SpecReportsMatchHeap == Spec => []ReportsMatchHeap
<1>1. Inv => ReportsMatchHeap
  <2> SUFFICES ASSUME Inv, NEW b \in 1..Len(blocks)
               PROVE  \/ blocks[b].fn = "malloc" /\ blocks[b].at = "backtrace"
                      \/ blocks[b].kept /\ blocks[b].at \in {"calloc", "free"}
                      \/ (blocks[b].held \/ blocks[b].kept)
                            = (blocks[b].reported /\ ~blocks[b].freeReported)
    BY DEF ReportsMatchHeap
  <2>1. BlockFacts(blocks[b], step) /\ blocks[b] \in BlockType
    BY ElementOfSeq DEF Inv, BlocksInv, TypeInv
  <2>2. QED
    BY <2>1 DEF BlockFacts, BlockType
<1>2. QED
  BY <1>1, SpecInv, PTL

\* A program that runs without the pipe, and fills the buffer of kept messages for
\* ever, is one that called a wrapper before the constructor of the library ran.
THEOREM SpecFailureNoticed == Spec => []FailureNoticed
<1>1. Inv => FailureNoticed
  <2> SUFFICES ASSUME Inv, initBy = "constructor"
               PROVE  (program = "running" => g_socket) /\ ~(g_preInitPos > PREINIT)
    BY DEF FailureNoticed, Inv, TypeInv, TypeOK
  <2>1. program = "running" => g_socket
    BY DEF Inv, PipeInv
  <2>2. g_preInitPos \in Nat /\ PREINIT \in Nat /\ MaxLookup \in Nat /\ 2 * MaxLookup <= PREINIT
    BY StartupAssumption DEF Inv, TypeInv, TypeOK
  <2>3. CASE g_socket
    BY <2>2, <2>3 DEF Inv, PipeInv
  <2>4. CASE ~g_socket
    <3>1. /\ Len(blocks) <= MaxLookup
          /\ g_preInitPos <= Len(blocks) + Cardinality(Freed(blocks))
      BY <2>4 DEF Inv, PipeInv
    <3>2. /\ Cardinality(Freed(blocks)) \in Nat /\ Cardinality(Freed(blocks)) <= Len(blocks)
          /\ Len(blocks) \in Nat
      BY FreedIsFinite, LenProperties DEF Inv, TypeInv
    <3>3. QED
      BY <2>1, <2>2, <3>1, <3>2
  <2>5. QED
    BY <2>1, <2>3, <2>4
<1>2. QED
  BY <1>1, SpecInv, PTL

\* No wrapper is the first to call backtrace(): backtraces are sent only when
\* wrapper_init, which starts with backtrace_init, is through.
THEOREM SpecBacktracePrepared == Spec => []BacktracePrepared
<1>1. Inv => BacktracePrepared
  BY DEF Inv, PreparedInv, BacktracePrepared
<1>2. QED
  BY <1>1, SpecInv, PTL
=============================================================================

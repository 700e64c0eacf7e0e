------------------------------ MODULE Startup -------------------------------
(***************************************************************************)
(* The start of libaleakd (lib/wrapper.c, lib/aleakd.c): wrapper_init looks*)
(* up the real functions, and looking up allocates memory itself.  What is *)
(* allocated before the real function is known comes out of tmpbuf.        *)
(*                                                                         *)
(* wrapper_init is run by the constructor of the library or, before that,  *)
(* by the first call of a wrapper, which other libraries may make from     *)
(* their constructors.  It is a list of steps; at each step that looks     *)
(* something up the loader may call malloc, calloc and free.  It is taken  *)
(* to call neither realloc nor the aligned functions, which would go       *)
(* through a null pointer, and to find every function it is asked for.     *)
(***************************************************************************)
EXTENDS Integers, Sequences

CONSTANTS
    NULL,
    Sizes,      \* sizes of blocks
    TMPBUF,     \* sizeof(tmpbuf)
    PREINIT,    \* messages g_preInitBuffer has room for
    MaxLookup,  \* BOUND: blocks the lookups allocate; their reports fit in PREINIT
    MaxBlock    \* BOUND: blocks allocated

ASSUME StartupAssumption ==
    /\ NULL \notin Nat
    /\ Sizes \subseteq Nat /\ TMPBUF \in Nat \ {0} /\ PREINIT \in Nat
    /\ MaxLookup \in Nat /\ 2 * MaxLookup <= PREINIT /\ MaxBlock \in Nat

VARIABLES
    step,               \* how far wrapper_init is, 0 before g_bIsInitializing is set
    initBy,             \* who called it: the constructor or a wrapper
    res,                \* what it returns
    program,            \* "loading" until the constructor has run
    tmppos,
    g_socket,           \* the pipe is open
    g_preInitPos,       \* messages kept until it is
    g_bSendBacktrace,
    blocks,             \* history: every block given out
    misfreed,           \* history: a block of tmpbuf passed to the real functions
    unprepared          \* history: backtrace() ran first in a wrapper

initVars == <<step, initBy, res, program>>
commVars == <<g_socket, g_preInitPos>>
vars == <<initVars, tmppos, commVars, g_bSendBacktrace, blocks, misfreed, unprepared>>

\* Mutant: free is looked up before what allocates.
StepsFreeFirst == <<"backtrace", "free", "malloc", "calloc", "realloc", "aligned", "comm", "env">>

\* Mutant: whether backtraces are sent is read before anything else.
StepsEnvFirst == <<"env", "backtrace", "malloc", "calloc", "free", "realloc", "aligned", "comm">>

\* what wrapper_init does, in order: backtrace_init, dlsym of each function,
\* servercomm_init, getenv
Steps == <<"backtrace", "malloc", "calloc", "free", "realloc", "aligned", "comm", "env">>

Done == Len(Steps) + 1
Passed(s) == \E i \in 1..Len(Steps) : Steps[i] = s /\ i < step
At == IF step \in 1..Len(Steps) THEN Steps[step] ELSE "none"

\* real_malloc and the others are set
Real(f) == Passed(f)

Init ==
    /\ step = 0 /\ initBy = NULL /\ res = 0
    /\ program = "loading"
    /\ tmppos = 0
    /\ g_socket = FALSE /\ g_preInitPos = 0
    /\ g_bSendBacktrace = FALSE
    /\ blocks = <<>> /\ misfreed = NULL /\ unprepared = FALSE

-----------------------------------------------------------------------------
(* What the wrappers do once they need not call wrapper_init *)

\* servercomm_send_safe, and backtrace_send for the message
Report ==
    /\ g_preInitPos' = IF g_socket THEN g_preInitPos ELSE g_preInitPos + 1
    /\ unprepared' = (unprepared \/ (g_bSendBacktrace /\ ~Passed("backtrace")))

NoReport == UNCHANGED <<g_preInitPos, unprepared>>

\* Mutant: the flag is reset only when the real malloc is known.
IgnoredUntilMalloc(f) == f = "malloc" /\ ~Passed("malloc")

\* malloc reports nothing while g_bIsBacktraceInitializing is set
Ignored(f) == f = "malloc" /\ At = "backtrace"

Block(f, dummy) ==
    [fn |-> f, dummy |-> dummy, at |-> At, reported |-> ~Ignored(f),
     held |-> TRUE, kept |-> FALSE, freeReported |-> FALSE]

\* malloc, calloc and the aligned functions
Allocate(f, size) ==
    /\ Len(blocks) < MaxBlock
    /\ blocks' = Append(blocks, Block(f, ~Real(f)))
    /\ tmppos' = IF Real(f) THEN tmppos ELSE tmppos + size
    /\ IF Ignored(f) THEN NoReport ELSE Report
    /\ UNCHANGED <<initVars, g_socket, g_bSendBacktrace, misfreed>>

\* Mutant: the last byte of the buffer is given out too.
FitsExactly(f, size) == Real(f) \/ tmppos + size <= TMPBUF

\* dummy_malloc ends the process when the block does not fit
Fits(f, size) == Real(f) \/ tmppos + size < TMPBUF

TmpbufFull(f, size) ==
    /\ ~Fits(f, size)
    /\ program' = "ended"
    /\ UNCHANGED <<step, initBy, res, tmppos, commVars, g_bSendBacktrace, blocks, misfreed, unprepared>>

\* b goes to the real function, which knows only what real functions gave out
GiveBack(b, f) ==
    /\ misfreed' = IF Real(f) /\ blocks[b].dummy THEN b ELSE misfreed
    /\ program' = IF Real(f) /\ blocks[b].dummy THEN "aborted" ELSE program

\* free reports first; as long as the real one is not known it does nothing else
Free(b) ==
    /\ blocks[b].held
    /\ blocks' = [blocks EXCEPT ![b].held = FALSE, ![b].freeReported = TRUE,
                                 ![b].kept = ~Real("free") /\ ~blocks[b].dummy]
    /\ Report
    /\ GiveBack(b, "free")
    /\ UNCHANGED <<step, initBy, res, tmppos, g_socket, g_bSendBacktrace>>

\* realloc with a block; it reports what the real function returned
Realloc(b) ==
    /\ Len(blocks) < MaxBlock
    /\ blocks[b].held
    /\ GiveBack(b, "realloc")
    /\ IF blocks[b].dummy
       THEN NoReport /\ UNCHANGED blocks
       ELSE /\ Report
            /\ blocks' = Append([blocks EXCEPT ![b].held = FALSE, ![b].freeReported = TRUE],
                                Block("realloc", FALSE))
    /\ UNCHANGED <<step, initBy, res, tmppos, g_socket, g_bSendBacktrace>>

Allocating == {"malloc", "calloc", "realloc", "aligned"}

-----------------------------------------------------------------------------
(* wrapper_init *)

Running == program \in {"loading", "running"}

\* the constructor, or the first call of a wrapper
Begin(c) ==
    /\ Running /\ step = 0
    /\ step' = 1 /\ initBy' = c
    /\ UNCHANGED <<res, program, tmppos, commVars, g_bSendBacktrace, blocks, misfreed, unprepared>>

\* the loader allocates and frees while backtrace() and dlsym run
Loader ==
    /\ Running /\ At \in {"backtrace", "malloc", "calloc", "free", "realloc", "aligned"}
    /\ \/ /\ Len(blocks) < MaxLookup
          /\ \E f \in {"malloc", "calloc"}, size \in Sizes :
                \/ Fits(f, size) /\ Allocate(f, size)
                \/ TmpbufFull(f, size)
       \/ \E b \in 1..Len(blocks) : Free(b)

LookUp ==
    /\ Running /\ At \in {"backtrace", "malloc", "calloc", "free", "realloc", "aligned"}
    /\ step' = step + 1
    /\ UNCHANGED <<initBy, res, program, tmppos, commVars, g_bSendBacktrace, blocks, misfreed, unprepared>>

\* servercomm_init: there is a pipe, and what was kept is sent, or there is none
InitComm ==
    /\ Running /\ At = "comm"
    /\ step' = step + 1
    /\ \/ g_socket' = TRUE /\ g_preInitPos' = 0 /\ res' = 0
       \/ res' = -1 /\ UNCHANGED commVars
    /\ UNCHANGED <<initBy, program, tmppos, g_bSendBacktrace, blocks, misfreed, unprepared>>

\* ALEAKD_BACKTRACE
ReadEnv ==
    /\ Running /\ At = "env"
    /\ step' = step + 1
    /\ g_bSendBacktrace' \in BOOLEAN
    /\ UNCHANGED <<initBy, res, program, tmppos, commVars, blocks, misfreed, unprepared>>

-----------------------------------------------------------------------------
(* The constructor and the program *)

\* Mutant: the constructor does not look at the result.
ConstructorGoesOn ==
    /\ program = "loading" /\ step = Done
    /\ program' = "running"
    /\ UNCHANGED <<step, initBy, res, tmppos, commVars, g_bSendBacktrace, blocks, misfreed, unprepared>>

\* aleakd_constructor once wrapper_init has returned: its own call returned res,
\* a call that found g_bIsInitializing set returned 0
ConstructorReturns ==
    /\ program = "loading" /\ step = Done
    /\ program' = IF initBy = "constructor" /\ res # 0 THEN "ended" ELSE "running"
    /\ UNCHANGED <<step, initBy, res, tmppos, commVars, g_bSendBacktrace, blocks, misfreed, unprepared>>

\* calls of the program, and of constructors before that of the library
Call ==
    /\ step = Done
    /\ program = "running" \/ (program = "loading" /\ initBy # "constructor")
    /\ \/ \E f \in Allocating, size \in Sizes : Allocate(f, size)
       \/ \E b \in 1..Len(blocks) : Free(b) \/ Realloc(b)

Next ==
    \/ \E c \in {"constructor", "free"} \cup Allocating : Begin(c)
    \/ Loader
    \/ LookUp \/ InitComm \/ ReadEnv
    \/ ConstructorReturns
    \/ Call

Spec == Init /\ [][Next]_vars

-----------------------------------------------------------------------------
(* Properties *)

\* The type of every variable.  tmpbuf is never filled to its end.
TypeOK ==
    /\ step \in 0..Done /\ res \in {0, -1}
    /\ initBy \in {NULL, "constructor", "free"} \cup Allocating
    /\ program \in {"loading", "running", "ended", "aborted"}
    /\ tmppos \in 0..(TMPBUF - 1)
    /\ g_socket \in BOOLEAN /\ g_preInitPos \in Nat
    /\ g_bSendBacktrace \in BOOLEAN /\ unprepared \in BOOLEAN
    /\ misfreed \in {NULL} \cup 1..Len(blocks)
    /\ \A b \in 1..Len(blocks) :
            blocks[b].fn \in Allocating /\ blocks[b].held \in BOOLEAN

\* "Dummy buffer to wrap initialization because dlsym can call malloc function"
\* (wrapper.c:34): what one lookup takes from the buffer and gives back within
\* that lookup never reaches the real free.
LookupsFreeTheirOwn == misfreed # NULL => blocks[misfreed].at # At

\* "Backtrace initializing may generate a malloc call, we ignore it"
\* (wrapper.c:224): apart from that, what the reports show as not free is what is
\* allocated, in the buffer or the heap.  Only a block of the real malloc or calloc
\* that is freed while the real free is still unknown stays allocated unseen.
ReportsMatchHeap ==
    \A b \in 1..Len(blocks) :
        \/ blocks[b].fn = "malloc" /\ blocks[b].at = "backtrace"
        \/ blocks[b].kept /\ blocks[b].at \in {"calloc", "free"}
        \/ (blocks[b].held \/ blocks[b].kept) = (blocks[b].reported /\ ~blocks[b].freeReported)

\* "failed to init" (aleakd.c:30): a program that runs without the pipe, and fills
\* the buffer of kept messages for ever, is one that called a wrapper before the
\* constructor of the library ran.
FailureNoticed ==
    /\ program = "running" /\ ~g_socket => initBy # "constructor"
    /\ g_preInitPos > PREINIT => initBy # "constructor"

\* The first backtrace() loads a library and so calls malloc: no wrapper is the
\* first to call it.
BacktracePrepared == ~unprepared
=============================================================================

-------------------------- MODULE MemOpRcptServer --------------------------
(***************************************************************************)
(* server/Server/MemOpRcptServer.cpp: cutting the byte stream back into    *)
(* messages.  The writer is the library as Channel describes it: messages  *)
(* join a batch, the batch is written whole.  The reader is the receiving  *)
(* thread: run, doReadMsg, doProcessDataRead and the length checks of      *)
(* doProcessMsg and doProcessMsgV1; its handlers are Controller's.         *)
(*                                                                         *)
(* A byte is a pair (message, position), as in ServerComm.  A size is in   *)
(* model units that keep the relations of the real ones: a header is       *)
(* larger than a byte, what is asked for before a backtrace is handled is  *)
(* one header more than its struct.                                        *)
(***************************************************************************)
EXTENDS Naturals, Sequences, FiniteSets

CONSTANTS
    Code,           \* kinds of message: "app", "memory", "backtrace"
    SizeOf,         \* sizeof of the struct of each kind
    Header,         \* sizeof of version and header: all of an "app" message
    ReadSize,       \* the most one read returns: 4096
    BufferSize,     \* the array doReadMsg reads into: 8192
    Modes,          \* the builds (TRANSFER_MODE_USED): "namedpipe", "tcp", "udp"
    MaxMsg          \* BOUND: messages of all traced processes

\* A struct holds its header and, in the library as in a pipe, no batch is as
\* long as a read: BUFFER_SIZE, PIPE_BUF and ReadSize are all 4096.
ASSUME FramingAssumption ==
    /\ Header \in Nat \ {0} /\ ReadSize \in Nat \ {0} /\ BufferSize \in Nat
    /\ SizeOf \in [Code -> Nat]
    /\ "backtrace" \in Code
    /\ \A c \in Code : Header <= SizeOf[c] /\ SizeOf[c] + Header <= ReadSize
    /\ 2 * ReadSize <= BufferSize
    /\ Modes \subseteq {"namedpipe", "tcp", "udp"}
    /\ MaxMsg \in Nat

VARIABLES
    m_iTransferMode,
    batch,      \* accepted by the library, not written
    medium,     \* written, not yet at the reader (TCP segments)
    datagrams,  \* the same for UDP, in no order; those that get lost stay there
    inbox,      \* what a read finds: the pipe, the buffer of the socket, a datagram
    writer,     \* the traced process: "none", "open", "killed" (SIGPIPE)
    reader,     \* the receiving thread: "idle" (no open pipe, or the event
                \* loop), "opening", "read", "parse", "closing"
    pBuffer,    \* what doReadMsg has read and not dropped
    iSizeRead,  \* how much of it doProcessDataRead has gone through
    sent,       \* history: the messages accepted, in order
    earlier,    \* history: how many of them earlier processes sent
    handled     \* history: the messages given to the handler, in order

writerVars == <<m_iTransferMode, batch, writer, sent, earlier>>
readerVars == <<reader, pBuffer, iSizeRead, handled>>
mediumVars == <<medium, datagrams>>
vars == <<mediumVars, inbox, writerVars, readerVars>>

Piped == m_iTransferMode = "namedpipe"
Tcp == m_iTransferMode = "tcp"
Udp == m_iTransferMode = "udp"

Message == [num : Nat, code : Code]
Byte == [msg : Message, at : Nat]

Bytes(m) == [i \in 1..SizeOf[m.code] |-> [msg |-> m, at |-> i]]

\* Mutant: the header alone is asked for.
NeededHeader(c) == Header

\* Mutant: every kind of message is asked for with one header too many.
NeededTwice(c) == SizeOf[c] + Header

\* what must be there for a message to be handled.  For a backtrace the code
\* asks for sizeof(ServerMsgBacktraceV1), version and header included, behind
\* the header
Needed(c) == IF c = "backtrace" THEN SizeOf[c] + Header ELSE SizeOf[c]

\* the part of s behind its first n bytes
Drop(s, n) == SubSeq(s, n + 1, Len(s))

Init ==
    /\ m_iTransferMode \in Modes
    /\ batch = <<>> /\ medium = <<>> /\ datagrams = {} /\ inbox = <<>>
    /\ writer = "none"
    /\ reader = "idle"
    /\ pBuffer = <<>> /\ iSizeRead = 0
    /\ sent = <<>> /\ earlier = 0 /\ handled = <<>>

-----------------------------------------------------------------------------
(* The writer and the transport *)

\* open(O_WRONLY) and the reader's open wait for each other; a TCP connection
\* is accepted by the event loop once the one before it is gone; UDP has none
WriterOpens ==
    /\ writer = "none"
    /\ Piped => reader # "idle"
    /\ Tcp => reader = "idle" /\ medium = <<>>
    /\ writer' = "open"
    /\ earlier' = Len(sent)
    /\ reader' = IF reader = "opening" THEN "read" ELSE reader
    /\ inbox' = IF Tcp THEN <<>> ELSE inbox
    /\ UNCHANGED <<m_iTransferMode, batch, mediumVars, sent, pBuffer, iSizeRead, handled>>

\* servercomm_send: a batch stays shorter than BUFFER_SIZE
Accept(code) ==
    LET m == [num |-> Len(sent) + 1, code |-> code]
    IN  /\ writer = "open"
        /\ Len(sent) < MaxMsg
        /\ Len(batch) + SizeOf[code] < ReadSize
        /\ batch' = batch \o Bytes(m)
        /\ sent' = Append(sent, m)
        /\ UNCHANGED <<m_iTransferMode, mediumVars, inbox, writer, earlier, readerVars>>

\* write(), send() or sendto(): a pipe that someone has open takes the batch whole,
\* TCP delivers it in pieces, UDP as a datagram or not at all
WriteBatch ==
    /\ writer = "open" /\ batch # <<>>
    /\ Piped => reader # "idle"
    /\ inbox' = IF Piped THEN inbox \o batch ELSE inbox
    /\ medium' = IF Tcp THEN medium \o batch ELSE medium
    /\ datagrams' = IF Udp THEN datagrams \cup {batch} ELSE datagrams
    /\ batch' = <<>>
    /\ UNCHANGED <<m_iTransferMode, writer, sent, earlier, readerVars>>

\* write() to a pipe the reader has closed: SIGPIPE (the model traces no other
\* process after that)
WriteBroken ==
    /\ Piped /\ reader = "idle"
    /\ writer = "open" /\ batch # <<>>
    /\ writer' = "killed"
    /\ batch' = <<>>
    /\ inbox' = <<>>
    /\ UNCHANGED <<m_iTransferMode, mediumVars, sent, earlier, readerVars>>

\* a segment arrives: readyRead, onSocketReadyToRead calls doReadMsg
Arrive ==
    /\ medium # <<>>
    /\ reader = "idle"
    /\ \E n \in 1..Len(medium) :
        /\ inbox' = inbox \o SubSeq(medium, 1, n)
        /\ medium' = Drop(medium, n)
    /\ reader' = "read"
    /\ UNCHANGED <<datagrams, writerVars, pBuffer, iSizeRead, handled>>

\* a datagram arrives, whole, in whatever order: onPendingDatagramToRead puts it in
\* a QBuffer of its own and calls doReadMsg
ArriveDatagram ==
    /\ reader = "idle"
    /\ \E d \in datagrams :
        /\ inbox' = d
        /\ datagrams' = datagrams \ {d}
    /\ reader' = "read"
    /\ UNCHANGED <<medium, writerVars, pBuffer, iSizeRead, handled>>

\* the traced process ends; another can be traced.  A pipe nobody has open
\* forgets what was in it
WriterCloses ==
    /\ writer = "open" /\ batch = <<>>
    /\ writer' = "none"
    /\ inbox' = IF Piped /\ reader = "idle" THEN <<>> ELSE inbox
    /\ UNCHANGED <<m_iTransferMode, batch, mediumVars, sent, earlier, readerVars>>

-----------------------------------------------------------------------------
(* The reader *)

\* run: open(ReadOnly), which waits for a writer
Open ==
    /\ Piped /\ reader = "idle"
    /\ reader' = IF writer = "open" THEN "read" ELSE "opening"
    /\ UNCHANGED <<writerVars, mediumVars, inbox, pBuffer, iSizeRead, handled>>

\* Mutant: a read waits for as much as it can take.
ReadFull ==
    /\ reader = "read"
    /\ Len(inbox) >= ReadSize
    /\ pBuffer' = pBuffer \o SubSeq(inbox, 1, ReadSize)
    /\ inbox' = Drop(inbox, ReadSize)
    /\ iSizeRead' = 0
    /\ reader' = "parse"
    /\ UNCHANGED <<writerVars, mediumVars, handled>>

\* doReadMsg: read returns what is there, at most ReadSize
Read ==
    /\ reader = "read"
    /\ inbox # <<>>
    /\ LET n == IF Len(inbox) < ReadSize THEN Len(inbox) ELSE ReadSize
       IN  /\ pBuffer' = pBuffer \o SubSeq(inbox, 1, n)
           /\ inbox' = Drop(inbox, n)
    /\ iSizeRead' = 0
    /\ reader' = "parse"
    /\ UNCHANGED <<writerVars, mediumVars, handled>>

\* what doProcessDataRead has not gone through
Unread == Drop(pBuffer, iSizeRead)

\* doProcessMsg looks for a version in the middle of a message
Garbled == Unread # <<>> /\ Unread[1].at # 1

\* what it takes the next bytes for: in the middle of a message, for anything
NextCode == IF Unread = <<>> THEN {} ELSE IF Garbled THEN Code ELSE {Unread[1].msg.code}

\* one message is handled
ProcessMsg ==
    /\ reader = "parse"
    /\ \E c \in NextCode :
        /\ Len(Unread) >= Needed(c)
        /\ handled' = Append(handled, IF Garbled THEN [num |-> 0, code |-> c] ELSE Unread[1].msg)
        /\ iSizeRead' = iSizeRead + SizeOf[c]
    /\ UNCHANGED <<writerVars, mediumVars, inbox, reader, pBuffer>>

\* doProcessMsg returns 0: no message, or not all of it
Incomplete == Unread = <<>> \/ \E c \in NextCode : Len(Unread) < Needed(c)

\* Mutant: what was processed stays in the array.
KeepAll ==
    /\ reader = "parse"
    /\ Incomplete /\ iSizeRead > 0
    /\ iSizeRead' = 0
    /\ reader' = "read"
    /\ UNCHANGED <<writerVars, mediumVars, inbox, pBuffer, handled>>

\* Mutant: the next data is taken to be as far processed as this.
KeepPosition ==
    /\ reader = "parse"
    /\ Incomplete /\ iSizeRead > 0
    /\ pBuffer' = Unread
    /\ reader' = "read"
    /\ UNCHANGED <<writerVars, mediumVars, inbox, iSizeRead, handled>>

\* the rest waits for the next read
KeepRest ==
    /\ reader = "parse"
    /\ Incomplete /\ iSizeRead > 0
    /\ pBuffer' = Unread
    /\ iSizeRead' = 0
    /\ reader' = "read"
    /\ UNCHANGED <<writerVars, mediumVars, inbox, handled>>

\* nothing was processed, or the bytes have no version: "Error to process data",
\* and doReadMsg leaves with what is in its array
ProcessError ==
    /\ reader = "parse"
    /\ Garbled \/ (Incomplete /\ iSizeRead = 0)
    /\ reader' = "closing"
    /\ UNCHANGED <<writerVars, mediumVars, inbox, pBuffer, iSizeRead, handled>>

\* read returns 0: at the end of a pipe nobody writes to, and whenever a
\* socket has nothing more
ReadEnd ==
    /\ reader = "read"
    /\ inbox = <<>>
    /\ Piped => writer # "open"
    /\ reader' = "closing"
    /\ UNCHANGED <<writerVars, mediumVars, inbox, pBuffer, iSizeRead, handled>>

\* doReadMsg has returned, its array is gone; run closes the pipe, or the QBuffer of
\* the datagram goes
Close ==
    /\ reader = "closing"
    /\ pBuffer' = <<>>
    /\ iSizeRead' = 0
    /\ reader' = "idle"
    /\ inbox' = IF Udp \/ (Piped /\ writer # "open") THEN <<>> ELSE inbox
    /\ UNCHANGED <<writerVars, mediumVars, handled>>

-----------------------------------------------------------------------------
Writing == WriterOpens \/ (\E c \in Code : Accept(c)) \/ WriteBatch \/ WriteBroken \/ Arrive
           \/ ArriveDatagram \/ WriterCloses
Reading == Open \/ Read \/ ProcessMsg \/ KeepRest \/ ProcessError \/ ReadEnd \/ Close

Next == Writing \/ Reading
Spec == Init /\ [][Next]_vars

\* the receiving thread runs
FairSpec == Spec /\ WF_vars(Reading)

-----------------------------------------------------------------------------
(* Properties *)

\* The type of every variable.
TypeOK ==
    /\ m_iTransferMode \in Modes
    /\ batch \in Seq(Byte) /\ medium \in Seq(Byte) /\ inbox \in Seq(Byte)
    /\ \A d \in datagrams : d \in Seq(Byte)
    /\ writer \in {"none", "open", "killed"}
    /\ reader \in {"idle", "opening", "read", "parse", "closing"}
    /\ pBuffer \in Seq(Byte) /\ iSizeRead \in 0..Len(pBuffer)
    /\ sent \in Seq(Message) /\ handled \in Seq(Message)
    /\ earlier \in 0..Len(sent)

\* The reader of a pipe or of datagrams never looks for a message in the middle of
\* one: whatever the sizes of batches and reads, the drops of doReadMsg included, the
\* stream stays cut at message boundaries.  (That of a TCP socket does not: doReadMsg
\* forgets the beginning of a message when a segment ends in it.)
InSync == ~Tcp /\ reader = "parse" => ~Garbled

\* A read never passes the end of the array: what is kept from the reads before
\* leaves room for another ReadSize.
BufferFits == reader = "read" => Len(pBuffer) + ReadSize <= BufferSize

\* the messages that are still under way, whole or in part
UnderWay ==
    {b.msg : b \in UNION {{s[i] : i \in 1..Len(s)} :
                            s \in {batch, medium, inbox, Unread} \cup datagrams}}

Handled == {handled[i] : i \in 1..Len(handled)}

\* No message is handled twice, nor before an earlier one unless datagrams overtook
\* each other, over any number of reads, errors and connections (num 0: bytes that
\* are no message).
HandledInOrder ==
    \A i, j \in 1..Len(handled) :
        i < j /\ handled[j].num # 0 =>
            /\ handled[i] # handled[j]
            /\ ~Udp => handled[i].num < handled[j].num

\* The reader drops only backtraces: the operations of a process all arrive, or
\* are still under way, while it lives; in datagrams also after its end.
OnlyBacktracesDropped ==
    Udp \/ (Piped /\ writer = "open") =>
        \A i \in (IF Udp THEN 1 ELSE earlier + 1)..Len(sent) :
            sent[i].code # "backtrace" => sent[i] \in Handled \cup UnderWay

\* nothing is under way, and no process runs
Quiet ==
    /\ writer = "none" /\ reader \in {"idle", "opening"}
    /\ batch = <<>> /\ medium = <<>> /\ datagrams = {} /\ inbox = <<>>

\* Every backtrace that was written is handled once nothing is under way: "Get
\* backtrace for every memory operation" (README.md:28).
EveryBacktraceHandled ==
    Quiet => \A i \in 1..Len(sent) : sent[i].code = "backtrace" => sent[i] \in Handled

\* What is written to a pipe is read in the end: the reader always comes back to
\* an empty pipe, it never stops for good with data waiting.
InboxDrained == []<>(Piped => inbox = <<>>)
=============================================================================

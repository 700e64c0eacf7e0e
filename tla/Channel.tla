------------------------------ MODULE Channel ------------------------------
(***************************************************************************)
(* What the transport of libaleakd promises to the code that reports an    *)
(* operation: the bytes handed to it come out of the other end in the      *)
(* order they were accepted, some of them later than others because they   *)
(* are batched.  When a write may fail, a whole batch disappears, and      *)
(* nothing else does.                                                      *)
(*                                                                         *)
(*   sent       every byte accepted so far, in the order of acceptance     *)
(*   delivered  the bytes that reached the reader's end                    *)
(*   pending    the batch that is accepted and not yet written             *)
(***************************************************************************)
EXTENDS Naturals, Sequences

CONSTANT Lossy      \* TRUE: a write of a batch may fail
VARIABLES sent, delivered, pending

cvars == <<sent, delivered, pending>>

Init == sent = <<>> /\ delivered = <<>> /\ pending = <<>>

\* data is accepted: it extends the history and nothing else of it changes
Accept(data) == sent' = sent \o data

\* what this step adds to the history
NewBytes == SubSeq(sent', Len(sent) + 1, Len(sent'))

\* data joins the batch
Put == /\ Accept(NewBytes)
       /\ pending' = pending \o NewBytes
       /\ UNCHANGED delivered

\* the batch is written, or lost when the channel is lossy
Push == /\ \/ delivered' = delivered \o pending
           \/ Lossy /\ UNCHANGED delivered
        /\ pending' = <<>>
        /\ UNCHANGED sent

\* data is written at once; no batch may be waiting, it would be overtaken
PutThrough == /\ pending = <<>>
              /\ Accept(NewBytes)
              /\ \/ delivered' = delivered \o NewBytes
                 \/ Lossy /\ UNCHANGED delivered
              /\ UNCHANGED pending

Next == Put \/ Push \/ PutThrough

Spec == Init /\ [][Next]_cvars
=============================================================================

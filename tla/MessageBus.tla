----------------------------- MODULE MessageBus -----------------------------
(***************************************************************************)
(* class MessageBus of sdk/src/message-bus.ts: messages of the scene go to *)
(* the communications controller one at a time.                            *)
(*                                                                         *)
(* A send settles at any later moment, or never (Hangs).  The controller   *)
(* takes a message when the send starts; handed is the log of what it got, *)
(* which is not in the code, and heardHere what the observers of this      *)
(* scene were told.                                                        *)
(***************************************************************************)
EXTENDS Naturals, Sequences

CONSTANTS
  MaxMessages,   \* bound on the messages, numbered as they are emitted
  Hangs          \* the messages whose send never settles

VARIABLES bus

vars == <<bus>>

BusInit ==
  bus = [emitted |-> 0, messageQueue |-> <<>>, flushing |-> FALSE,
         sending |-> {},          \* sends that have not settled
         handed |-> <<>>, heardHere |-> <<>>]

Init == BusInit

TypeOK ==
  /\ bus.messageQueue \in Seq(1 .. MaxMessages)
  /\ bus.sending \subseteq 1 .. MaxMessages
  /\ bus.flushing \in BOOLEAN
-----------------------------------------------------------------------------
(* Faulty variant: a send in course is not waited for.                     *)
flushAtOnce(b) ==
  IF b.messageQueue = <<>> THEN b
  ELSE [b EXCEPT !.messageQueue = Tail(@), !.sending = @ \cup {Head(b.messageQueue)},
                 !.handed = Append(@, Head(b.messageQueue))]

flush(b) ==
  IF b.messageQueue = <<>> \/ b.flushing THEN b
  ELSE [b EXCEPT !.messageQueue = Tail(@), !.flushing = TRUE,
                 !.sending = @ \cup {Head(b.messageQueue)},
                 !.handed = Append(@, Head(b.messageQueue))]

(* emit: sendRaw, and the observers of this scene at once.                 *)
emit ==
  LET m == bus.emitted + 1
  IN  /\ m <= MaxMessages
      /\ bus' = [flush([bus EXCEPT !.emitted = m, !.messageQueue = Append(@, m)])
                   EXCEPT !.heardHere = Append(@, m)]

(* The promise is resolved or rejected: both reactions are the same.       *)
Settles ==
  \E m \in bus.sending \ Hangs :
    bus' = flush([bus EXCEPT !.sending = @ \ {m}, !.flushing = FALSE])

Next == emit \/ Settles

Spec == Init /\ [][Next]_vars
-----------------------------------------------------------------------------
(* What the controller got and what still waits are the messages emitted,  *)
(* each once, in order, with at most one send at a time; a message that    *)
(* waits does so behind a send that has not settled.                       *)
HandedInOrder ==
  /\ bus.handed \o bus.messageQueue = [i \in 1 .. bus.emitted |-> i]
  /\ Len(bus.messageQueue) > 0 => bus.sending # {}
  /\ \A m, n \in bus.sending : m = n
=============================================================================

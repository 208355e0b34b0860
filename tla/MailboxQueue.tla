---------------------------- MODULE MailboxQueue -----------------------------
(***************************************************************************)
(* What an actor mailbox promises, as a bounded sequence of messages: which  *)
(* messages are pending, in which order, and what each push reports.         *)
(***************************************************************************)
EXTENDS MailboxContract

VARIABLES kind, queue, effect

Init == kind \in Kinds /\ queue = <<>> /\ effect = "NONE"

Push(m) ==
  LET o == EnqueueQos(kind, queue, m, EventQos[m.event]) IN
  queue' = o.queue /\ effect' = o.effect /\ UNCHANGED kind

Pop == queue # <<>> /\ queue' = Tail(queue) /\ UNCHANGED <<kind, effect>>

Reset == queue' = <<>> /\ UNCHANGED <<kind, effect>>

Next == Pop \/ Reset \/ \E m \in Msg : Push(m)

Spec == Init /\ [][Next]_<<kind, queue, effect>>

=============================================================================

------------------------------ MODULE Outbox ------------------------------
(***************************************************************************)
(* What the setter's send path promises about one draft, whatever the      *)
(* handlers do inside: Instagram gets its first copy freely, and any       *)
(* further copy only after the draft was flagged with the warning that a   *)
(* copy may already be in the thread.  ReplyDelivery implements it.        *)
(***************************************************************************)
EXTENDS Naturals

CONSTANT Drafts

VARIABLES
  copies,   \* copies[d]: DMs of draft d that reached Instagram
  flagged   \* flagged[d]: d carries the "send was interrupted" warning

vars == <<copies, flagged>>

Init ==
  /\ copies = [d \in Drafts |-> 0]
  /\ flagged = [d \in Drafts |-> FALSE]

\* A copy of the draft reaches the prospect.
Deliver(d) ==
  /\ copies[d] = 0 \/ flagged[d]
  /\ copies' = [copies EXCEPT ![d] = @ + 1]
  /\ UNCHANGED flagged

\* The outcome of a send became uncertain; the warning is never taken back.
Flag(d) ==
  /\ flagged' = [flagged EXCEPT ![d] = TRUE]
  /\ UNCHANGED copies

Next == \E d \in Drafts: Deliver(d) \/ Flag(d)

Spec == Init /\ [][Next]_vars
=============================================================================

----------------------------- MODULE FrameChannel -----------------------------
(***************************************************************************)
(* What a framed link promises the two applications at its ends: a FIFO of *)
(* messages.  Line noise may cost messages that were not yet delivered,    *)
(* never more than one for each disturbance, and the peer closing may cut  *)
(* the one being sent; nothing is ever invented, altered, repeated or      *)
(* overtaken.                                                              *)
(***************************************************************************)
EXTENDS Integers, SequencesExt

CONSTANT Messages

VARIABLES
  accepted,    \* how many messages were handed to send()
  queue,       \* those that will still come out, oldest first
  delivered,   \* those that came out
  damage,      \* disturbances of the line so far
  closed       \* the sending end is gone

vars == <<accepted, queue, delivered, damage, closed>>

Init ==
  /\ accepted = 0 /\ damage = 0 /\ closed = FALSE
  /\ queue = <<>> /\ delivered = <<>>

Put(m) ==
  /\ ~closed
  /\ accepted' = accepted + 1 /\ queue' = Append(queue, m)
  /\ UNCHANGED <<delivered, damage, closed>>

Deliver ==
  /\ queue # <<>>
  /\ delivered' = Append(delivered, Head(queue)) /\ queue' = Tail(queue)
  /\ UNCHANGED <<accepted, damage, closed>>

(* The subsequences of s, its order kept.                                  *)
Thinned(s) ==
  LET At(kept) == LET ix == SetToSortSeq(kept, LAMBDA i, j : i < j)
                  IN  [n \in DOMAIN ix |-> s[ix[n]]]
  IN  {At(kept) : kept \in SUBSET DOMAIN s}

(* Some messages under way are lost, so long as no more than `allowed`     *)
(* have been lost in all.                                                  *)
Lose(allowed) ==
  /\ queue' \in Thinned(queue)
  /\ accepted - Len(queue') - Len(delivered) <= allowed
  /\ UNCHANGED <<accepted, delivered>>

Disturb ==
  /\ ~closed /\ damage' = damage + 1 /\ UNCHANGED closed
  /\ Lose(damage + 1)

Close ==
  /\ ~closed /\ closed' = TRUE /\ UNCHANGED damage
  /\ Lose(damage + 1)

Next == (\E m \in Messages : Put(m)) \/ Deliver \/ Disturb \/ Close

Spec == Init /\ [][Next]_vars
=============================================================================

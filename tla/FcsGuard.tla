------------------------------- MODULE FcsGuard -------------------------------
(***************************************************************************)
(* What the FCS is for: the sender runs fcs16() over the octets of a frame *)
(* and appends the complement, the receiver runs it over what arrives and  *)
(* accepts on the good residual.  The line may damage one octet, or two    *)
(* next to each other, anywhere in the frame, the FCS itself included.     *)
(***************************************************************************)
EXTENDS FcsFacts

CONSTANTS
  Sent,      \* octets the sender may cover
  Damage,    \* octets the line may deliver in their place
  MaxBody    \* bound: octets covered by the FCS

ASSUME FcsGuardAssumption ==
  Sent \subseteq Octet /\ Damage \subseteq Octet /\ MaxBody \in Nat

VARIABLES
  tx,       \* the FCS over what was sent
  rx,       \* the FCS over what arrived
  phase,    \* "body" | "fcs"
  trailer,  \* FCS octets still to send
  length,   \* octets covered so far
  hit       \* "none", "one" octet just now, "over": no more damage to come

vars == <<tx, rx, phase, trailer, length, hit>>

Init ==
  /\ tx = INIT_FCS16 /\ rx = INIT_FCS16
  /\ phase = "body" /\ trailer = <<>> /\ length = 0 /\ hit = "none"

(* One octet on the line: it arrives, or another one in its place.         *)
Arrive(b) ==
  /\ tx' = FcsStep(tx, b) /\ rx' = FcsStep(rx, b)
  /\ hit' = IF hit = "none" THEN "none" ELSE "over"

ArriveDamaged(b) ==
  /\ hit \in {"none", "one"}
  /\ tx' = FcsStep(tx, b)
  /\ \E c \in Damage \ {b} : rx' = FcsStep(rx, c)
  /\ hit' = IF hit = "none" THEN "one" ELSE "over"

Transfer(b) == Arrive(b) \/ ArriveDamaged(b)

Cover ==
  /\ phase = "body" /\ length < MaxBody /\ length' = length + 1
  /\ \E b \in Sent : Transfer(b)
  /\ UNCHANGED <<phase, trailer>>

(* Mutant: the FCS sent without the complement.                            *)
AppendPlainFcs ==
  /\ phase = "body" /\ phase' = "fcs"
  /\ trailer' = <<tx.lo, tx.hi>>
  /\ UNCHANGED <<tx, rx, length, hit>>

AppendFcs ==
  /\ phase = "body" /\ phase' = "fcs"
  /\ trailer' = FcsOctets(tx)
  /\ UNCHANGED <<tx, rx, length, hit>>

SendFcs ==
  /\ trailer # <<>>
  /\ Transfer(Head(trailer)) /\ trailer' = Tail(trailer)
  /\ UNCHANGED <<phase, length>>

Next == Cover \/ AppendFcs \/ SendFcs

Spec == Init /\ [][Next]_vars

-----------------------------------------------------------------------------
TypeOK ==
  /\ tx \in Word /\ rx \in Word
  /\ phase \in {"body", "fcs"} /\ hit \in {"none", "one", "over"}
  /\ trailer \in Seq(Octet) /\ Len(trailer) \in 0..2
  /\ length \in 0..MaxBody

Received == phase = "fcs" /\ trailer = <<>>

(* check_fcs() accepts every frame that arrives as it was sent, and no     *)
(* frame of which one octet, or two adjacent ones, were damaged.           *)
AcceptsExactlyIntact == Received => (rx = GOOD_FCS16 <=> hit = "none")

(* The inductive form: the two registers agree exactly while nothing was   *)
(* damaged; right after the first damaged octet they differ in the high    *)
(* octet, which a second damaged octet can move but not cancel; and the    *)
(* complemented FCS drives the sender's register to the good residual.     *)
Tracking ==
  /\ hit = "none" => rx = tx
  /\ hit = "one" => rx.hi # tx.hi
  /\ hit = "over" => rx # tx

Closing ==
  /\ phase = "body" => trailer = <<>>
  /\ Len(trailer) = 2 => trailer = FcsOctets(tx)
  /\ Len(trailer) = 1 =>
       /\ tx.hi = Table[255].hi
       /\ \E x \in Octet : trailer = <<255 - x>> /\ tx.lo = OctetXor[x][Table[255].lo]
  /\ Received => tx = GOOD_FCS16

IInv == TypeOK /\ Tracking /\ Closing
=============================================================================

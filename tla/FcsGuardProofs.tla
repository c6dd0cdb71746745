---------------------------- MODULE FcsGuardProofs ----------------------------
(***************************************************************************)
(* The FCS detects every damaged octet and every damaged pair of adjacent  *)
(* octets, in frames of any length: a proof from the facts about the       *)
(* 256-entry table that FcsGuard states and TLC evaluates.                 *)
(***************************************************************************)
EXTENDS FcsGuard, TLAPS

(* Exclusive or with a fixed octet loses nothing.                          *)
LEMMA XorCancels ==
  ASSUME NEW a \in Octet, NEW b \in Octet, NEW c \in Octet,
         OctetXor[a][b] = OctetXor[a][c]
  PROVE  b = c
<1>1. OctetXor[a][OctetXor[a][b]] = b BY OctetXorFacts
<1>2. OctetXor[a][OctetXor[a][c]] = c BY OctetXorFacts
<1> QED BY <1>1, <1>2

(* One step of fcs16(), octet by octet.                                    *)
LEMMA StepOctets ==
  ASSUME NEW f \in Word, NEW b \in Octet
  PROVE  /\ FcsStep(f, b) \in Word
         /\ OctetXor[f.lo][b] \in Octet
         /\ FcsStep(f, b).hi = Table[OctetXor[f.lo][b]].hi
         /\ FcsStep(f, b).lo = OctetXor[f.hi][Table[OctetXor[f.lo][b]].lo]
<1> DEFINE i == OctetXor[f.lo][b]
<1>1. f.hi \in Octet /\ f.lo \in Octet BY DEF Word
<1>2. i \in Octet BY <1>1, OctetXorFacts
<1>3. Table[i] \in Word BY <1>2, TableFacts
<1>4. Table[i].hi \in Octet /\ Table[i].lo \in Octet BY <1>3 DEF Word
<1>5. OctetXor[0][Table[i].hi] = Table[i].hi BY <1>4, ComplementFacts
<1>6. OctetXor[f.hi][Table[i].lo] \in Octet BY <1>1, <1>4, OctetXorFacts
<1>7. FcsStep(f, b) = [hi |-> Table[i].hi, lo |-> OctetXor[f.hi][Table[i].lo]]
  BY <1>5 DEF FcsStep, WordXor, ShiftRight8
<1> QED BY <1>2, <1>4, <1>6, <1>7 DEF Word

(* Different octets into the same register: the high octets come out       *)
(* different.                                                              *)
LEMMA FirstHit ==
  ASSUME NEW f \in Word, NEW b \in Octet, NEW c \in Octet, b # c
  PROVE  FcsStep(f, b).hi # FcsStep(f, c).hi
<1>1. f.lo \in Octet BY DEF Word
<1>2. OctetXor[f.lo][b] # OctetXor[f.lo][c] BY <1>1, XorCancels
<1> QED BY <1>2, StepOctets, TableFacts

(* Registers whose high octets differ stay different whatever octets they  *)
(* absorb next.                                                            *)
LEMMA SecondHit ==
  ASSUME NEW f \in Word, NEW g \in Word, f.hi # g.hi,
         NEW b \in Octet, NEW c \in Octet
  PROVE  FcsStep(f, b) # FcsStep(g, c)
<1> DEFINE i == OctetXor[f.lo][b]
           j == OctetXor[g.lo][c]
<1>1. i \in Octet /\ j \in Octet
      /\ FcsStep(f, b).hi = Table[i].hi /\ FcsStep(g, c).hi = Table[j].hi
      /\ FcsStep(f, b).lo = OctetXor[f.hi][Table[i].lo]
      /\ FcsStep(g, c).lo = OctetXor[g.hi][Table[j].lo]
  BY StepOctets
<1>2. CASE i # j
  <2>1. Table[i].hi # Table[j].hi BY <1>1, <1>2, TableFacts
  <2> QED BY <1>1, <2>1
<1>3. CASE i = j
  <2> DEFINE t == Table[i].lo
  <2>1. f.hi \in Octet /\ g.hi \in Octet BY DEF Word
  <2>2. t \in Octet BY <1>1, TableFacts DEF Word
  <2>3. OctetXor[f.hi][t] # OctetXor[g.hi][t]
    <3>1. OctetXor[f.hi][t] = OctetXor[t][f.hi] /\ OctetXor[g.hi][t] = OctetXor[t][g.hi]
      BY <2>1, <2>2, OctetXorFacts
    <3> QED BY <2>1, <2>2, <3>1, XorCancels
  <2> QED BY <1>1, <1>3, <2>3
<1> QED BY <1>2, <1>3

(* The same octet keeps different registers different.                     *)
LEMMA StaysDifferent ==
  ASSUME NEW f \in Word, NEW g \in Word, f # g, NEW b \in Octet
  PROVE  FcsStep(f, b) # FcsStep(g, b)
<1>0. f.hi \in Octet /\ f.lo \in Octet /\ g.hi \in Octet /\ g.lo \in Octet BY DEF Word
<1>1. CASE f.hi # g.hi BY <1>1, SecondHit
<1>2. CASE f.hi = g.hi
  <2>1. f.lo # g.lo BY <1>2 DEF Word
  <2>2. OctetXor[f.lo][b] # OctetXor[g.lo][b]
    <3>1. OctetXor[f.lo][b] = OctetXor[b][f.lo] /\ OctetXor[g.lo][b] = OctetXor[b][g.lo]
      BY <1>0, OctetXorFacts
    <3> QED BY <1>0, <2>1, <3>1, XorCancels
  <2>3. FcsStep(f, b).hi # FcsStep(g, b).hi BY <2>2, StepOctets, TableFacts
  <2> QED BY <2>3
<1> QED BY <1>1, <1>2

-----------------------------------------------------------------------------
(* The two octets of a check sequence, low one first, complemented.        *)
LEMMA FcsOctetsType ==
  ASSUME NEW f \in Word
  PROVE  /\ FcsOctets(f) \in Seq(Octet) /\ Len(FcsOctets(f)) = 2
         /\ Head(FcsOctets(f)) = 255 - f.lo /\ Tail(FcsOctets(f)) = <<255 - f.hi>>
         /\ f.hi \in Octet /\ f.lo \in Octet
BY DEF FcsOctets, Word, Octet

(* The complement sent low octet first leads any register to the residual. *)
LEMMA LowFcsOctet ==
  ASSUME NEW f \in Word
  PROVE  /\ FcsStep(f, 255 - f.lo).hi = Table[255].hi
         /\ FcsStep(f, 255 - f.lo).lo = OctetXor[f.hi][Table[255].lo]
<1>1. f.lo \in Octet BY DEF Word
<1>2. 255 - f.lo \in Octet BY <1>1 DEF Octet
<1>3. OctetXor[f.lo][255 - f.lo] = 255 BY <1>1, ComplementFacts
<1> QED BY <1>2, <1>3, StepOctets

(* The second octet of the FCS leads from the state the first left to the  *)
(* good residual.                                                          *)
LEMMA HighFcsOctet ==
  ASSUME NEW f \in Word, NEW x \in Octet,
         f.hi = Table[255].hi, f.lo = OctetXor[x][Table[255].lo]
  PROVE  FcsStep(f, 255 - x) = GOOD_FCS16
<1> DEFINE y == OctetXor[x][Table[255].lo]
<1>1. f = [hi |-> f.hi, lo |-> f.lo] BY DEF Word
<1>2. f = [hi |-> Table[255].hi, lo |-> y] BY <1>1
<1>3. FcsStep([hi |-> Table[255].hi, lo |-> y], 255 - x) = GOOD_FCS16 BY ResidualFact
<1> HIDE DEF y
<1> QED BY <1>2, <1>3

-----------------------------------------------------------------------------
(* The invariant holds before the first octet.                             *)
LEMMA InitIInv == Init => IInv
<1> SUFFICES ASSUME Init PROVE IInv OBVIOUS
<1>1. TypeOK
  BY FcsGuardAssumption DEF Init, TypeOK, INIT_FCS16, Word, Octet
<1>2. Tracking BY DEF Init, Tracking
<1>3. Closing BY DEF Init, Closing, Received
<1> QED BY <1>1, <1>2, <1>3 DEF IInv

(* Every octet on the line, damaged or not, keeps the registers' types and *)
(* the relation between them.                                              *)
LEMMA TransferTracks ==
  ASSUME IInv, NEW b \in Octet, Transfer(b)
  PROVE  /\ tx' = FcsStep(tx, b) /\ tx' \in Word /\ rx' \in Word
         /\ hit' \in {"none", "one", "over"}
         /\ Tracking'
<1>0. tx \in Word /\ rx \in Word /\ hit \in {"none", "one", "over"} /\ Tracking
  BY DEF IInv, TypeOK
<1>1. CASE Arrive(b)
  <2>1. tx' \in Word /\ rx' \in Word BY <1>0, <1>1, StepOctets DEF Arrive
  <2>2. hit = "none" => rx' = tx' BY <1>0, <1>1 DEF Arrive, Tracking
  <2>3. rx # tx => rx' # tx' BY <1>0, <1>1, StaysDifferent DEF Arrive
  <2>4. hit # "none" => rx # tx BY <1>0 DEF Tracking
  <2> QED BY <1>0, <1>1, <2>1, <2>2, <2>3, <2>4 DEF Arrive, Tracking
<1>2. CASE ArriveDamaged(b)
  <2>1. PICK c \in Damage \ {b} : rx' = FcsStep(rx, c) BY <1>2 DEF ArriveDamaged
  <2>2. c \in Octet /\ c # b BY <2>1, FcsGuardAssumption
  <2>3. tx' \in Word /\ rx' \in Word BY <1>0, <1>2, <2>1, <2>2, StepOctets DEF ArriveDamaged
  <2>4. CASE hit = "none"
    <3>1. rx = tx BY <1>0, <2>4 DEF Tracking
    <3>2. rx'.hi # tx'.hi BY <1>0, <1>2, <2>1, <2>2, <3>1, FirstHit DEF ArriveDamaged
    <3> QED BY <1>2, <2>3, <2>4, <3>2 DEF ArriveDamaged, Tracking
  <2>5. CASE hit = "one"
    <3>1. rx.hi # tx.hi BY <1>0, <2>5 DEF Tracking
    <3>2. rx' # tx' BY <1>0, <1>2, <2>1, <2>2, <3>1, SecondHit DEF ArriveDamaged
    <3> QED BY <1>2, <2>3, <2>5, <3>2 DEF ArriveDamaged, Tracking
  <2> QED BY <1>2, <2>4, <2>5 DEF ArriveDamaged
<1> QED BY <1>1, <1>2 DEF Transfer

(* Another octet under the FCS keeps the invariant.                        *)
LEMMA CoverStep == IInv /\ Cover => IInv'
<1> SUFFICES ASSUME IInv, Cover PROVE IInv' OBVIOUS
<1>1. PICK b \in Sent : Transfer(b) BY DEF Cover
<1>2. b \in Octet BY FcsGuardAssumption
<1>3. tx' \in Word /\ rx' \in Word /\ hit' \in {"none", "one", "over"} /\ Tracking'
  BY <1>1, <1>2, TransferTracks
<1>4. TypeOK' BY <1>3, FcsGuardAssumption DEF IInv, TypeOK, Cover
<1>5. Closing' BY DEF IInv, Closing, Received, Cover
<1> QED BY <1>3, <1>4, <1>5 DEF IInv

(* Appending the FCS keeps the invariant.                                  *)
LEMMA AppendFcsStep == IInv /\ AppendFcs => IInv'
<1> SUFFICES ASSUME IInv, AppendFcs PROVE IInv' OBVIOUS
<1>0. tx \in Word BY DEF IInv, TypeOK
<1>1. TypeOK'
  <2>1. trailer' \in Seq(Octet) /\ Len(trailer') = 2 BY <1>0, FcsOctetsType DEF AppendFcs
  <2>2. /\ tx' = tx /\ rx' = rx /\ hit' = hit /\ length' = length /\ phase' = "fcs"
        /\ tx \in Word /\ rx \in Word /\ hit \in {"none", "one", "over"}
        /\ length \in 0..MaxBody
    BY DEF IInv, TypeOK, AppendFcs
  <2> QED BY <2>1, <2>2 DEF TypeOK
<1>2. Tracking' BY DEF IInv, Tracking, AppendFcs
<1>3. Closing'
  <2>1. trailer' = FcsOctets(tx') /\ phase' = "fcs" BY DEF AppendFcs
  <2>2. Len(trailer') = 2 BY <1>0, <2>1, FcsOctetsType DEF AppendFcs
  <2>3. trailer' # <<>> BY <2>2
  <2> QED BY <2>1, <2>2, <2>3 DEF Closing, Received
<1> QED BY <1>1, <1>2, <1>3 DEF IInv

(* Sending the FCS keeps the invariant.                                    *)
LEMMA SendFcsStep == IInv /\ SendFcs => IInv'
<1> SUFFICES ASSUME IInv, SendFcs PROVE IInv' OBVIOUS
<1> DEFINE b == Head(trailer)
<1>a. /\ tx \in Word /\ trailer \in Seq(Octet) /\ Len(trailer) \in 0..2
      /\ phase \in {"body", "fcs"} /\ (phase = "body" => trailer = <<>>)
  BY DEF IInv, TypeOK, Closing
<1>b. /\ trailer # <<>> /\ trailer' = Tail(trailer) /\ Transfer(b)
      /\ phase' = phase /\ length' = length
  BY DEF SendFcs
<1>0. /\ tx \in Word /\ trailer \in Seq(Octet) /\ trailer # <<>> /\ Len(trailer) \in 1..2
      /\ trailer' = Tail(trailer) /\ Transfer(b) /\ phase = "fcs" /\ phase' = phase
      /\ length' = length
  <2>1. phase = "fcs" BY <1>a, <1>b
  <2>2. Len(trailer) \in 1..2 BY <1>a, <1>b
  <2> QED BY <1>a, <1>b, <2>1, <2>2
<1>1. b \in Octet BY <1>0
<1>2. /\ tx' = FcsStep(tx, b) /\ tx' \in Word /\ rx' \in Word
      /\ hit' \in {"none", "one", "over"} /\ Tracking'
  BY <1>0, <1>1, TransferTracks
<1>3. TypeOK' BY <1>0, <1>2 DEF IInv, TypeOK
<1>4. Closing'
  <2>1. CASE Len(trailer) = 2
    <3>1. trailer = FcsOctets(tx) BY <2>1 DEF IInv, Closing
    <3>2. b = 255 - tx.lo /\ trailer' = <<255 - tx.hi>> /\ tx.hi \in Octet
      BY <1>0, <3>1, FcsOctetsType
    <3>3. tx'.hi = Table[255].hi /\ tx'.lo = OctetXor[tx.hi][Table[255].lo]
      BY <1>0, <1>2, <3>2, LowFcsOctet
    <3>4. Len(trailer') = 1 /\ trailer' # <<>> BY <3>2
    <3>5. phase' # "body" /\ ~Received' BY <1>0, <3>4 DEF Received
    <3>6. \E x \in Octet : trailer' = <<255 - x>> /\ tx'.lo = OctetXor[x][Table[255].lo]
      BY <3>2, <3>3
    <3> QED BY <3>3, <3>4, <3>5, <3>6 DEF Closing
  <2>2. CASE Len(trailer) = 1
    <3>1. PICK x \in Octet : trailer = <<255 - x>> /\ tx.lo = OctetXor[x][Table[255].lo]
      BY <2>2 DEF IInv, Closing
    <3>2. tx.hi = Table[255].hi BY <2>2 DEF IInv, Closing
    <3>3. b = 255 - x /\ trailer' = <<>> BY <1>0, <3>1
    <3>4. tx' = GOOD_FCS16 BY <1>0, <1>2, <3>1, <3>2, <3>3, HighFcsOctet
    <3>5. phase' # "body" /\ Len(trailer') = 0 BY <1>0, <3>3
    <3> QED BY <3>4, <3>5 DEF Closing
  <2> QED BY <1>0, <2>1, <2>2
<1> QED BY <1>2, <1>3, <1>4 DEF IInv

(* The inductive invariant holds in every reachable state.                 *)
THEOREM FcsInvariant == Spec => []IInv
<1>1. IInv /\ [Next]_vars => IInv'
  <2> SUFFICES ASSUME IInv, [Next]_vars PROVE IInv' OBVIOUS
  <2>1. CASE Cover BY <2>1, CoverStep
  <2>2. CASE AppendFcs BY <2>2, AppendFcsStep
  <2>3. CASE SendFcs BY <2>3, SendFcsStep
  <2>4. CASE UNCHANGED vars
    BY <2>4 DEF IInv, TypeOK, Tracking, Closing, Received, vars
  <2> QED BY <2>1, <2>2, <2>3, <2>4 DEF Next
<1> QED BY <1>1, InitIInv, PTL DEF Spec

(* For frames of any length over any octets: check_fcs() accepts a frame   *)
(* if and only if nothing damaged it, as long as damage is confined to two *)
(* adjacent octets.                                                        *)
THEOREM FcsAcceptsExactlyIntact == Spec => []AcceptsExactlyIntact
<1>1. IInv => AcceptsExactlyIntact
  BY DEF IInv, TypeOK, Tracking, Closing, AcceptsExactlyIntact
<1> QED BY <1>1, FcsInvariant, PTL
=============================================================================

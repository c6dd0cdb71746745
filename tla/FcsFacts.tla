------------------------------- MODULE FcsFacts -------------------------------
(***************************************************************************)
(* The facts about octets and the generated table that the proofs about    *)
(* the FCS rest on: each is about 256 octets or pairs of octets, and TLC   *)
(* evaluates all of them.                                                  *)
(***************************************************************************)
EXTENDS Fcs

(* Exclusive or commutes, and undoes itself.                               *)
ASSUME OctetXorFacts ==
  \A a, b \in Octet :
    /\ OctetXor[a][b] \in Octet
    /\ OctetXor[a][OctetXor[a][b]] = b
    /\ OctetXor[a][b] = OctetXor[b][a]

(* Different octets have different high octets in the table.               *)
ASSUME TableFacts ==
  /\ Table \in [Octet -> Word]
  /\ \A i, j \in Octet : Table[i].hi = Table[j].hi => i = j

(* What adding the complement of an octet comes to.                        *)
ASSUME ComplementFacts ==
  \A x \in Octet : OctetXor[0][x] = x /\ OctetXor[x][255 - x] = 255

(* The last octet of a frame leads the register to the good residual.      *)
ASSUME ResidualFact ==
  \A x \in Octet :
    FcsStep([hi |-> Table[255].hi, lo |-> OctetXor[x][Table[255].lo]], 255 - x)
      = GOOD_FCS16
=============================================================================

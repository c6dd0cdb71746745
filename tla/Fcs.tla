--------------------------------- MODULE Fcs ---------------------------------
(***************************************************************************)
(* The 16-bit frame check sequence of RFC 1662 as src/src/fcs.cpp and      *)
(* tools/serial_link/framing/fcs.py compute it.  A 16-bit value is the     *)
(* record of its two octets.  The lookup table is generated the way the    *)
(* code generates it, so every frame in these models carries its real FCS. *)
(***************************************************************************)
EXTENDS Integers, SequencesExt

Octet == 0..255

Word == [hi : Octet, lo : Octet]

(* Bitwise exclusive or, of octets (tabulated) and of 16-bit values.       *)
OctetXor ==
  [a \in Octet |-> [b \in Octet |->
     MapThenSumSet(LAMBDA w : IF (a \div w) % 2 = (b \div w) % 2 THEN 0 ELSE w,
                   {1, 2, 4, 8, 16, 32, 64, 128})]]

WordXor(x, y) == [hi |-> OctetXor[x.hi][y.hi], lo |-> OctetXor[x.lo][y.lo]]

ShiftRight1(x) == [hi |-> x.hi \div 2, lo |-> x.lo \div 2 + 128 * (x.hi % 2)]

ShiftRight8(x) == [hi |-> 0, lo |-> x.hi]

INIT_FCS16 == [hi |-> 255, lo |-> 255]
GOOD_FCS16 == [hi |-> 240, lo |-> 184]
POLY       == [hi |-> 132, lo |-> 8]

-----------------------------------------------------------------------------
(* table(): an octet divided by the polynomial, one bit at a time.         *)
Divide(x) ==
  IF x.lo % 2 = 1 THEN WordXor(ShiftRight1(x), POLY) ELSE ShiftRight1(x)

Table ==
  [b \in Octet |->
     FoldLeft(LAMBDA crc, i : Divide(crc), [hi |-> 0, lo |-> b],
              <<1, 2, 3, 4, 5, 6, 7, 8>>)]

(* fcs16(): the body of the loop, `(fcs >> 8) ^ tab[(fcs ^ octet) & 0xFF]`,*)
(* and the loop.  (Here and in Framing the step of a loop is applied as a  *)
(* function: TLC then evaluates its argument once.)                        *)
FcsStep(fcs, b) == WordXor(ShiftRight8(fcs), Table[OctetXor[fcs.lo][b]])

Fcs16(data) ==
  FoldLeft(LAMBDA fcs, b : [x \in Word |-> FcsStep(x, b)][fcs], INIT_FCS16, data)

(* Mutant: the FCS sent high octet first.                                  *)
FcsOctetsHighFirst(fcs) == <<255 - fcs.hi, 255 - fcs.lo>>

(* frame_fcs(): the ones-complement of the FCS, low octet first.           *)
FcsOctets(fcs) == <<255 - fcs.lo, 255 - fcs.hi>>

FrameFcs(data) == FcsOctets(Fcs16(data))

CheckFcs(data) == Fcs16(data) = GOOD_FCS16
=============================================================================

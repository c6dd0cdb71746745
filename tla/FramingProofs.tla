---------------------------- MODULE FramingProofs ----------------------------
(***************************************************************************)
(* What the encoder, the de-framer and the codec owe each other, for INFO  *)
(* fields of any length and a receiver in any state, and what the framed   *)
(* link makes of it on a line with noise: how many bad frames noise can    *)
(* cause, and that nothing intact is held back at end of file.             *)
(***************************************************************************)
EXTENDS FramedLink, WireFormat, DataFacts, FiniteSetTheorems, FunctionTheorems

-----------------------------------------------------------------------------
(* The FCS.                                                                *)

(* One step of fcs16() yields a 16-bit value again.                        *)
LEMMA StepIsWord ==
  ASSUME NEW f \in Word, NEW b \in Octet
  PROVE  FcsStep(f, b) \in Word
<1> DEFINE i == OctetXor[f.lo][b]
<1>1. f.hi \in Octet /\ f.lo \in Octet BY DEF Word
<1>2. i \in Octet BY <1>1, OctetXorFacts
<1>3. Table[i].hi \in Octet /\ Table[i].lo \in Octet BY <1>2, TableFacts DEF Word
<1>4. OctetXor[0][Table[i].hi] = Table[i].hi BY <1>3, ComplementFacts
<1>5. OctetXor[f.hi][Table[i].lo] \in Octet BY <1>1, <1>3, OctetXorFacts
<1>6. FcsStep(f, b) = [hi |-> Table[i].hi, lo |-> OctetXor[f.hi][Table[i].lo]]
  BY <1>4 DEF FcsStep, WordXor, ShiftRight8
<1> QED BY <1>3, <1>5, <1>6 DEF Word

(* The complemented FCS leads the register it was taken from to the good   *)
(* residual.                                                               *)
LEMMA FcsCloses ==
  ASSUME NEW f \in Word
  PROVE  /\ 255 - f.lo \in Octet /\ 255 - f.hi \in Octet
         /\ FcsStep(FcsStep(f, 255 - f.lo), 255 - f.hi) = GOOD_FCS16
<1>1. f.hi \in Octet /\ f.lo \in Octet BY DEF Word
<1>2. 255 - f.lo \in Octet /\ 255 - f.hi \in Octet BY <1>1 DEF Octet
<1>3. OctetXor[f.lo][255 - f.lo] = 255 BY <1>1, ComplementFacts
<1>4. 255 \in Octet BY DEF Octet
<1>5. Table[255].hi \in Octet /\ Table[255].lo \in Octet BY <1>4, TableFacts DEF Word
<1>6. OctetXor[0][Table[255].hi] = Table[255].hi BY <1>5, ComplementFacts
<1>7. FcsStep(f, 255 - f.lo)
        = [hi |-> Table[255].hi, lo |-> OctetXor[f.hi][Table[255].lo]]
  BY <1>3, <1>6 DEF FcsStep, WordXor, ShiftRight8
<1>8. FcsStep([hi |-> Table[255].hi, lo |-> OctetXor[f.hi][Table[255].lo]], 255 - f.hi)
        = GOOD_FCS16
  BY <1>1, ResidualFact
<1> QED BY <1>2, <1>7, <1>8

FcsSteps(data) == [i \in 1..Len(data) |-> [x \in Word |-> FcsStep(x, data[i])]]

(* fcs16() is a loop over the octets, ...                                  *)
LEMMA FcsRuns ==
  ASSUME NEW data \in Seq(Octet)
  PROVE  \E h : /\ Loop(h, INIT_FCS16, FcsSteps(data), Len(data), Word)
                /\ Fcs16(data) = h[Len(data)]
<1> DEFINE len == Len(data)
           step == FcsSteps(data)
           Solves(w) ==
             w = [s \in SUBSET DOMAIN data |->
                    IF s = {} THEN INIT_FCS16
                    ELSE [x \in Word |-> FcsStep(x, data[Max(s)])][w[s \ {Max(s)}]]]
           w == CHOOSE w : Solves(w)
<1>1. len \in Nat /\ DOMAIN data = 1..len /\ \A i \in 1..len : data[i] \in Octet
  BY SeqElements
<1>2. INIT_FCS16 \in Word BY DEF INIT_FCS16, Word, Octet
<1>3. step \in [1..len -> [Word -> Word]] BY <1>1, StepIsWord DEF FcsSteps
<1>4. Fcs16(data) = w[DOMAIN data] BY Zenon DEF Fcs16, FoldLeft, MapThenFoldSet
<1>5. ASSUME NEW s \in SUBSET (1..len), s # {}
      PROVE  step[Max(s)] = [x \in Word |-> FcsStep(x, data[Max(s)])]
  <2>1. Max(s) \in 1..len BY <1>1, <1>5, MaxIs
  <2> QED BY <2>1 DEF FcsSteps
<1>6. PICK g : FoldSolves(g, INIT_FCS16, step, len, Word)
  BY <1>1, <1>2, <1>3, FoldExists
<1> HIDE DEF step
<1>7. \E g1 : Solves(g1)
  <2>1. ASSUME NEW s \in SUBSET (1..len), s # {}
        PROVE  g[s] = [x \in Word |-> FcsStep(x, data[Max(s)])][g[s \ {Max(s)}]]
    <3>1. g[s] = step[Max(s)][g[s \ {Max(s)}]] BY <1>6, <2>1 DEF FoldSolves
    <3> QED BY <1>5, <2>1, <3>1
  <2>2. g \in [SUBSET (1..len) -> Word] /\ g[{}] = INIT_FCS16 BY <1>6 DEF FoldSolves
  <2>3. Solves(g) BY <1>1, <2>1, <2>2
  <2> QED BY <2>3
<1>8. Solves(w) BY <1>7, Zenon
<1> HIDE DEF w
<1>9. FoldEquation(w, INIT_FCS16, step, len, Word)
  <2>1. w[{}] = INIT_FCS16 /\ w = [s \in SUBSET (1..len) |-> w[s]] BY <1>1, <1>8
  <2>2. \A s \in (SUBSET (1..len)) \ {{}} :
          w[s] = [x \in Word |-> FcsStep(x, data[Max(s)])][w[s \ {Max(s)}]]
    BY <1>1, <1>8
  <2>3. \A s \in (SUBSET (1..len)) \ {{}} : w[s] = step[Max(s)][w[s \ {Max(s)}]]
    BY <1>5, <2>2
  <2> QED BY <2>1, <2>3, Zenon DEF FoldEquation
<1>10. \E h : Loop(h, INIT_FCS16, step, len, Word) /\ h[len] = w[1..len]
  BY <1>1, <1>2, <1>3, <1>9, FoldRuns
<1> QED BY <1>1, <1>4, <1>10 DEF step

(* ... so one more octet is one more step.                                 *)
LEMMA FcsNext ==
  ASSUME NEW data \in Seq(Octet), NEW b \in Octet
  PROVE  Fcs16(data) \in Word /\ Fcs16(Append(data, b)) = FcsStep(Fcs16(data), b)
<1> DEFINE len  == Len(data)
           more == Append(data, b)
<1>1. /\ more \in Seq(Octet) /\ len \in Nat /\ Len(more) = len + 1
      /\ \A i \in 1..len : more[i] = data[i]
      /\ more[len + 1] = b
  BY AppendElements
<1>2. PICK h : Loop(h, INIT_FCS16, FcsSteps(data), len, Word) /\ Fcs16(data) = h[len]
  BY FcsRuns
<1> HIDE DEF more
<1>3. PICK g : Loop(g, INIT_FCS16, FcsSteps(more), len + 1, Word) /\ Fcs16(more) = g[len + 1]
  BY <1>1, FcsRuns
<1>4. ASSUME NEW i \in 1..len PROVE FcsSteps(data)[i] = FcsSteps(more)[i]
  BY <1>1 DEF FcsSteps
<1> HIDE DEF len
<1>5. h[len] \in Word /\ g[len + 1] = FcsSteps(more)[len + 1][h[len]]
  BY <1>1, <1>2, <1>3, <1>4, LoopNext
<1>6. FcsSteps(more)[len + 1] = [x \in Word |-> FcsStep(x, b)]
  <2>1. len + 1 \in 1..Len(more) BY <1>1
  <2> QED BY <1>1, <2>1 DEF FcsSteps
<1> QED BY <1>2, <1>3, <1>5, <1>6 DEF more

(* A frame's octets with their FCS check.                                  *)
LEMMA FrameChecks ==
  ASSUME NEW covered \in Seq(Octet)
  PROVE  /\ FrameFcs(covered) \in Seq(Octet) /\ Len(FrameFcs(covered)) = 2
         /\ covered \o FrameFcs(covered) \in Seq(Octet)
         /\ CheckFcs(covered \o FrameFcs(covered))
<1> DEFINE f == Fcs16(covered)
           lo == 255 - f.lo
           hi == 255 - f.hi
           one == Append(covered, lo)
<1>1. f \in Word
  <2>1. 0 \in Octet BY DEF Octet
  <2> QED BY <2>1, FcsNext
<1>2. lo \in Octet /\ hi \in Octet /\ FcsStep(FcsStep(f, lo), hi) = GOOD_FCS16
  BY <1>1, FcsCloses
<1>3. FrameFcs(covered) = <<lo, hi>> BY DEF FrameFcs, FcsOctets
<1> HIDE DEF lo, hi
<1>4. one \in Seq(Octet) BY <1>2, AppendElements
<1>5. Append(one, hi) = covered \o <<lo, hi>>
  BY <1>2, AppendTwice
<1>6. Fcs16(Append(one, hi)) = GOOD_FCS16 BY <1>2, <1>4, FcsNext
<1>7. <<lo, hi>> \in Seq(Octet) /\ Len(<<lo, hi>>) = 2 BY <1>2
<1> QED BY <1>3, <1>5, <1>6, <1>7, ConcatProperties DEF CheckFcs

-----------------------------------------------------------------------------
(* The de-framer, one octet at a time.                                     *)
LEMMA ToggleFacts ==
  ASSUME NEW b \in Octet
  PROVE  /\ Toggle(b) \in Octet
         /\ MustEscape(b) => /\ Toggle(b) \notin {FLAG, ESC} /\ Toggle(b) >= 32
                             /\ Toggle(Toggle(b)) = b
<1>1. b \in 0..255 BY DEF Octet
<1>2. Toggle(b) \in Octet
  <2>1. CASE b < 32 BY <1>1, <2>1 DEF Toggle, Octet
  <2>2. CASE b >= 32
    <3>1. CASE (b \div 32) % 2 = 1 BY <1>1, <2>2, <3>1 DEF Toggle, Octet
    <3>2. CASE (b \div 32) % 2 # 1
      <4>1. b \div 32 \in 1..7 /\ 32 * (b \div 32) <= b /\ b < 32 * (b \div 32) + 32
        BY <1>1, <2>2
      <4>2. b \div 32 # 7 BY <3>2
      <4>3. b + 32 <= 255 BY <1>1, <4>1, <4>2
      <4> QED BY <1>1, <3>2, <4>3 DEF Toggle, Octet
    <3> QED BY <3>1, <3>2
  <2> QED BY <1>1, <2>1, <2>2
<1>3. CASE b < 32
  <2>1. Toggle(b) = b + 32 BY <1>1, <1>3 DEF Toggle
  <2>2. Toggle(b + 32) = b BY <1>1, <1>3 DEF Toggle
  <2> QED BY <1>1, <1>2, <1>3, <2>1, <2>2 DEF FLAG, ESC
<1>4. CASE b = 125 \/ b = 126
  <2>1. Toggle(b) = b - 32 BY <1>4 DEF Toggle
  <2>2. Toggle(b - 32) = b BY <1>4 DEF Toggle
  <2> QED BY <1>2, <1>4, <2>1, <2>2 DEF FLAG, ESC
<1> QED BY <1>2, <1>3, <1>4 DEF MustEscape, FLAG, ESC

(* What an octet makes of the decoder, and of what it holds at a flag.     *)
LEMMA FrameOfType ==
  ASSUME NEW buf \in Seq(Octet)
  PROVE  Finish(buf) \in Seq(Frame) /\ Len(Finish(buf)) <= 1
<1>1. CASE Len(buf) < MIN_LEN BY <1>1, EmptySeq DEF Finish
<1>2. CASE ~(Len(buf) < MIN_LEN)
  <2> DEFINE info1 == SubSeq(buf, 3, Len(buf) - 2)
  <2>1. Len(buf) \in Nat /\ Len(buf) >= 4 /\ \A i \in 1..Len(buf) : buf[i] \in Octet
    BY <1>2, SeqElements DEF MIN_LEN
  <2>2. buf[1] \in Octet /\ buf[2] \in Octet BY <2>1
  <2>3. info1 \in Seq(Octet)
    <3>1. \A i \in 3..(Len(buf) - 2) : buf[i] \in Octet BY <2>1
    <3>2. Len(buf) - 2 \in Int BY <2>1
    <3> QED BY <3>1, <3>2, SubSeqProperties
  <2> HIDE DEF info1
  <2>4. CheckFcs(buf) \in BOOLEAN BY DEF CheckFcs
  <2>5. FrameOf(buf) = [address |-> buf[1], control |-> buf[2], info |-> info1,
                        fcs_ok |-> CheckFcs(buf)]
    BY DEF FrameOf, info1
  <2>6. FrameOf(buf) \in Frame BY <2>2, <2>3, <2>4, <2>5 DEF Frame
  <2>7. Finish(buf) = <<FrameOf(buf)>> BY <1>2 DEF Finish
  <2> QED BY <2>6, <2>7, PairIsConcat
<1> QED BY <1>1, <1>2

(* One octet fed leaves a decoder a decoder and yields one frame at most.  *)
LEMMA DecoderFacts ==
  ASSUME NEW d \in Decoder, NEW b \in Octet
  PROVE  /\ DecoderAfter(d, b) \in Decoder
         /\ FramesAfter(d, b) \in Seq(Frame) /\ Len(FramesAfter(d, b)) <= 1
<1>1. d.buf \in Seq(Octet) /\ d.in_frame \in BOOLEAN /\ d.esc \in BOOLEAN BY DEF Decoder
<1>2. DecoderAfter(d, b) \in Decoder
  <2>1. CASE b = FLAG BY <2>1, EmptySeq DEF DecoderAfter, Decoder
  <2>2. CASE b # FLAG /\ ~d.in_frame BY <2>2 DEF DecoderAfter
  <2>3. CASE b = ESC /\ d.in_frame
    <3>1. b # FLAG BY <2>3 DEF ESC, FLAG
    <3>2. DecoderAfter(d, b) = [d EXCEPT !.esc = TRUE] BY <2>3, <3>1 DEF DecoderAfter
    <3> QED BY <3>2 DEF Decoder
  <2>4. CASE b \notin {FLAG, ESC} /\ d.in_frame
    <3> DEFINE x == IF d.esc THEN Toggle(b) ELSE b
    <3>1. x \in Octet BY ToggleFacts
    <3>2. Append(d.buf, x) \in Seq(Octet) BY <1>1, <3>1, AppendElements
    <3>3. DecoderAfter(d, b) = [d EXCEPT !.buf = Append(d.buf, x), !.esc = FALSE]
      BY <2>4 DEF DecoderAfter
    <3> HIDE DEF x
    <3> QED BY <3>2, <3>3 DEF Decoder
  <2> QED BY <2>1, <2>2, <2>3, <2>4
<1>3. FramesAfter(d, b) \in Seq(Frame) /\ Len(FramesAfter(d, b)) <= 1
  <2>1. <<>> \in Seq(Frame) /\ Len(<<>>) = 0 BY EmptySeq
  <2> QED BY <1>1, <2>1, FrameOfType DEF FramesAfter
<1> QED BY <1>2, <1>3

(* feed() is a loop over the octets, ...                                   *)
LEMMA FeedOneType ==
  ASSUME NEW f \in Feeding, NEW b \in Octet
  PROVE  FeedOne(f, b) \in Feeding
<1>1. f.decoder \in Decoder /\ f.frames \in Seq(Frame) BY DEF Feeding
<1>2. DecoderAfter(f.decoder, b) \in Decoder /\ FramesAfter(f.decoder, b) \in Seq(Frame)
  BY <1>1, DecoderFacts
<1>3. f.frames \o FramesAfter(f.decoder, b) \in Seq(Frame) BY <1>1, <1>2, ConcatProperties
<1> QED BY <1>2, <1>3 DEF FeedOne, Feeding

Fresh(d) == [decoder |-> d, frames |-> <<>>]

FeedSteps(octets) == [i \in 1..Len(octets) |-> [f \in Feeding |-> FeedOne(f, octets[i])]]

(* feed() is a loop over the octets.                                       *)
LEMMA FeedRuns ==
  ASSUME NEW d \in Decoder, NEW octets \in Seq(Octet)
  PROVE  \E h : /\ Loop(h, Fresh(d), FeedSteps(octets), Len(octets), Feeding)
                /\ Feed(d, octets) = h[Len(octets)]
<1> DEFINE len == Len(octets)
           step == FeedSteps(octets)
           base == [decoder |-> d, frames |-> <<>>]
           Solves(w) ==
             w = [s \in SUBSET DOMAIN octets |->
                    IF s = {} THEN base
                    ELSE [f \in Feeding |-> FeedOne(f, octets[Max(s)])][w[s \ {Max(s)}]]]
           w == CHOOSE w : Solves(w)
<1>1. len \in Nat /\ DOMAIN octets = 1..len /\ \A i \in 1..len : octets[i] \in Octet
  BY SeqElements
<1>2. base \in Feeding /\ base = Fresh(d)
  <2>1. <<>> \in Seq(Frame) BY EmptySeq
  <2> QED BY <2>1 DEF Feeding, Fresh
<1>3. step \in [1..len -> [Feeding -> Feeding]] BY <1>1, FeedOneType DEF FeedSteps
<1>4. Feed(d, octets) = w[DOMAIN octets] BY Zenon DEF Feed, FoldLeft, MapThenFoldSet
<1> HIDE DEF base
<1>5. ASSUME NEW s \in SUBSET (1..len), s # {}
      PROVE  step[Max(s)] = [f \in Feeding |-> FeedOne(f, octets[Max(s)])]
  <2>1. Max(s) \in 1..len BY <1>1, <1>5, MaxIs
  <2> QED BY <2>1 DEF FeedSteps
<1>6. PICK g : FoldSolves(g, base, step, len, Feeding)
  BY <1>1, <1>2, <1>3, FoldExists
<1> HIDE DEF step
<1>7. \E g1 : Solves(g1)
  <2>1. ASSUME NEW s \in SUBSET (1..len), s # {}
        PROVE  g[s] = [f \in Feeding |-> FeedOne(f, octets[Max(s)])][g[s \ {Max(s)}]]
    <3>1. g[s] = step[Max(s)][g[s \ {Max(s)}]] BY <1>6, <2>1 DEF FoldSolves
    <3> QED BY <1>5, <2>1, <3>1
  <2>2. g \in [SUBSET (1..len) -> Feeding] /\ g[{}] = base BY <1>6 DEF FoldSolves
  <2>3. Solves(g) BY <1>1, <2>1, <2>2
  <2> QED BY <2>3
<1>8. Solves(w) BY <1>7, Zenon
<1> HIDE DEF w
<1>9. FoldEquation(w, base, step, len, Feeding)
  <2>1. w[{}] = base /\ w = [s \in SUBSET (1..len) |-> w[s]] BY <1>1, <1>8
  <2>2. \A s \in (SUBSET (1..len)) \ {{}} :
          w[s] = [f \in Feeding |-> FeedOne(f, octets[Max(s)])][w[s \ {Max(s)}]]
    BY <1>1, <1>8
  <2>3. \A s \in (SUBSET (1..len)) \ {{}} : w[s] = step[Max(s)][w[s \ {Max(s)}]]
    BY <1>5, <2>2
  <2> QED BY <2>1, <2>3, Zenon DEF FoldEquation
<1>10. \E h : Loop(h, base, step, len, Feeding) /\ h[len] = w[1..len]
  BY <1>1, <1>2, <1>3, <1>9, FoldRuns
<1> QED BY <1>1, <1>2, <1>4, <1>10 DEF step

(* ... that starts with no frames, and takes one octet more at its end.    *)
LEMMA FeedNone ==
  ASSUME NEW d \in Decoder
  PROVE  Feed(d, <<>>) = Fresh(d)
<1>1. <<>> \in Seq(Octet) /\ Len(<<>>) = 0 BY EmptySeq
<1>2. PICK h : /\ Loop(h, Fresh(d), FeedSteps(<<>>), Len(<<>>), Feeding)
               /\ Feed(d, <<>>) = h[Len(<<>>)]
  BY <1>1, FeedRuns
<1> QED BY <1>1, <1>2 DEF Loop

(* One octet more is one more turn of the loop in feed().                  *)
LEMMA FeedNext ==
  ASSUME NEW d \in Decoder, NEW octets \in Seq(Octet), NEW b \in Octet
  PROVE  /\ Feed(d, octets) \in Feeding
         /\ Feed(d, Append(octets, b)) = FeedOne(Feed(d, octets), b)
<1> DEFINE len  == Len(octets)
           more == Append(octets, b)
           base == Fresh(d)
<1>1. /\ more \in Seq(Octet) /\ len \in Nat /\ Len(more) = len + 1
      /\ \A i \in 1..len : more[i] = octets[i]
      /\ more[len + 1] = b
  BY AppendElements
<1>2. PICK h : Loop(h, base, FeedSteps(octets), len, Feeding) /\ Feed(d, octets) = h[len]
  BY FeedRuns
<1> HIDE DEF more
<1>3. PICK g : Loop(g, base, FeedSteps(more), len + 1, Feeding) /\ Feed(d, more) = g[len + 1]
  BY <1>1, FeedRuns
<1>4. ASSUME NEW i \in 1..len PROVE FeedSteps(octets)[i] = FeedSteps(more)[i]
  BY <1>1 DEF FeedSteps
<1> HIDE DEF len, base
<1>5. h[len] \in Feeding /\ g[len + 1] = FeedSteps(more)[len + 1][h[len]]
  BY <1>1, <1>2, <1>3, <1>4, LoopNext
<1>6. FeedSteps(more)[len + 1] = [f \in Feeding |-> FeedOne(f, b)]
  <2>1. len + 1 \in 1..Len(more) BY <1>1
  <2> QED BY <1>1, <2>1 DEF FeedSteps
<1> QED BY <1>2, <1>3, <1>5, <1>6 DEF more

-----------------------------------------------------------------------------
(* The octets between the flags.                                           *)
Stuffed(p) == FlattenSeq([i \in DOMAIN p |-> Stuff(p[i])])

(* One octet stuffed holds no flag and no control octet.                   *)
LEMMA StuffFacts ==
  ASSUME NEW b \in Octet
  PROVE  /\ Stuff(b) \in Seq(Octet)
         /\ \A i \in 1..Len(Stuff(b)) : Stuff(b)[i] # FLAG /\ Stuff(b)[i] >= 32
<1>1. ESC \in Octet /\ ESC # FLAG /\ ESC >= 32 BY DEF ESC, FLAG, Octet
<1>2. CASE MustEscape(b)
  <2> DEFINE c == Toggle(b)
  <2>1. c \in Octet /\ c # FLAG /\ c >= 32 BY <1>2, ToggleFacts
  <2>2. Stuff(b) = <<ESC, c>> BY <1>2 DEF Stuff
  <2> HIDE DEF c
  <2>3. <<ESC, c>> \in Seq(Octet) /\ Len(<<ESC, c>>) = 2 BY <1>1, <2>1, PairIsConcat
  <2>4. <<ESC, c>>[1] = ESC /\ <<ESC, c>>[2] = c OBVIOUS
  <2> QED BY <1>1, <2>1, <2>2, <2>3, <2>4
<1>3. CASE ~MustEscape(b)
  <2>1. b # FLAG /\ b >= 32 BY <1>3 DEF MustEscape, Octet
  <2>2. Stuff(b) = <<b>> BY <1>3 DEF Stuff
  <2>3. <<b>> \in Seq(Octet) /\ Len(<<b>>) = 1 /\ <<b>>[1] = b BY PairIsConcat
  <2> QED BY <2>1, <2>2, <2>3
<1> QED BY <1>2, <1>3

(* Nothing stuffed is nothing.                                             *)
LEMMA StuffedNone == Stuffed(<<>>) = <<>>
<1>1. <<>> \in Seq(Octet) /\ Len(<<>>) = 0 BY EmptySeq
<1>2. DOMAIN <<>> = {} BY <1>1, LenProperties
<1> DEFINE t == [i \in DOMAIN <<>> |-> Stuff(<<>>[i])]
<1>3. t \in [1..0 -> Seq(Octet)] BY <1>2
<1>4. 0 \in Nat OBVIOUS
<1>5. Stuffed(<<>>) = FlattenSeq(t) BY DEF Stuffed
<1> HIDE DEF t
<1>6. t \in Seq(Seq(Octet)) /\ Len(t) = 0 BY <1>3, <1>4, FunctionIsSeq
<1>7. t = <<>> BY <1>6, EmptySeq
<1> QED BY <1>5, <1>7, FlattenNone

(* One octet more is stuffed at the end.                                   *)
LEMMA StuffedNext ==
  ASSUME NEW p \in Seq(Octet), NEW b \in Octet
  PROVE  /\ Stuffed(p) \in Seq(Octet)
         /\ Stuffed(Append(p, b)) = Stuffed(p) \o Stuff(b)
<1> DEFINE more == Append(p, b)
           ss(q) == [i \in DOMAIN q |-> Stuff(q[i])]
           A == Seq(Octet)
<1>1. /\ more \in Seq(Octet) /\ Len(p) \in Nat /\ Len(more) = Len(p) + 1
      /\ DOMAIN p = 1..Len(p) /\ DOMAIN more = 1..(Len(p) + 1)
      /\ \A i \in 1..Len(p) : more[i] = p[i]
      /\ more[Len(p) + 1] = b
  BY AppendElements
<1>2. \A i \in 1..Len(p) : p[i] \in Octet BY SeqElements
<1> HIDE DEF more
<1>3. ss(p) \in Seq(A) /\ Len(ss(p)) = Len(p)
  <2>1. ss(p) \in [1..Len(p) -> A] BY <1>1, <1>2, StuffFacts
  <2> HIDE DEF ss, A
  <2> QED BY <1>1, <2>1, FunctionIsSeq
<1>4. ss(more) \in Seq(A) /\ Len(ss(more)) = Len(p) + 1
  <2>1. \A i \in 1..(Len(p) + 1) : more[i] \in Octet BY <1>1, <1>2
  <2>2. ss(more) \in [1..(Len(p) + 1) -> A] BY <1>1, <2>1, StuffFacts
  <2>3. Len(p) + 1 \in Nat BY <1>1
  <2> HIDE DEF ss, A
  <2> QED BY <2>2, <2>3, FunctionIsSeq
<1>5. Stuff(b) \in A BY StuffFacts
<1>6. ss(more) = Append(ss(p), Stuff(b))
  <2> DEFINE r == Append(ss(p), Stuff(b))
             n == Len(p)
  <2>1. \A i \in 1..n : ss(p)[i] = Stuff(p[i]) BY <1>1
  <2>2. \A i \in 1..(n + 1) : ss(more)[i] = Stuff(more[i]) BY <1>1
  <2> HIDE DEF ss, A
  <2>3. /\ r \in Seq(A) /\ Len(r) = n + 1 /\ r[n + 1] = Stuff(b)
        /\ \A i \in 1..n : r[i] = ss(p)[i]
    <3>1. DOMAIN ss(p) = 1..n BY <1>3, SeqElements
    <3> QED BY <1>3, <1>5, <3>1, AppendElements
  <2> HIDE DEF r
  <2>4. ASSUME NEW i \in 1..(n + 1) PROVE ss(more)[i] = r[i]
    <3>1. CASE i \in 1..n BY <1>1, <2>1, <2>2, <2>3, <3>1
    <3>2. CASE i = n + 1 BY <1>1, <2>2, <2>3, <3>2
    <3>3. i \in 1..n \/ i = n + 1 BY <1>1
    <3> QED BY <3>1, <3>2, <3>3
  <2>5. ss(more) = r BY <1>4, <2>3, <2>4, SeqEqual
  <2> QED BY <2>5 DEF r
<1>7. Stuffed(p) = FlattenSeq(ss(p)) /\ Stuffed(more) = FlattenSeq(ss(more)) BY DEF Stuffed
<1>8. FlattenSeq(ss(p)) \in Seq(Octet)
      /\ FlattenSeq(Append(ss(p), Stuff(b))) = FlattenSeq(ss(p)) \o Stuff(b)
  <2> HIDE DEF ss
  <2> QED BY <1>3, <1>5, FlattenNext DEF A
<1> HIDE DEF ss
<1> QED BY <1>6, <1>7, <1>8 DEF more

(* None of them is a flag or a control octet.                              *)
LEMMA StuffedTransparent ==
  ASSUME NEW p \in Seq(Octet)
  PROVE  /\ Stuffed(p) \in Seq(Octet)
         /\ \A i \in 1..Len(Stuffed(p)) : Stuffed(p)[i] # FLAG /\ Stuffed(p)[i] >= 32
<1> DEFINE Fine(q) == /\ Stuffed(q) \in Seq(Octet)
                      /\ \A i \in 1..Len(Stuffed(q)) :
                           Stuffed(q)[i] # FLAG /\ Stuffed(q)[i] >= 32
           T == {q \in Seq(Octet) : Fine(q)}
<1>1. Fine(<<>>)
  <2>1. <<>> \in Seq(Octet) /\ Len(<<>>) = 0 BY EmptySeq
  <2>2. \A i \in 1..0 : FALSE OBVIOUS
  <2> QED BY <2>1, <2>2, StuffedNone
<1>2. ASSUME NEW q \in Seq(Octet), NEW b \in Octet, Fine(q) PROVE Fine(Append(q, b))
  <2> DEFINE s == Stuffed(q)
             t == Stuff(b)
  <2>1. /\ s \in Seq(Octet) /\ Len(s) \in Nat
        /\ \A i \in 1..Len(s) : s[i] # FLAG /\ s[i] >= 32
    BY <1>2, LenProperties
  <2>2. /\ t \in Seq(Octet) /\ Len(t) \in Nat
        /\ \A i \in 1..Len(t) : t[i] # FLAG /\ t[i] >= 32
    BY StuffFacts, LenProperties
  <2>3. Stuffed(Append(q, b)) = s \o t BY StuffedNext
  <2> HIDE DEF s, t
  <2>4. /\ s \o t \in Seq(Octet) /\ Len(s \o t) = Len(s) + Len(t)
        /\ \A i \in 1..(Len(s) + Len(t)) :
             (s \o t)[i] = IF i <= Len(s) THEN s[i] ELSE t[i - Len(s)]
    BY <2>1, <2>2, ConcatProperties
  <2>5. ASSUME NEW i \in 1..Len(s \o t) PROVE (s \o t)[i] # FLAG /\ (s \o t)[i] >= 32
    <3>1. CASE i <= Len(s) BY <2>1, <2>2, <2>4, <3>1
    <3>2. CASE ~(i <= Len(s))
      <4>1. i - Len(s) \in 1..Len(t) BY <2>1, <2>2, <2>4, <3>2
      <4> QED BY <2>1, <2>2, <2>4, <3>2, <4>1
    <3> QED BY <3>1, <3>2
  <2> QED BY <2>3, <2>4, <2>5
<1> HIDE DEF Fine
<1>3. \A q \in Seq(Octet) : q \in T
  <2>1. <<>> \in T BY <1>1, EmptySeq
  <2>2. \A q \in Seq(Octet) : \A b \in Octet : q \in T => Append(q, b) \in T
    BY <1>2, AppendElements
  <2> HIDE DEF T
  <2> QED BY <2>1, <2>2, SeqInduction
<1> QED BY <1>3 DEF T, Fine

(* Fed to a decoder after a flag they come out as they were.               *)
Opened(d) == Feed(d, <<FLAG>>)

InFrame(buf) == [buf |-> buf, in_frame |-> TRUE, esc |-> FALSE]

(* The image of an octet, fed inside a frame, adds that octet to the       *)
(* buffer and yields no frame.                                             *)
LEMMA OctetStuffedIn ==
  ASSUME NEW d \in Decoder, NEW octets \in Seq(Octet), NEW q \in Seq(Octet), NEW b \in Octet,
         Feed(d, octets).decoder = InFrame(q)
  PROVE  /\ octets \o Stuff(b) \in Seq(Octet)
         /\ Feed(d, octets \o Stuff(b)).decoder = InFrame(Append(q, b))
         /\ Feed(d, octets \o Stuff(b)).frames = Feed(d, octets).frames
<1> DEFINE f == Feed(d, octets)
<1>1. f \in Feeding /\ f.decoder = InFrame(q) /\ f.frames \in Seq(Frame)
      /\ f.decoder.in_frame /\ f.decoder.buf = q /\ ~f.decoder.esc
  <2>1. f \in Feeding BY FeedNext
  <2>2. f.frames \in Seq(Frame) BY <2>1 DEF Feeding
  <2> QED BY <2>1, <2>2 DEF InFrame
<1> HIDE DEF f
<1>2. CASE ~MustEscape(b)
  <2>1. b \notin {FLAG, ESC} BY <1>2 DEF MustEscape
  <2>2. octets \o Stuff(b) = Append(octets, b) /\ Append(octets, b) \in Seq(Octet)
    BY <1>2, AppendIsConcat, AppendElements DEF Stuff
  <2>3. Feed(d, Append(octets, b)) = FeedOne(f, b) BY FeedNext DEF f
  <2>4. DecoderAfter(f.decoder, b) = InFrame(Append(q, b)) /\ FramesAfter(f.decoder, b) = <<>>
    BY <1>1, <2>1 DEF DecoderAfter, FramesAfter, InFrame
  <2>5. f.frames \o <<>> = f.frames BY <1>1, ConcatEmptySeq
  <2>6. FeedOne(f, b) = [decoder |-> InFrame(Append(q, b)), frames |-> f.frames]
    BY <2>4, <2>5 DEF FeedOne
  <2> QED BY <2>2, <2>3, <2>6 DEF f
<1>3. CASE MustEscape(b)
  <2> DEFINE c == Toggle(b)
             one == Append(octets, ESC)
             g == [decoder |-> [buf |-> q, in_frame |-> TRUE, esc |-> TRUE],
                   frames |-> f.frames]
  <2>1. ESC \in Octet /\ ESC # FLAG BY DEF ESC, FLAG, Octet
  <2>2. c \in Octet /\ c \notin {FLAG, ESC} /\ Toggle(c) = b BY <1>3, ToggleFacts
  <2>3. Stuff(b) = <<ESC, c>> BY <1>3 DEF Stuff
  <2> HIDE DEF c
  <2>4. one \in Seq(Octet) /\ octets \o <<ESC, c>> = Append(one, c) BY <2>1, <2>2, AppendTwice
  <2> HIDE DEF one
  <2>5. Append(one, c) \in Seq(Octet) BY <2>2, <2>4, AppendElements
  <2>6. f.frames \o <<>> = f.frames BY <1>1, ConcatEmptySeq
  <2>7. Feed(d, one) = g
    <3>1. Feed(d, one) = FeedOne(f, ESC) BY <2>1, FeedNext DEF f, one
    <3>2. FramesAfter(f.decoder, ESC) = <<>> BY <2>1 DEF FramesAfter
    <3>3. DecoderAfter(f.decoder, ESC) = [buf |-> q, in_frame |-> TRUE, esc |-> TRUE]
      BY <1>1, <2>1 DEF DecoderAfter, InFrame
    <3> QED BY <2>6, <3>1, <3>2, <3>3 DEF FeedOne
  <2>8. Feed(d, Append(one, c)) = FeedOne(g, c)
    <3>1. Feed(d, Append(one, c)) = FeedOne(Feed(d, one), c) BY <2>2, <2>4, FeedNext
    <3> QED BY <2>7, <3>1
  <2>9. FeedOne(g, c) = [decoder |-> InFrame(Append(q, b)), frames |-> f.frames]
    <3>1. FramesAfter(g.decoder, c) = <<>> BY <2>2 DEF FramesAfter
    <3>2. DecoderAfter(g.decoder, c) = InFrame(Append(q, b))
      BY <2>2 DEF DecoderAfter, InFrame
    <3> QED BY <2>6, <3>1, <3>2 DEF FeedOne
  <2> HIDE DEF g
  <2>10. octets \o Stuff(b) = Append(one, c) BY <2>3, <2>4
  <2>11. Feed(d, octets \o Stuff(b)) = [decoder |-> InFrame(Append(q, b)), frames |-> f.frames]
    BY <2>8, <2>9, <2>10
  <2> QED BY <2>5, <2>10, <2>11 DEF f
<1> QED BY <1>2, <1>3

(* A flag opens a frame, after the one it may close.                       *)
LEMMA FlagOpens ==
  ASSUME NEW d \in Decoder
  PROVE  /\ <<FLAG>> \in Seq(Octet) /\ Len(<<FLAG>>) = 1 /\ FLAG \in Octet
         /\ Opened(d).decoder = InFrame(<<>>)
         /\ Opened(d).frames \in Seq(Frame) /\ Len(Opened(d).frames) <= 1
<1>1. FLAG \in Octet BY DEF FLAG, Octet
<1>2. <<>> \in Seq(Octet) /\ <<FLAG>> \in Seq(Octet) /\ Len(<<FLAG>>) = 1
  BY <1>1, EmptySeq, PairIsConcat
<1>3. Append(<<>>, FLAG) = <<FLAG>>
  <2>1. Append(<<>>, FLAG) = <<>> \o <<FLAG>> BY <1>1, <1>2, AppendIsConcat
  <2> QED BY <1>2, <2>1, ConcatEmptySeq
<1>4. Opened(d) = FeedOne(Fresh(d), FLAG) BY <1>1, <1>2, <1>3, FeedNext, FeedNone DEF Opened
<1>5. FramesAfter(d, FLAG) \in Seq(Frame) /\ Len(FramesAfter(d, FLAG)) <= 1
  BY <1>1, DecoderFacts
<1>6. <<>> \o FramesAfter(d, FLAG) = FramesAfter(d, FLAG) BY <1>5, ConcatEmptySeq
<1>7. DecoderAfter(d, FLAG) = InFrame(<<>>) BY DEF DecoderAfter, InFrame, FLAG, ESC
<1>8. Opened(d) = [decoder |-> InFrame(<<>>), frames |-> FramesAfter(d, FLAG)]
  BY <1>4, <1>6, <1>7 DEF FeedOne, Fresh
<1> QED BY <1>1, <1>2, <1>5, <1>8

(* A flag and stuffed octets put those octets into the buffer, from any    *)
(* state of the decoder.                                                   *)
LEMMA StuffedIn ==
  ASSUME NEW d \in Decoder, NEW p \in Seq(Octet)
  PROVE  /\ <<FLAG>> \o Stuffed(p) \in Seq(Octet)
         /\ Feed(d, <<FLAG>> \o Stuffed(p)).decoder = InFrame(p)
         /\ Feed(d, <<FLAG>> \o Stuffed(p)).frames = Opened(d).frames
<1> DEFINE Fed(q) == <<FLAG>> \o Stuffed(q)
           Fine(q) == /\ Fed(q) \in Seq(Octet)
                      /\ Feed(d, Fed(q)).decoder = InFrame(q)
                      /\ Feed(d, Fed(q)).frames = Opened(d).frames
           T == {q \in Seq(Octet) : Fine(q)}
<1>1. <<>> \in Seq(Octet) /\ Fine(<<>>)
  <2>1. Fed(<<>>) = <<FLAG>> BY FlagOpens, StuffedNone, ConcatEmptySeq
  <2>2. <<>> \in Seq(Octet) BY EmptySeq
  <2> HIDE DEF Fed
  <2> QED BY <2>1, <2>2, FlagOpens DEF Opened
<1>2. ASSUME NEW q \in Seq(Octet), NEW b \in Octet, Fine(q) PROVE Fine(Append(q, b))
  <2>1. Fed(Append(q, b)) = Fed(q) \o Stuff(b)
    <3>1. /\ Stuffed(Append(q, b)) = Stuffed(q) \o Stuff(b)
          /\ Stuffed(q) \in Seq(Octet) /\ Stuff(b) \in Seq(Octet)
      BY StuffedNext, StuffFacts
    <3>2. <<FLAG>> \in Seq(Octet) BY FlagOpens
    <3> QED BY <3>1, <3>2, ConcatAssociative
  <2>2. Fed(q) \in Seq(Octet) /\ Feed(d, Fed(q)).decoder = InFrame(q)
        /\ Feed(d, Fed(q)).frames = Opened(d).frames
    BY <1>2
  <2> HIDE DEF Fed
  <2> QED BY <2>1, <2>2, OctetStuffedIn
<1> HIDE DEF Fine
<1>3. \A q \in Seq(Octet) : q \in T
  <2>1. <<>> \in T BY <1>1
  <2>2. \A q \in Seq(Octet) : \A b \in Octet : q \in T => Append(q, b) \in T
    BY <1>2, AppendElements
  <2> HIDE DEF T
  <2> QED BY <2>1, <2>2, SeqInduction
<1> QED BY <1>3 DEF T, Fine

-----------------------------------------------------------------------------
(* A whole frame: the address and control fields, INFO and the FCS.        *)
LEMMA PayloadFacts ==
  ASSUME NEW field \in Seq(Octet)
  PROVE  /\ Payload(field) \in Seq(Octet)
         /\ Finish(Payload(field)) =
              <<[address |-> DEFAULT_ADDRESS, control |-> DEFAULT_CONTROL,
                 info |-> field, fcs_ok |-> TRUE]>>
<1> DEFINE two == <<DEFAULT_ADDRESS, DEFAULT_CONTROL>>
           covered == two \o field
           fcs == FrameFcs(covered)
           p == covered \o fcs
           n == Len(field)
<1>1. two \in Seq(Octet) /\ Len(two) = 2 /\ two[1] = DEFAULT_ADDRESS /\ two[2] = DEFAULT_CONTROL
  <2>1. DEFAULT_ADDRESS \in Octet /\ DEFAULT_CONTROL \in Octet
    BY DEF DEFAULT_ADDRESS, DEFAULT_CONTROL, Octet
  <2> QED BY <2>1, PairIsConcat
<1>2. n \in Nat BY LenProperties
<1> HIDE DEF two
<1>3. /\ covered \in Seq(Octet) /\ Len(covered) = 2 + n
      /\ \A i \in 1..(2 + n) : covered[i] = IF i <= 2 THEN two[i] ELSE field[i - 2]
  <2>1. /\ covered \in Seq(Octet) /\ Len(covered) = Len(two) + Len(field)
        /\ \A i \in 1..(Len(two) + Len(field)) :
             covered[i] = IF i <= Len(two) THEN two[i] ELSE field[i - Len(two)]
    BY <1>1, ConcatProperties
  <2> HIDE DEF covered
  <2> QED BY <1>1, <1>2, <2>1
<1>4. Payload(field) = p BY DEF Payload, two
<1> HIDE DEF covered
<1>5. /\ fcs \in Seq(Octet) /\ Len(fcs) = 2 /\ p \in Seq(Octet) /\ CheckFcs(p)
  BY <1>3, FrameChecks
<1> HIDE DEF fcs
<1>6. /\ Len(p) = n + 4
      /\ \A i \in 1..(n + 4) : p[i] = IF i <= 2 + n THEN covered[i] ELSE fcs[i - (2 + n)]
  <2>1. Len(p) = Len(covered) + Len(fcs)
        /\ \A i \in 1..(Len(covered) + Len(fcs)) :
             p[i] = IF i <= Len(covered) THEN covered[i] ELSE fcs[i - Len(covered)]
    BY <1>3, <1>5, ConcatProperties
  <2> QED BY <1>2, <1>3, <1>5, <2>1
<1> HIDE DEF p, n
<1>7. p[1] = DEFAULT_ADDRESS /\ p[2] = DEFAULT_CONTROL
  <2>1. 1 \in 1..(n + 4) /\ 2 \in 1..(n + 4) /\ 1 \in 1..(2 + n) /\ 2 \in 1..(2 + n)
        /\ 1 <= 2 + n /\ 2 <= 2 + n
    BY <1>2
  <2>2. covered[1] = two[1] /\ covered[2] = two[2] BY <1>3, <2>1
  <2> QED BY <1>1, <1>6, <2>1, <2>2
<1>8. SubSeq(p, 3, Len(p) - 2) = field
  <2> DEFINE s == SubSeq(p, 3, n + 2)
  <2>1. \A i \in 1..(n + 4) : p[i] \in Octet BY <1>5, <1>6, ElementOfSeq
  <2>2. s \in Seq(Octet) /\ Len(s) = n /\ \A i \in 1..n : s[i] = p[i + 2]
    <3> DEFINE m == n + 2
    <3>1. m \in Int /\ m = n + 2 /\ 3 \in Int BY <1>2
    <3>2. \A i \in 3..m : p[i] \in Octet BY <1>2, <2>1
    <3> HIDE DEF m
    <3>3. /\ SubSeq(p, 3, m) \in Seq(Octet)
          /\ Len(SubSeq(p, 3, m)) = IF 3 <= m THEN m - 3 + 1 ELSE 0
          /\ \A i \in 1..(m - 3 + 1) : SubSeq(p, 3, m)[i] = p[3 + i - 1]
      BY <3>1, <3>2, SubSeqProperties
    <3>4. m - 3 + 1 = n BY <1>2, <3>1
    <3>5. \A i \in 1..n : 3 + i - 1 = i + 2 BY <1>2
    <3>6. Len(SubSeq(p, 3, m)) = n BY <1>2, <3>1, <3>3
    <3> QED BY <3>3, <3>4, <3>5, <3>6 DEF m
  <2> HIDE DEF s
  <2>3. ASSUME NEW i \in 1..n PROVE s[i] = field[i]
    <3>1. i + 2 \in 1..(n + 4) /\ i + 2 \in 1..(2 + n) /\ i + 2 <= 2 + n /\ ~(i + 2 <= 2)
          /\ (i + 2) - 2 = i
      BY <1>2
    <3>2. s[i] = p[i + 2] /\ p[i + 2] = covered[i + 2] BY <1>6, <2>2, <3>1
    <3>3. covered[i + 2] = field[i] BY <1>3, <3>1
    <3> QED BY <3>2, <3>3
  <2>4. s = field BY <2>2, <2>3, SeqEqual DEF n
  <2>5. Len(p) - 2 = n + 2 BY <1>2, <1>6
  <2> QED BY <2>4, <2>5 DEF s
<1>9. ~(Len(p) < MIN_LEN) BY <1>2, <1>6 DEF MIN_LEN
<1>10. Finish(p) = <<FrameOf(p)>> BY <1>9 DEF Finish
<1>11. FrameOf(p) = [address |-> DEFAULT_ADDRESS, control |-> DEFAULT_CONTROL,
                     info |-> field, fcs_ok |-> TRUE]
  BY <1>5, <1>7, <1>8 DEF FrameOf
<1> QED BY <1>4, <1>5, <1>10, <1>11

(* What encode() puts on the wire, and what any decoder makes of it.       *)
LEMMA EncodeFacts ==
  ASSUME NEW field \in Seq(Octet)
  PROVE  /\ <<FLAG>> \o Stuffed(Payload(field)) \in Seq(Octet)
         /\ Encode(field) = Append(<<FLAG>> \o Stuffed(Payload(field)), FLAG)
<1>1. <<FLAG>> \in Seq(Octet) /\ FLAG \in Octet BY DEF FLAG, Octet
<1>2. Stuffed(Payload(field)) \in Seq(Octet) BY PayloadFacts, StuffedTransparent
<1>3. <<FLAG>> \o Stuffed(Payload(field)) \in Seq(Octet) BY <1>1, <1>2, ConcatProperties
<1>4. Encode(field) = (<<FLAG>> \o Stuffed(Payload(field))) \o <<FLAG>>
  BY DEF Encode, Stuffed
<1> QED BY <1>1, <1>3, <1>4, AppendIsConcat

(* The frame a receiver should make of an INFO field.                      *)
GoodFrame(field) == [address |-> DEFAULT_ADDRESS, control |-> DEFAULT_CONTROL,
                     info |-> field, fcs_ok |-> TRUE]

(* A whole frame fed in any state: its own frame comes out last, after the *)
(* one its opening flag may close, and the decoder is ready.               *)
LEMMA Comes ==
  ASSUME NEW d \in Decoder, NEW field \in Seq(Octet)
  PROVE  /\ Encode(field) \in Seq(Octet) /\ GoodFrame(field) \in Frame
         /\ Feed(d, Encode(field)) =
              [decoder |-> InFrame(<<>>), frames |-> Append(Opened(d).frames, GoodFrame(field))]
         /\ Opened(d).frames \in Seq(Frame) /\ Len(Opened(d).frames) <= 1
<1> DEFINE p == Payload(field)
           head == <<FLAG>> \o Stuffed(p)
           f == Feed(d, head)
           frame == GoodFrame(field)
           before == Opened(d).frames
<1>1. p \in Seq(Octet) /\ Finish(p) = <<frame>> BY PayloadFacts DEF GoodFrame
<1>2. head \in Seq(Octet) /\ Encode(field) = Append(head, FLAG) BY EncodeFacts
<1>3. /\ f.decoder = InFrame(p) /\ f.frames = before
  <2> HIDE DEF p
  <2> QED BY <1>1, StuffedIn
<1>4. before \in Seq(Frame) /\ Len(before) <= 1 /\ FLAG \in Octet BY FlagOpens
<1>5. frame \in Frame
  BY DEF GoodFrame, Frame, DEFAULT_ADDRESS, DEFAULT_CONTROL, Octet
<1> HIDE DEF head, p, before, frame
<1>6. Feed(d, Encode(field)) = FeedOne(f, FLAG) BY <1>2, <1>4, FeedNext
<1> HIDE DEF f
<1>7. FramesAfter(f.decoder, FLAG) = <<frame>> BY <1>1, <1>3 DEF FramesAfter, InFrame
<1>8. DecoderAfter(f.decoder, FLAG) = InFrame(<<>>)
  BY DEF DecoderAfter, InFrame, FLAG, ESC
<1>9. before \o <<frame>> = Append(before, frame) BY <1>4, <1>5, AppendIsConcat
<1>10. FeedOne(f, FLAG) = [decoder |-> InFrame(<<>>), frames |-> Append(before, frame)]
  BY <1>3, <1>7, <1>8, <1>9 DEF FeedOne
<1>11. Encode(field) \in Seq(Octet) BY <1>2, <1>4, AppendElements
<1> QED BY <1>4, <1>5, <1>6, <1>10, <1>11 DEF frame, before

(* The same in the form of SelfHeals.                                      *)
LEMMA Heals ==
  ASSUME NEW d \in Decoder, NEW field \in Seq(Octet)
  PROVE  LET fed == Feed(d, Encode(field))
         IN  /\ Len(fed.frames) \in 1..2
             /\ fed.frames[Len(fed.frames)] =
                  [address |-> DEFAULT_ADDRESS, control |-> DEFAULT_CONTROL,
                   info |-> field, fcs_ok |-> TRUE]
             /\ fed.decoder = InFrame(<<>>)
<1> DEFINE frame == GoodFrame(field)
           before == Opened(d).frames
<1>1. /\ frame \in Frame /\ before \in Seq(Frame) /\ Len(before) <= 1
      /\ Feed(d, Encode(field)) = [decoder |-> InFrame(<<>>), frames |-> Append(before, frame)]
  BY Comes
<1> HIDE DEF before, frame
<1>2. /\ Len(before) \in Nat /\ Len(Append(before, frame)) = Len(before) + 1
      /\ Append(before, frame)[Len(before) + 1] = frame
  BY <1>1, AppendElements
<1>3. Len(Append(before, frame)) \in 1..2 BY <1>1, <1>2
<1> QED BY <1>1, <1>2, <1>3 DEF frame, GoodFrame

-----------------------------------------------------------------------------
(* The codec.                                                              *)
LEMMA U16Splits ==
  ASSUME NEW a \in Octet, NEW b \in Octet
  PROVE  PutU16(a * 256 + b) = <<a, b>>
<1>1. a \in 0..255 /\ b \in 0..255 BY DEF Octet
<1>2. (a * 256 + b) \div 256 = a /\ (a * 256 + b) % 256 = b BY <1>1
<1> QED BY <1>2 DEF PutU16

(* The two octets at i, read as a number and written back.                 *)
LEMMA U16At ==
  ASSUME NEW p \in Seq(Octet), NEW i \in 1..Len(p), i + 1 \in 1..Len(p)
  PROVE  /\ PutU16(GetU16(p, i)) \in Seq(Octet)
         /\ Len(PutU16(GetU16(p, i))) = 2
         /\ PutU16(GetU16(p, i)) = <<p[i], p[i + 1]>>
<1>1. p[i] \in Octet /\ p[i + 1] \in Octet BY ElementOfSeq
<1>2. PutU16(GetU16(p, i)) = <<p[i], p[i + 1]>> BY <1>1, U16Splits DEF GetU16
<1> QED BY <1>1, <1>2, PairIsConcat

(* The values of a ReadResponse, one after the other.                      *)
Values(p, k) == [i \in 1..k |-> PutU16(GetU16(p, 2 * i + 1))]

(* The values of a ReadResponse, read and written back.                    *)
LEMMA ValuesFlat ==
  ASSUME NEW p \in Seq(Octet), NEW k \in Nat, Len(p) = 2 * k + 2
  PROVE  /\ FlattenSeq(Values(p, k)) \in Seq(Octet)
         /\ Len(FlattenSeq(Values(p, k))) = 2 * k
         /\ \A i \in 1..(2 * k) : FlattenSeq(Values(p, k))[i] = p[i + 2]
<1> DEFINE F(j) == FlattenSeq(Values(p, j))
           Fine(j) == j <= k =>
                        /\ F(j) \in Seq(Octet) /\ Len(F(j)) = 2 * j
                        /\ \A i \in 1..(2 * j) : F(j)[i] = p[i + 2]
           T == {j \in Nat : Fine(j)}
           A == Seq(Octet)
<1>1. ASSUME NEW j \in Nat, j <= k
      PROVE  Values(p, j) \in Seq(A) /\ Len(Values(p, j)) = j
             /\ \A i \in 1..j : Values(p, j)[i] = PutU16(GetU16(p, 2 * i + 1))
  <2>1. ASSUME NEW i \in 1..j PROVE PutU16(GetU16(p, 2 * i + 1)) \in A
    <3> DEFINE x == 2 * i + 1
    <3>1. x \in 1..Len(p) /\ x + 1 \in 1..Len(p) BY <1>1
    <3> HIDE DEF x
    <3>2. PutU16(GetU16(p, x)) \in A BY <3>1, U16At
    <3> QED BY <3>2 DEF x
  <2>2. Values(p, j) \in [1..j -> A] BY <2>1 DEF Values
  <2>3. \A i \in 1..j : Values(p, j)[i] = PutU16(GetU16(p, 2 * i + 1)) BY DEF Values
  <2> HIDE DEF A
  <2>4. Values(p, j) \in Seq(A) /\ Len(Values(p, j)) = j BY <2>2, FunctionIsSeq
  <2> QED BY <2>3, <2>4
<1>2. Fine(0)
  <2>1. Values(p, 0) = <<>>
    <3>1. 0 \in Nat /\ 0 <= k OBVIOUS
    <3>2. Values(p, 0) \in Seq(A) /\ Len(Values(p, 0)) = 0 BY <1>1, <3>1
    <3> HIDE DEF A
    <3> QED BY <3>2, EmptySeq
  <2>2. F(0) = <<>> BY <2>1, FlattenNone
  <2>3. <<>> \in Seq(Octet) /\ Len(<<>>) = 0 BY EmptySeq
  <2>4. 2 * 0 = 0 /\ \A i \in 1..(2 * 0) : FALSE OBVIOUS
  <2>5. F(0) \in Seq(Octet) /\ Len(F(0)) = 2 * 0 /\ \A i \in 1..(2 * 0) : F(0)[i] = p[i + 2]
    <3> HIDE DEF F
    <3> QED BY <2>2, <2>3, <2>4
  <2> QED BY <2>5
<1>3. ASSUME NEW j \in Nat, Fine(j) PROVE Fine(j + 1)
  <2> SUFFICES ASSUME j + 1 <= k
               PROVE  /\ F(j + 1) \in Seq(Octet) /\ Len(F(j + 1)) = 2 * (j + 1)
                      /\ \A i \in 1..(2 * (j + 1)) : F(j + 1)[i] = p[i + 2]
    OBVIOUS
  <2> DEFINE x == 2 * (j + 1) + 1
             two == <<p[x], p[x + 1]>>
  <2>1. x \in 1..Len(p) /\ x + 1 \in 1..Len(p) /\ x = 2 * j + 3 /\ j + 1 \in Nat OBVIOUS
  <2>2. /\ PutU16(GetU16(p, x)) = two /\ two \in A /\ Len(two) = 2
        /\ two[1] = p[x] /\ two[2] = p[x + 1]
    <3> HIDE DEF x
    <3>1. PutU16(GetU16(p, x)) = two /\ PutU16(GetU16(p, x)) \in Seq(Octet)
          /\ Len(PutU16(GetU16(p, x))) = 2
      BY <2>1, U16At
    <3> QED BY <3>1
  <2>3. Values(p, j + 1) = Append(Values(p, j), two)
    <3> DEFINE v == Values(p, j)
               w == Values(p, j + 1)
    <3>1. v \in Seq(A) /\ Len(v) = j /\ \A i \in 1..j : v[i] = PutU16(GetU16(p, 2 * i + 1))
      BY <1>1
    <3>2. w \in Seq(A) /\ Len(w) = j + 1
          /\ \A i \in 1..(j + 1) : w[i] = PutU16(GetU16(p, 2 * i + 1))
      BY <1>1, <2>1
    <3> HIDE DEF v, w, A, two
    <3>3. /\ Append(v, two) \in Seq(A) /\ Len(Append(v, two)) = j + 1
          /\ Append(v, two)[j + 1] = two
          /\ \A i \in 1..j : Append(v, two)[i] = v[i]
      <4>1. DOMAIN v = 1..j BY <3>1, SeqElements
      <4> QED BY <2>2, <3>1, <4>1, AppendElements
    <3>4. ASSUME NEW i \in 1..(j + 1) PROVE w[i] = Append(v, two)[i]
      <4>1. CASE i \in 1..j BY <3>1, <3>2, <3>3, <4>1
      <4>2. CASE i = j + 1 BY <2>2, <3>2, <3>3, <4>2 DEF x
      <4>3. i \in 1..j \/ i = j + 1 OBVIOUS
      <4> QED BY <4>1, <4>2, <4>3
    <3>5. w = Append(v, two) BY <3>2, <3>3, <3>4, SeqEqual
    <3> QED BY <3>5 DEF v, w
  <2>4. F(j + 1) = F(j) \o two
    <3>1. Values(p, j) \in Seq(Seq(Octet)) BY <1>1
    <3>2. two \in Seq(Octet) BY <2>2
    <3> HIDE DEF two
    <3> QED BY <2>3, <3>1, <3>2, FlattenNext
  <2>5. F(j) \in Seq(Octet) /\ Len(F(j)) = 2 * j /\ \A i \in 1..(2 * j) : F(j)[i] = p[i + 2]
    BY <1>3
  <2> DEFINE f == F(j)
             g == F(j) \o two
  <2>6. /\ g \in Seq(Octet) /\ Len(g) = 2 * j + 2
        /\ \A i \in 1..(2 * j + 2) : g[i] = IF i <= 2 * j THEN f[i] ELSE two[i - 2 * j]
    <3> HIDE DEF two
    <3>1. /\ f \in Seq(Octet) /\ two \in Seq(Octet) /\ Len(f) = 2 * j /\ Len(two) = 2
      BY <2>2, <2>5
    <3> HIDE DEF f
    <3>2. /\ f \o two \in Seq(Octet) /\ Len(f \o two) = Len(f) + Len(two)
          /\ \A i \in 1..(Len(f) + Len(two)) :
               (f \o two)[i] = IF i <= Len(f) THEN f[i] ELSE two[i - Len(f)]
      BY <3>1, ConcatProperties
    <3>3. g = f \o two BY DEF f
    <3> HIDE DEF g
    <3> QED BY <3>1, <3>2, <3>3
  <2> HIDE DEF F, f, g, two
  <2>7. ASSUME NEW i \in 1..(2 * j + 2) PROVE g[i] = p[i + 2]
    <3>1. CASE i <= 2 * j BY <2>5, <2>6, <3>1 DEF f
    <3>2. CASE i = 2 * j + 1
      <4>1. ~(i <= 2 * j) /\ i - 2 * j = 1 /\ i + 2 = x BY <2>1, <3>2
      <4> HIDE DEF x
      <4> QED BY <2>2, <2>6, <4>1
    <3>3. CASE i = 2 * j + 2
      <4>1. ~(i <= 2 * j) /\ i - 2 * j = 2 /\ i + 2 = x + 1 BY <2>1, <3>3
      <4> HIDE DEF x
      <4> QED BY <2>2, <2>6, <4>1
    <3> QED BY <3>1, <3>2, <3>3
  <2>8. 2 * (j + 1) = 2 * j + 2 OBVIOUS
  <2> QED BY <2>4, <2>6, <2>7, <2>8 DEF g
<1> HIDE DEF Fine
<1>4. 0 \in T /\ \A j \in Nat : j \in T => j + 1 \in T BY <1>2, <1>3
<1> HIDE DEF T
<1>5. k \in T BY <1>4, Induction
<1> QED BY <1>5 DEF T, Fine

(* A body of each type is read back and written again octet for octet.     *)
LEMMA ReadRegisterBody ==
  ASSUME NEW p \in Seq(Octet), Len(p) = 3
  PROVE  PutU16(GetU16(p, 1)) \o <<p[3]>> = p
<1> DEFINE two == PutU16(GetU16(p, 1))
<1>1. two \in Seq(Octet) /\ Len(two) = 2 /\ two = <<p[1], p[2]>> BY U16At
<1>2. p[3] \in Octet
  <2>1. 3 \in 1..Len(p) OBVIOUS
  <2> QED BY <2>1, ElementOfSeq
<1>3. <<p[3]>> \in Seq(Octet) /\ Len(<<p[3]>>) = 1 BY <1>2, PairIsConcat
<1>4. two[1] = p[1] /\ two[2] = p[2] BY <1>1
<1> HIDE DEF two
<1>5. \A i \in 1..Len(two) : two[i] = p[i] BY <1>1, <1>4
<1>6. \A i \in 1..Len(<<p[3]>>) : <<p[3]>>[i] = p[Len(two) + i] BY <1>1, <1>3
<1>7. Len(p) = Len(two) + Len(<<p[3]>>) BY <1>1, <1>3
<1>8. two \o <<p[3]>> = p BY <1>1, <1>3, <1>5, <1>6, <1>7, TwoParts
<1> QED BY <1>8 DEF two

(* Bodies read and written back: Nak,                                      *)
LEMMA NakBody ==
  ASSUME NEW p \in Seq(Octet), Len(p) = 3
  PROVE  <<p[1]>> \o PutU16(GetU16(p, 2)) = p
<1> DEFINE two == PutU16(GetU16(p, 2))
<1>1. two \in Seq(Octet) /\ Len(two) = 2 /\ two = <<p[2], p[3]>>
  <2>1. 2 \in 1..Len(p) /\ 2 + 1 \in 1..Len(p) /\ 2 + 1 = 3 OBVIOUS
  <2> QED BY <2>1, U16At
<1>2. p[1] \in Octet BY ElementOfSeq
<1>3. <<p[1]>> \in Seq(Octet) /\ Len(<<p[1]>>) = 1 BY <1>2, PairIsConcat
<1>4. two[1] = p[2] /\ two[2] = p[3] BY <1>1
<1> HIDE DEF two
<1>5. \A i \in 1..Len(<<p[1]>>) : <<p[1]>>[i] = p[i] BY <1>3
<1>6. \A i \in 1..Len(two) : two[i] = p[Len(<<p[1]>>) + i] BY <1>1, <1>3, <1>4
<1>7. Len(p) = Len(<<p[1]>>) + Len(two) BY <1>1, <1>3
<1>8. <<p[1]>> \o two = p BY <1>1, <1>3, <1>5, <1>6, <1>7, TwoParts
<1> QED BY <1>8 DEF two

(* Two 16-bit fields are the first four octets.                            *)
LEMMA TwoFields ==
  ASSUME NEW p \in Seq(Octet), Len(p) >= 4
  PROVE  PutU16(GetU16(p, 1)) \o PutU16(GetU16(p, 3)) = SubSeq(p, 1, 4)
<1> DEFINE a == PutU16(GetU16(p, 1))
           b == PutU16(GetU16(p, 3))
           s == SubSeq(p, 1, 4)
<1>1. 1 \in 1..Len(p) /\ 2 \in 1..Len(p) /\ 3 \in 1..Len(p) /\ 4 \in 1..Len(p)
  BY LenProperties
<1>2. a \in Seq(Octet) /\ Len(a) = 2 /\ a = <<p[1], p[2]>> BY <1>1, U16At
<1>3. b \in Seq(Octet) /\ Len(b) = 2 /\ b = <<p[3], p[4]>> BY <1>1, U16At
<1>4. \A i \in 1..4 : p[i] \in Octet BY <1>1, ElementOfSeq
<1>5. s \in Seq(Octet) /\ Len(s) = 4 /\ \A i \in 1..4 : s[i] = p[1 + i - 1]
  BY <1>4, SubSeqProperties
<1>6. a[1] = p[1] /\ a[2] = p[2] /\ b[1] = p[3] /\ b[2] = p[4] BY <1>2, <1>3
<1>7. s[1] = p[1] /\ s[2] = p[2] /\ s[3] = p[3] /\ s[4] = p[4] BY <1>5
<1> HIDE DEF a, b, s
<1>8. \A i \in 1..Len(a) : a[i] = s[i] BY <1>2, <1>6, <1>7
<1>9. \A i \in 1..Len(b) : b[i] = s[Len(a) + i] BY <1>2, <1>3, <1>6, <1>7
<1>10. a \o b = s BY <1>2, <1>3, <1>5, <1>8, <1>9, TwoParts
<1> QED BY <1>10 DEF a, b, s

(* WriteRegister,                                                          *)
LEMMA WriteRegisterBody ==
  ASSUME NEW p \in Seq(Octet), Len(p) = 4
  PROVE  PutU16(GetU16(p, 1)) \o PutU16(GetU16(p, 3)) = p
<1>1. PutU16(GetU16(p, 1)) \o PutU16(GetU16(p, 3)) = SubSeq(p, 1, 4)
  <2>1. Len(p) >= 4 OBVIOUS
  <2> QED BY <2>1, TwoFields
<1>2. SubSeq(p, 1, Len(p)) = p BY SubSeqFull
<1> QED BY <1>1, <1>2

(* WriteAck,                                                               *)
LEMMA WriteAckBody ==
  ASSUME NEW p \in Seq(Octet), Len(p) = 5
  PROVE  PutU16(GetU16(p, 1)) \o PutU16(GetU16(p, 3)) \o <<p[5]>> = p
<1> DEFINE s == SubSeq(p, 1, 4)
<1>1. \A i \in 1..5 : p[i] \in Octet BY ElementOfSeq
<1>2. s \in Seq(Octet) /\ Len(s) = 4 /\ \A i \in 1..4 : s[i] = p[1 + i - 1]
  BY <1>1, SubSeqProperties
<1>3. <<p[5]>> \in Seq(Octet) /\ Len(<<p[5]>>) = 1 BY <1>1, PairIsConcat
<1>4. PutU16(GetU16(p, 1)) \o PutU16(GetU16(p, 3)) = s
  <2>1. Len(p) >= 4 OBVIOUS
  <2> QED BY <2>1, TwoFields
<1>5. \A i \in 1..4 : s[i] = p[i] BY <1>2
<1> HIDE DEF s
<1>6. \A i \in 1..Len(s) : s[i] = p[i] BY <1>2, <1>5
<1>7. \A i \in 1..Len(<<p[5]>>) : <<p[5]>>[i] = p[Len(s) + i] BY <1>2, <1>3
<1>8. Len(p) = Len(s) + Len(<<p[5]>>) BY <1>2, <1>3
<1>9. s \o <<p[5]>> = p BY <1>2, <1>3, <1>6, <1>7, <1>8, TwoParts
<1> QED BY <1>4, <1>9

(* AttitudeSample,                                                         *)
LEMMA AttitudeSampleBody ==
  ASSUME NEW p \in Seq(Octet), Len(p) = 20
  PROVE  SubSeq(p, 1, 4) \o SubSeq(p, 5, 8) \o SubSeq(p, 9, 12) \o SubSeq(p, 13, 16)
           \o SubSeq(p, 17, 20) = p
<1>1. SubSeq(p, 1, 4) \o SubSeq(p, 5, 8) = SubSeq(p, 1, 8)
  <2>1. 1 \in 1..(Len(p) + 1) /\ 4 \in (1 - 1)..Len(p) /\ 8 \in 4..Len(p) /\ 4 + 1 = 5 OBVIOUS
  <2> QED BY <2>1, ConcatAdjacentSubSeq
<1>2. SubSeq(p, 1, 8) \o SubSeq(p, 9, 12) = SubSeq(p, 1, 12)
  <2>1. 1 \in 1..(Len(p) + 1) /\ 8 \in (1 - 1)..Len(p) /\ 12 \in 8..Len(p) /\ 8 + 1 = 9 OBVIOUS
  <2> QED BY <2>1, ConcatAdjacentSubSeq
<1>3. SubSeq(p, 1, 12) \o SubSeq(p, 13, 16) = SubSeq(p, 1, 16)
  <2>1. 1 \in 1..(Len(p) + 1) /\ 12 \in (1 - 1)..Len(p) /\ 16 \in 12..Len(p) /\ 12 + 1 = 13 OBVIOUS
  <2> QED BY <2>1, ConcatAdjacentSubSeq
<1>4. SubSeq(p, 1, 16) \o SubSeq(p, 17, 20) = SubSeq(p, 1, 20)
  <2>1. 1 \in 1..(Len(p) + 1) /\ 16 \in (1 - 1)..Len(p) /\ 20 \in 16..Len(p) /\ 16 + 1 = 17 OBVIOUS
  <2> QED BY <2>1, ConcatAdjacentSubSeq
<1>5. SubSeq(p, 1, 20) = p BY SubSeqFull
<1> QED BY <1>1, <1>2, <1>3, <1>4, <1>5

(* and ReadResponse.                                                       *)
LEMMA ReadResponseBody ==
  ASSUME NEW p \in Seq(Octet), Len(p) >= 2, (Len(p) - 2) % 2 = 0
  PROVE  PutU16(GetU16(p, 1)) \o FlattenSeq(Values(p, (Len(p) - 2) \div 2)) = p
<1> DEFINE k == (Len(p) - 2) \div 2
           two == PutU16(GetU16(p, 1))
           rest == FlattenSeq(Values(p, k))
<1>1. k \in Nat /\ Len(p) = 2 * k + 2 /\ 1 \in 1..Len(p) /\ 2 \in 1..Len(p)
  BY LenProperties
<1> HIDE DEF k
<1>2. two \in Seq(Octet) /\ Len(two) = 2 /\ two = <<p[1], p[2]>> BY <1>1, U16At
<1>3. rest \in Seq(Octet) /\ Len(rest) = 2 * k /\ \A i \in 1..(2 * k) : rest[i] = p[i + 2]
  BY <1>1, ValuesFlat
<1>4. two[1] = p[1] /\ two[2] = p[2] BY <1>2
<1> HIDE DEF two, rest
<1>5. \A i \in 1..Len(two) : two[i] = p[i] BY <1>2, <1>4
<1>6. \A i \in 1..Len(rest) : rest[i] = p[Len(two) + i] BY <1>1, <1>2, <1>3
<1>7. Len(p) = Len(two) + Len(rest) BY <1>1, <1>2, <1>3
<1>8. two \o rest = p BY <1>2, <1>3, <1>5, <1>6, <1>7, TwoParts
<1> QED BY <1>8 DEF two, rest, k

(* A body of the right length is the body of the message unpacked from it. *)
LEMMA BodyOf ==
  ASSUME NEW type \in DOMAIN TypeId, NEW p \in Seq(Octet), BodyFits(type, Len(p))
  PROVE  Unpack(type, p).type = type /\ Body(Unpack(type, p)) = p
<1> DEFINE m == Unpack(type, p)
           a == GetU16(p, 1)
           b == GetU16(p, 3)
           c == GetU16(p, 2)
<1>1. type \in {"ReadRegister", "WriteRegister", "AttitudeSample", "ReadResponse",
                "WriteAck", "Nak"}
  BY DEF TypeId
<1>2. CASE type = "ReadRegister"
  <2>1. Len(p) = 3 BY <1>2 DEF BodyFits
  <2>2. m = [type |-> type, addr |-> a, count |-> p[3]] BY <1>2 DEF Unpack
  <2> HIDE DEF m, a
  <2>3. m.type = type /\ m.addr = a /\ m.count = p[3] BY <2>2
  <2>4. Body(m) = PutU16(a) \o <<p[3]>> BY <1>2, <2>3 DEF Body
  <2>5. PutU16(a) \o <<p[3]>> = p BY <2>1, ReadRegisterBody DEF a
  <2> QED BY <2>3, <2>4, <2>5 DEF m
<1>3. CASE type = "WriteRegister"
  <2>1. Len(p) = 4 BY <1>3 DEF BodyFits
  <2>2. m = [type |-> type, addr |-> a, value |-> b] BY <1>3 DEF Unpack
  <2> HIDE DEF m, a, b
  <2>3. m.type = type /\ m.addr = a /\ m.value = b BY <2>2
  <2>4. Body(m) = PutU16(a) \o PutU16(b) BY <1>3, <2>3 DEF Body
  <2>5. PutU16(a) \o PutU16(b) = p BY <2>1, WriteRegisterBody DEF a, b
  <2> QED BY <2>3, <2>4, <2>5 DEF m
<1>4. CASE type = "AttitudeSample"
  <2>1. Len(p) = 20 BY <1>4 DEF BodyFits
  <2>2. m = [type |-> type, seq |-> SubSeq(p, 1, 4), t_ms |-> SubSeq(p, 5, 8),
             roll |-> SubSeq(p, 9, 12), pitch |-> SubSeq(p, 13, 16),
             yaw |-> SubSeq(p, 17, 20)]
    BY <1>4 DEF Unpack
  <2> HIDE DEF m
  <2>3. /\ m.type = type /\ m.seq = SubSeq(p, 1, 4) /\ m.t_ms = SubSeq(p, 5, 8)
        /\ m.roll = SubSeq(p, 9, 12) /\ m.pitch = SubSeq(p, 13, 16)
        /\ m.yaw = SubSeq(p, 17, 20)
    BY <2>2
  <2>4. Body(m) = m.seq \o m.t_ms \o m.roll \o m.pitch \o m.yaw BY <1>4, <2>3 DEF Body
  <2>5. SubSeq(p, 1, 4) \o SubSeq(p, 5, 8) \o SubSeq(p, 9, 12) \o SubSeq(p, 13, 16)
          \o SubSeq(p, 17, 20) = p
    BY <2>1, AttitudeSampleBody
  <2> QED BY <2>3, <2>4, <2>5 DEF m
<1>5. CASE type = "ReadResponse"
  <2> DEFINE k == (Len(p) - 2) \div 2
  <2>1. Len(p) >= 2 /\ (Len(p) - 2) % 2 = 0 BY <1>5 DEF BodyFits
  <2>2. m = [type |-> type, addr |-> a, values |-> [i \in 1..k |-> GetU16(p, 2 * i + 1)]]
    BY <1>5 DEF Unpack
  <2> HIDE DEF k, m, a
  <2>3. m.type = type /\ m.addr = a /\ m.values = [i \in 1..k |-> GetU16(p, 2 * i + 1)]
    BY <2>2
  <2>4. [i \in DOMAIN m.values |-> PutU16(m.values[i])] = Values(p, k) BY <2>3 DEF Values
  <2>5. Body(m) = PutU16(a) \o FlattenSeq(Values(p, k)) BY <1>5, <2>3, <2>4 DEF Body
  <2>6. PutU16(a) \o FlattenSeq(Values(p, k)) = p BY <2>1, ReadResponseBody DEF k, a
  <2> QED BY <2>3, <2>5, <2>6 DEF m
<1>6. CASE type = "WriteAck"
  <2>1. Len(p) = 5 BY <1>6 DEF BodyFits
  <2>2. m = [type |-> type, addr |-> a, value |-> b, status |-> p[5]] BY <1>6 DEF Unpack
  <2> HIDE DEF m, a, b
  <2>3. m.type = type /\ m.addr = a /\ m.value = b /\ m.status = p[5] BY <2>2
  <2>4. Body(m) = PutU16(a) \o PutU16(b) \o <<p[5]>> BY <1>6, <2>3 DEF Body
  <2>5. PutU16(a) \o PutU16(b) \o <<p[5]>> = p BY <2>1, WriteAckBody DEF a, b
  <2> QED BY <2>3, <2>4, <2>5 DEF m
<1>7. CASE type = "Nak"
  <2>1. Len(p) = 3 BY <1>7 DEF BodyFits
  <2>2. m = [type |-> type, code |-> p[1], addr |-> c] BY <1>7 DEF Unpack
  <2> HIDE DEF m, c
  <2>3. m.type = type /\ m.code = p[1] /\ m.addr = c BY <2>2
  <2>4. Body(m) = <<p[1]>> \o PutU16(c) BY <1>7, <2>3 DEF Body
  <2>5. <<p[1]>> \o PutU16(c) = p BY <2>1, NakBody DEF c
  <2> QED BY <2>3, <2>4, <2>5 DEF m
<1> QED BY <1>1, <1>2, <1>3, <1>4, <1>5, <1>6, <1>7

(* What decodes is encoded to what was decoded.                            *)
LEMMA DecodesExactly ==
  ASSUME NEW field \in Seq(Octet), Decode(field).ok
  PROVE  EncodeMessage(Decode(field).message) = field
<1> DEFINE body  == Tail(field)
           known == {t \in DOMAIN TypeId : TypeId[t] = field[1]}
           type  == CHOOSE t \in known : TRUE
           m     == Unpack(type, body)
<1>1. field # <<>> /\ known # {} /\ BodyFits(type, Len(body)) /\ Decode(field).message = m
  <2>1. field # <<>> BY DEF Decode, Failed
  <2>2. known # {} BY <2>1 DEF Decode, Failed
  <2>3. BodyFits(type, Len(body)) BY <2>1, <2>2 DEF Decode, Failed
  <2> QED BY <2>1, <2>2, <2>3 DEF Decode, Decoded
<1>2. type \in DOMAIN TypeId /\ TypeId[type] = field[1] BY <1>1
<1>3. /\ body \in Seq(Octet) /\ Len(field) \in Nat /\ Len(body) = Len(field) - 1
      /\ DOMAIN body = 1..(Len(field) - 1)
      /\ \A i \in DOMAIN body : body[i] = field[i + 1]
      /\ field[1] \in Octet
  <2>1. 1 \in 1..Len(field) BY <1>1, TailElements
  <2>2. field[1] \in Octet BY <2>1, ElementOfSeq
  <2> QED BY <1>1, <2>2, TailElements
<1> HIDE DEF body, type
<1>4. m.type = type /\ Body(m) = body BY <1>1, <1>2, <1>3, BodyOf
<1> HIDE DEF m
<1>5. EncodeMessage(m) = <<field[1]>> \o body BY <1>2, <1>4 DEF EncodeMessage
<1> DEFINE one == <<field[1]>>
<1>6. one \in Seq(Octet) /\ Len(one) = 1 /\ one[1] = field[1] BY <1>3, PairIsConcat
<1>7. one \o body = field
  <2> HIDE DEF one
  <2>1. \A i \in 1..Len(one) : one[i] = field[i] BY <1>6
  <2>2. \A i \in 1..Len(body) : body[i] = field[Len(one) + i]
    <3> SUFFICES ASSUME NEW i \in 1..Len(body) PROVE body[i] = field[Len(one) + i] OBVIOUS
    <3>1. i \in DOMAIN body /\ i \in Int BY <1>3
    <3>2. Len(one) + i = i + 1 BY <1>6, <3>1
    <3> QED BY <1>3, <3>1, <3>2
  <2>3. Len(field) = Len(one) + Len(body) BY <1>3, <1>6
  <2>4. one \in Seq(Octet) /\ body \in Seq(Octet) /\ field \in Seq(Octet) BY <1>3, <1>6
  <2> QED BY <2>1, <2>2, <2>3, <2>4, TwoParts
<1> QED BY <1>1, <1>5, <1>7

(* Every message there is, is read back as it was written.                 *)
LEMMA U16Joins ==
  ASSUME NEW v \in U16Field
  PROVE  /\ PutU16(v) \in Seq(Octet) /\ Len(PutU16(v)) = 2
         /\ PutU16(v)[1] * 256 + PutU16(v)[2] = v
<1> DEFINE a == v \div 256
           b == v % 256
<1>1. a \in Octet /\ b \in Octet /\ a * 256 + b = v BY DEF Octet, U16Field
<1>2. PutU16(v) = <<a, b>> BY DEF PutU16
<1> HIDE DEF a, b
<1>3. <<a, b>> \in Seq(Octet) /\ Len(<<a, b>>) = 2 BY <1>1, PairIsConcat
<1> QED BY <1>1, <1>2, <1>3

(* The front of a concatenation.                                           *)
LEMMA ConcatHead ==
  ASSUME NEW S, NEW s \in Seq(S), NEW t \in Seq(S)
  PROVE  /\ s \o t \in Seq(S) /\ Len(s \o t) = Len(s) + Len(t)
         /\ \A i \in 1..Len(s) : (s \o t)[i] = s[i]
<1> DEFINE u == s \o t
           m == Len(s)
           n == Len(t)
<1>1. /\ u \in Seq(S) /\ Len(u) = m + n /\ m \in Nat /\ n \in Nat
      /\ \A i \in 1..(m + n) : u[i] = IF i <= m THEN s[i] ELSE t[i - m]
  BY ConcatProperties, LenProperties
<1> HIDE DEF u, m, n
<1>2. ASSUME NEW i \in 1..m PROVE u[i] = s[i]
  <2>1. i \in 1..(m + n) /\ i <= m BY <1>1
  <2> QED BY <1>1, <2>1
<1> QED BY <1>1, <1>2 DEF u, m, n

(* The middle one of three parts.                                          *)
LEMMA Slice ==
  ASSUME NEW S, NEW s \in Seq(S), NEW t \in Seq(S), NEW p \in Seq(S),
         NEW i \in Int, NEW j \in Int,
         i = Len(s) + 1, j = Len(s) + Len(t), j <= Len(p),
         \A k \in 1..j : p[k] = (s \o t)[k]
  PROVE  SubSeq(p, i, j) = t
<1> DEFINE u == s \o t
           m == Len(s)
           n == Len(t)
           q == SubSeq(p, i, j)
<1>1. /\ m \in Nat /\ n \in Nat
      /\ \A k \in 1..(m + n) : u[k] = IF k <= m THEN s[k] ELSE t[k - m]
  BY ConcatProperties, LenProperties
<1> HIDE DEF u
<1>2. \A k \in i..j : p[k] \in S
  <2>1. \A k \in i..j : k \in 1..Len(p) BY <1>1, LenProperties
  <2> QED BY <2>1, ElementOfSeq
<1>3. /\ q \in Seq(S) /\ Len(q) = IF i <= j THEN j - i + 1 ELSE 0
      /\ \A k \in 1..(j - i + 1) : q[k] = p[i + k - 1]
  BY <1>2, SubSeqProperties
<1> HIDE DEF q
<1>4. j - i + 1 = n /\ Len(q) = n BY <1>1, <1>3
<1>5. ASSUME NEW k \in 1..n PROVE q[k] = t[k]
  <2>1. i + k - 1 = m + k /\ m + k \in 1..j /\ m + k \in 1..(m + n) /\ ~(m + k <= m)
        /\ (m + k) - m = k
    BY <1>1
  <2>2. p[m + k] = u[m + k] BY <2>1 DEF u
  <2>3. u[m + k] = t[k] BY <1>1, <2>1
  <2> QED BY <1>3, <1>4, <2>1, <2>2, <2>3
<1>6. q = t BY <1>3, <1>4, <1>5, SeqEqual DEF n
<1> QED BY <1>6 DEF q

(* Fields written and read back: those of ReadRegister,                    *)
LEMMA ReadRegisterBack ==
  ASSUME NEW a \in U16Field, NEW c \in Octet
  PROVE  LET p == PutU16(a) \o <<c>>
         IN  p \in Seq(Octet) /\ Len(p) = 3 /\ GetU16(p, 1) = a /\ p[3] = c
<1> DEFINE s == PutU16(a)
           r == <<c>>
           p == s \o r
<1>1. s \in Seq(Octet) /\ Len(s) = 2 /\ s[1] * 256 + s[2] = a BY U16Joins
<1>2. r \in Seq(Octet) /\ Len(r) = 1 /\ r[1] = c OBVIOUS
<1> HIDE DEF s, r
<1>3. /\ p \in Seq(Octet) /\ Len(p) = Len(s) + Len(r)
      /\ \A i \in 1..(Len(s) + Len(r)) : p[i] = IF i <= Len(s) THEN s[i] ELSE r[i - Len(s)]
  BY <1>1, <1>2, ConcatProperties
<1> HIDE DEF p
<1>4. Len(p) = 3 /\ p[1] = s[1] /\ p[1 + 1] = s[2] /\ p[2 + 1] = r[1] BY <1>1, <1>2, <1>3
<1>5. GetU16(p, 1) = a BY <1>1, <1>4 DEF GetU16
<1>6. p[3] = c BY <1>2, <1>4
<1> QED BY <1>3, <1>4, <1>5, <1>6 DEF p, s, r

(* Nak,                                                                    *)
LEMMA NakBack ==
  ASSUME NEW c \in Octet, NEW a \in U16Field
  PROVE  LET p == <<c>> \o PutU16(a)
         IN  p \in Seq(Octet) /\ Len(p) = 3 /\ p[1] = c /\ GetU16(p, 2) = a
<1> DEFINE s == <<c>>
           r == PutU16(a)
           p == s \o r
<1>1. r \in Seq(Octet) /\ Len(r) = 2 /\ r[1] * 256 + r[2] = a BY U16Joins
<1>2. s \in Seq(Octet) /\ Len(s) = 1 /\ s[1] = c OBVIOUS
<1> HIDE DEF s, r
<1>3. /\ p \in Seq(Octet) /\ Len(p) = Len(s) + Len(r)
      /\ \A i \in 1..(Len(s) + Len(r)) : p[i] = IF i <= Len(s) THEN s[i] ELSE r[i - Len(s)]
  BY <1>1, <1>2, ConcatProperties
<1> HIDE DEF p
<1>4. Len(p) = 3 /\ p[1] = s[1] /\ p[1 + 1] = r[1] /\ p[1 + 2] = r[2] BY <1>1, <1>2, <1>3
<1>5. GetU16(p, 2) = a BY <1>1, <1>4 DEF GetU16
<1> QED BY <1>2, <1>3, <1>4, <1>5 DEF p, s, r

(* WriteRegister,                                                          *)
LEMMA WriteRegisterBack ==
  ASSUME NEW a \in U16Field, NEW v \in U16Field
  PROVE  LET p == PutU16(a) \o PutU16(v)
         IN  p \in Seq(Octet) /\ Len(p) = 4 /\ GetU16(p, 1) = a /\ GetU16(p, 3) = v
<1> DEFINE s == PutU16(a)
           r == PutU16(v)
           p == s \o r
<1>1. s \in Seq(Octet) /\ Len(s) = 2 /\ s[1] * 256 + s[2] = a BY U16Joins
<1>2. r \in Seq(Octet) /\ Len(r) = 2 /\ r[1] * 256 + r[2] = v BY U16Joins
<1> HIDE DEF s, r
<1>3. /\ p \in Seq(Octet) /\ Len(p) = Len(s) + Len(r)
      /\ \A i \in 1..(Len(s) + Len(r)) : p[i] = IF i <= Len(s) THEN s[i] ELSE r[i - Len(s)]
  BY <1>1, <1>2, ConcatProperties
<1> HIDE DEF p
<1>4. Len(p) = 4 /\ p[1] = s[1] /\ p[1 + 1] = s[2] /\ p[2 + 1] = r[1] /\ p[2 + 2] = r[2]
  BY <1>1, <1>2, <1>3
<1>5. GetU16(p, 1) = a BY <1>1, <1>4 DEF GetU16
<1>6. GetU16(p, 3) = v BY <1>2, <1>4 DEF GetU16
<1> QED BY <1>3, <1>4, <1>5, <1>6 DEF p, s, r

(* WriteAck,                                                               *)
LEMMA WriteAckBack ==
  ASSUME NEW a \in U16Field, NEW v \in U16Field, NEW c \in Octet
  PROVE  LET p == PutU16(a) \o PutU16(v) \o <<c>>
         IN  /\ p \in Seq(Octet) /\ Len(p) = 5
             /\ GetU16(p, 1) = a /\ GetU16(p, 3) = v /\ p[5] = c
<1> DEFINE s == PutU16(a) \o PutU16(v)
           r == <<c>>
           p == s \o r
<1>1. s \in Seq(Octet) /\ Len(s) = 4 /\ GetU16(s, 1) = a /\ GetU16(s, 3) = v
  BY WriteRegisterBack
<1>2. r \in Seq(Octet) /\ Len(r) = 1 /\ r[1] = c OBVIOUS
<1> HIDE DEF s, r
<1>3. /\ p \in Seq(Octet) /\ Len(p) = Len(s) + Len(r)
      /\ \A i \in 1..(Len(s) + Len(r)) : p[i] = IF i <= Len(s) THEN s[i] ELSE r[i - Len(s)]
  BY <1>1, <1>2, ConcatProperties
<1> HIDE DEF p
<1>4. /\ Len(p) = 5 /\ p[1] = s[1] /\ p[1 + 1] = s[1 + 1] /\ p[3] = s[3] /\ p[3 + 1] = s[3 + 1]
      /\ p[4 + 1] = r[1]
  BY <1>1, <1>2, <1>3
<1>5. GetU16(p, 1) = a /\ GetU16(p, 3) = v BY <1>1, <1>4 DEF GetU16
<1>6. p[5] = c BY <1>2, <1>4
<1> QED BY <1>3, <1>4, <1>5, <1>6 DEF p, s, r

(* The four-octet fields of a sample.                                      *)
LEMMA FourOctets ==
  ASSUME NEW x \in U32Field
  PROVE  x \in Seq(Octet) /\ Len(x) = 4
<1>1. x \in [1..4 -> Octet] BY DEF U32Field, U8Field, Octet
<1> QED BY <1>1, FunctionIsSeq

(* AttitudeSample, whose 32-bit fields are octets here too,                *)
LEMMA AttitudeSampleBack ==
  ASSUME NEW m, m.seq \in U32Field, m.t_ms \in U32Field,
         m.roll \in U32Field, m.pitch \in U32Field, m.yaw \in U32Field
  PROVE  LET p == m.seq \o m.t_ms \o m.roll \o m.pitch \o m.yaw
         IN  /\ p \in Seq(Octet) /\ Len(p) = 20
             /\ SubSeq(p, 1, 4) = m.seq /\ SubSeq(p, 5, 8) = m.t_ms
             /\ SubSeq(p, 9, 12) = m.roll /\ SubSeq(p, 13, 16) = m.pitch
             /\ SubSeq(p, 17, 20) = m.yaw
<1> DEFINE a == m.seq
           b == m.t_ms
           c == m.roll
           d == m.pitch
           e == m.yaw
           ab  == a \o b
           abc == ab \o c
           abcd == abc \o d
           p   == abcd \o e
<1>0. /\ a \in Seq(Octet) /\ Len(a) = 4 /\ b \in Seq(Octet) /\ Len(b) = 4
      /\ c \in Seq(Octet) /\ Len(c) = 4 /\ d \in Seq(Octet) /\ Len(d) = 4
      /\ e \in Seq(Octet) /\ Len(e) = 4
  BY FourOctets
<1> HIDE DEF a, b, c, d, e
<1>2. ab \in Seq(Octet) /\ Len(ab) = 8 /\ \A k \in 1..4 : ab[k] = a[k]
  <2>1. ab \in Seq(Octet) /\ Len(ab) = Len(a) + Len(b) /\ \A k \in 1..Len(a) : ab[k] = a[k]
    BY <1>0, ConcatHead
  <2> HIDE DEF ab
  <2> QED BY <1>0, <2>1
<1> HIDE DEF ab
<1>3. abc \in Seq(Octet) /\ Len(abc) = 12 /\ \A k \in 1..8 : abc[k] = ab[k]
  <2>1. abc \in Seq(Octet) /\ Len(abc) = Len(ab) + Len(c) /\ \A k \in 1..Len(ab) : abc[k] = ab[k]
    BY <1>0, <1>2, ConcatHead
  <2> HIDE DEF abc
  <2> QED BY <1>0, <1>2, <2>1
<1> HIDE DEF abc
<1>4. abcd \in Seq(Octet) /\ Len(abcd) = 16 /\ \A k \in 1..12 : abcd[k] = abc[k]
  <2>1. abcd \in Seq(Octet) /\ Len(abcd) = Len(abc) + Len(d) /\ \A k \in 1..Len(abc) : abcd[k] = abc[k]
    BY <1>0, <1>3, ConcatHead
  <2> HIDE DEF abcd
  <2> QED BY <1>0, <1>3, <2>1
<1> HIDE DEF abcd
<1>5. p \in Seq(Octet) /\ Len(p) = 20 /\ \A k \in 1..16 : p[k] = abcd[k]
  <2>1. p \in Seq(Octet) /\ Len(p) = Len(abcd) + Len(e) /\ \A k \in 1..Len(abcd) : p[k] = abcd[k]
    BY <1>0, <1>4, ConcatHead
  <2> HIDE DEF p
  <2> QED BY <1>0, <1>4, <2>1
<1>6. \A k \in 1..20 : p[k] = (abcd \o e)[k] OBVIOUS
<1> HIDE DEF p
<1>7. \A k \in 1..12 : p[k] = abc[k]
  <2>1. \A k \in 1..12 : k \in 1..16 OBVIOUS
  <2> QED BY <1>4, <1>5, <2>1
<1>8. \A k \in 1..8 : p[k] = ab[k]
  <2>1. \A k \in 1..8 : k \in 1..12 OBVIOUS
  <2> QED BY <1>3, <1>7, <2>1
<1>9. \A k \in 1..4 : p[k] = a[k]
  <2>1. \A k \in 1..4 : k \in 1..8 OBVIOUS
  <2> QED BY <1>2, <1>8, <2>1
<1>10. SubSeq(p, 1, 4) = a
  <2> DEFINE q == SubSeq(p, 1, 4)
  <2>1. \A k \in 1..4 : p[k] \in Octet
    <3>1. \A k \in 1..4 : k \in 1..Len(p) BY <1>5
    <3> QED BY <1>5, <3>1, ElementOfSeq
  <2>2. q \in Seq(Octet) /\ Len(q) = 4 /\ \A k \in 1..4 : q[k] = p[1 + k - 1]
    BY <2>1, SubSeqProperties
  <2> HIDE DEF q
  <2>3. \A k \in 1..4 : q[k] = a[k]
    <3>1. \A k \in 1..4 : 1 + k - 1 = k OBVIOUS
    <3> QED BY <1>9, <2>2, <3>1
  <2>4. q = a BY <1>0, <2>2, <2>3, SeqEqual
  <2> QED BY <2>4 DEF q
<1>11. SubSeq(p, 5, 8) = b
  <2> DEFINE i == 5
             j == 8
  <2>1. /\ i \in Int /\ j \in Int /\ i = Len(a) + 1 /\ j = Len(a) + Len(b) /\ j <= Len(p)
        /\ a \in Seq(Octet) /\ b \in Seq(Octet) /\ p \in Seq(Octet)
    BY <1>0, <1>2, <1>5
  <2>2. \A k \in 1..j : p[k] = (a \o b)[k] BY <1>8 DEF ab
  <2> HIDE DEF i, j
  <2>3. SubSeq(p, i, j) = b BY <2>1, <2>2, Slice
  <2> QED BY <2>3 DEF i, j
<1>12. SubSeq(p, 9, 12) = c
  <2> DEFINE i == 9
             j == 12
  <2>1. /\ i \in Int /\ j \in Int /\ i = Len(ab) + 1 /\ j = Len(ab) + Len(c) /\ j <= Len(p)
        /\ ab \in Seq(Octet) /\ c \in Seq(Octet) /\ p \in Seq(Octet)
    BY <1>0, <1>2, <1>5
  <2>2. \A k \in 1..j : p[k] = (ab \o c)[k] BY <1>7 DEF abc
  <2> HIDE DEF i, j
  <2>3. SubSeq(p, i, j) = c BY <2>1, <2>2, Slice
  <2> QED BY <2>3 DEF i, j
<1>13. SubSeq(p, 13, 16) = d
  <2> DEFINE i == 13
             j == 16
  <2>1. /\ i \in Int /\ j \in Int /\ i = Len(abc) + 1 /\ j = Len(abc) + Len(d) /\ j <= Len(p)
        /\ abc \in Seq(Octet) /\ d \in Seq(Octet) /\ p \in Seq(Octet)
    BY <1>0, <1>3, <1>5
  <2>2. \A k \in 1..j : p[k] = (abc \o d)[k] BY <1>5 DEF abcd
  <2> HIDE DEF i, j
  <2>3. SubSeq(p, i, j) = d BY <2>1, <2>2, Slice
  <2> QED BY <2>3 DEF i, j
<1>14. SubSeq(p, 17, 20) = e
  <2> DEFINE i == 17
             j == 20
  <2>1. /\ i \in Int /\ j \in Int /\ i = Len(abcd) + 1 /\ j = Len(abcd) + Len(e) /\ j <= Len(p)
        /\ abcd \in Seq(Octet) /\ e \in Seq(Octet) /\ p \in Seq(Octet)
    BY <1>0, <1>4, <1>5
  <2>2. \A k \in 1..j : p[k] = (abcd \o e)[k] BY <1>6
  <2> HIDE DEF i, j
  <2>3. SubSeq(p, i, j) = e BY <2>1, <2>2, Slice
  <2> QED BY <2>3 DEF i, j
<1> QED BY <1>5, <1>10, <1>11, <1>12, <1>13, <1>14 DEF p, abcd, abc, ab, a, b, c, d, e

(* The values of a ReadResponse.                                           *)
Pairs(values) == FlattenSeq([i \in DOMAIN values |-> PutU16(values[i])])

(* One value more is one more pair of octets.                              *)
LEMMA PairsOfMore ==
  ASSUME NEW values \in Seq(U16Field), NEW v \in U16Field
  PROVE  LET ss == [i \in DOMAIN values |-> PutU16(values[i])]
             more == Append(values, v)
         IN  /\ ss \in Seq(Seq(Octet))
             /\ [i \in DOMAIN more |-> PutU16(more[i])] = Append(ss, PutU16(v))
<1> DEFINE n == Len(values)
           more == Append(values, v)
           A == Seq(Octet)
           ss == [i \in 1..n |-> PutU16(values[i])]
           tt == [i \in 1..(n + 1) |-> PutU16(more[i])]
           x == PutU16(v)
<1>1. n \in Nat /\ DOMAIN values = 1..n /\ \A i \in 1..n : values[i] \in U16Field
  BY SeqElements
<1>2. /\ more \in Seq(U16Field) /\ DOMAIN more = 1..(n + 1)
      /\ \A i \in 1..n : more[i] = values[i]
      /\ more[n + 1] = v
  BY <1>1, AppendElements
<1> HIDE DEF more, n
<1>3. \A i \in 1..n : PutU16(values[i]) \in A BY <1>1, U16Joins
<1>4. x \in A BY U16Joins
<1>5. ss \in Seq(A) /\ Len(ss) = n /\ \A i \in 1..n : ss[i] = PutU16(values[i])
  <2>1. ss \in [1..n -> A] /\ \A i \in 1..n : ss[i] = PutU16(values[i]) BY <1>3
  <2> HIDE DEF ss, A
  <2> QED BY <1>1, <2>1, FunctionIsSeq
<1>6. tt \in Seq(A) /\ Len(tt) = n + 1 /\ \A i \in 1..(n + 1) : tt[i] = PutU16(more[i])
  <2>1. \A i \in 1..(n + 1) : more[i] \in U16Field BY <1>2, ElementOfSeq, SeqElements
  <2>2. \A i \in 1..(n + 1) : PutU16(more[i]) \in A BY <2>1, U16Joins
  <2>3. tt \in [1..(n + 1) -> A] /\ \A i \in 1..(n + 1) : tt[i] = PutU16(more[i]) BY <2>2
  <2>4. n + 1 \in Nat BY <1>1
  <2> HIDE DEF tt, A
  <2> QED BY <2>3, <2>4, FunctionIsSeq
<1> HIDE DEF ss, tt, A
<1> DEFINE aa == Append(ss, x)
<1>7. /\ aa \in Seq(A) /\ Len(aa) = n + 1 /\ aa[n + 1] = x
      /\ \A i \in 1..n : aa[i] = ss[i]
  <2>1. DOMAIN ss = 1..n BY <1>5, SeqElements
  <2> QED BY <1>4, <1>5, <2>1, AppendElements
<1> HIDE DEF aa
<1>8. ASSUME NEW i \in 1..(n + 1) PROVE tt[i] = aa[i]
  <2>1. i \in 1..n \/ i = n + 1 BY <1>1
  <2>2. CASE i \in 1..n BY <1>2, <1>5, <1>6, <1>7, <2>2
  <2>3. CASE i = n + 1 BY <1>2, <1>6, <1>7, <2>3 DEF x
  <2> QED BY <2>1, <2>2, <2>3
<1>9. tt = aa BY <1>6, <1>7, <1>8, SeqEqual
<1> QED BY <1>1, <1>2, <1>5, <1>9 DEF more, ss, tt, aa, A

(* The pairs of octets of a run of values, one after the other.            *)
LEMMA PairsFlat ==
  ASSUME NEW values \in Seq(U16Field)
  PROVE  /\ Pairs(values) \in Seq(Octet) /\ Len(Pairs(values)) = 2 * Len(values)
         /\ \A i \in 1..Len(values) :
              Pairs(values)[2 * i - 1] * 256 + Pairs(values)[2 * i] = values[i]
<1> DEFINE Fine(q) == /\ Pairs(q) \in Seq(Octet) /\ Len(Pairs(q)) = 2 * Len(q)
                      /\ \A i \in 1..Len(q) :
                           Pairs(q)[2 * i - 1] * 256 + Pairs(q)[2 * i] = q[i]
           T == {q \in Seq(U16Field) : Fine(q)}
<1>1. <<>> \in Seq(U16Field) /\ Fine(<<>>)
  <2>1. <<>> \in Seq(U16Field) /\ <<>> \in Seq(Octet) /\ Len(<<>>) = 0 BY EmptySeq
  <2>2. Pairs(<<>>) = <<>>
    <3>1. [i \in DOMAIN <<>> |-> PutU16(<<>>[i])] = <<>> OBVIOUS
    <3> QED BY <3>1, FlattenNone DEF Pairs
  <2>3. \A i \in 1..0 : FALSE OBVIOUS
  <2>4. 2 * 0 = 0 OBVIOUS
  <2> HIDE DEF Pairs
  <2> QED BY <2>1, <2>2, <2>3, <2>4
<1>2. ASSUME NEW q \in Seq(U16Field), NEW v \in U16Field, Fine(q) PROVE Fine(Append(q, v))
  <2> DEFINE more == Append(q, v)
             n == Len(q)
             two == PutU16(v)
             f == Pairs(q)
             g == Pairs(more)
  <2>1. g = f \o two
    <3> DEFINE ss == [i \in DOMAIN q |-> PutU16(q[i])]
               tt == [i \in DOMAIN more |-> PutU16(more[i])]
    <3>1. ss \in Seq(Seq(Octet)) /\ tt = Append(ss, two) BY PairsOfMore
    <3>2. two \in Seq(Octet) BY U16Joins
    <3> HIDE DEF ss, tt, two
    <3>3. FlattenSeq(tt) = FlattenSeq(ss) \o two BY <3>1, <3>2, FlattenNext
    <3> QED BY <3>3 DEF Pairs, ss, tt
  <2>2. two \in Seq(Octet) /\ Len(two) = 2 /\ two[1] * 256 + two[2] = v BY U16Joins
  <2>3. /\ n \in Nat /\ Len(more) = n + 1 /\ more[n + 1] = v
        /\ \A i \in 1..n : more[i] = q[i]
    BY AppendElements
  <2>4. /\ f \in Seq(Octet) /\ Len(f) = 2 * n
        /\ \A i \in 1..n : f[2 * i - 1] * 256 + f[2 * i] = q[i]
    BY <1>2
  <2> HIDE DEF f, two, more, n
  <2>5. /\ g \in Seq(Octet) /\ Len(g) = 2 * n + 2
        /\ \A i \in 1..(2 * n + 2) : g[i] = IF i <= 2 * n THEN f[i] ELSE two[i - 2 * n]
    <3>1. /\ f \o two \in Seq(Octet) /\ Len(f \o two) = Len(f) + Len(two)
          /\ \A i \in 1..(Len(f) + Len(two)) :
               (f \o two)[i] = IF i <= Len(f) THEN f[i] ELSE two[i - Len(f)]
      <4>1. f \in Seq(Octet) /\ two \in Seq(Octet) BY <2>2, <2>4
      <4> QED BY <4>1, ConcatProperties
    <3> HIDE DEF g
    <3> QED BY <2>1, <2>2, <2>3, <2>4, <3>1
  <2> HIDE DEF g
  <2>6. ASSUME NEW i \in 1..(n + 1) PROVE g[2 * i - 1] * 256 + g[2 * i] = more[i]
    <3>1. i \in 1..n \/ i = n + 1 BY <2>3
    <3>2. CASE i \in 1..n
      <4>1. /\ 2 * i - 1 \in 1..(2 * n + 2) /\ 2 * i \in 1..(2 * n + 2)
            /\ 2 * i - 1 <= 2 * n /\ 2 * i <= 2 * n
        BY <2>3, <3>2
      <4>2. g[2 * i - 1] = f[2 * i - 1] /\ g[2 * i] = f[2 * i] BY <2>5, <4>1
      <4> QED BY <2>3, <2>4, <3>2, <4>2
    <3>3. CASE i = n + 1
      <4>1. /\ 2 * i - 1 \in 1..(2 * n + 2) /\ 2 * i \in 1..(2 * n + 2)
            /\ ~(2 * i - 1 <= 2 * n) /\ ~(2 * i <= 2 * n)
            /\ 2 * i - 1 - 2 * n = 1 /\ 2 * i - 2 * n = 2
        BY <2>3, <3>3
      <4>2. g[2 * i - 1] = two[1] /\ g[2 * i] = two[2] BY <2>5, <4>1
      <4> QED BY <2>2, <2>3, <3>3, <4>2
    <3> QED BY <3>1, <3>2, <3>3
  <2>7. 2 * (n + 1) = 2 * n + 2 BY <2>3
  <2> QED BY <2>3, <2>5, <2>6, <2>7 DEF g, more
<1> HIDE DEF Fine
<1>3. \A q \in Seq(U16Field) : q \in T
  <2>1. <<>> \in T BY <1>1
  <2>2. \A q \in Seq(U16Field) : \A v \in U16Field : q \in T => Append(q, v) \in T
    BY <1>2, AppendElements
  <2> HIDE DEF T
  <2> QED BY <2>1, <2>2, SeqInduction
<1> QED BY <1>3 DEF T, Fine

(* and ReadResponse, for any number of values.                             *)
LEMMA ReadResponseBack ==
  ASSUME NEW a \in U16Field, NEW values \in Seq(U16Field)
  PROVE  LET p == PutU16(a) \o Pairs(values)
         IN  /\ p \in Seq(Octet) /\ Len(p) = 2 + 2 * Len(values) /\ Len(values) \in Nat
             /\ GetU16(p, 1) = a
             /\ [i \in 1..Len(values) |-> GetU16(p, 2 * i + 1)] = values
<1> DEFINE n == Len(values)
           s == PutU16(a)
           r == Pairs(values)
           p == s \o r
<1>1. s \in Seq(Octet) /\ Len(s) = 2 /\ s[1] * 256 + s[2] = a BY U16Joins
<1>2. n \in Nat /\ DOMAIN values = 1..n BY SeqElements
<1>3. /\ r \in Seq(Octet) /\ Len(r) = 2 * n
      /\ \A i \in 1..n : r[2 * i - 1] * 256 + r[2 * i] = values[i]
  BY PairsFlat
<1> HIDE DEF s, r, n
<1>4. /\ p \in Seq(Octet) /\ Len(p) = 2 + 2 * n
      /\ \A i \in 1..(2 + 2 * n) : p[i] = IF i <= 2 THEN s[i] ELSE r[i - 2]
  <2>1. /\ p \in Seq(Octet) /\ Len(p) = Len(s) + Len(r)
        /\ \A i \in 1..(Len(s) + Len(r)) : p[i] = IF i <= Len(s) THEN s[i] ELSE r[i - Len(s)]
    <3>1. s \in Seq(Octet) /\ r \in Seq(Octet) BY <1>1, <1>3
    <3> QED BY <3>1, ConcatProperties
  <2> HIDE DEF p
  <2> QED BY <1>1, <1>3, <2>1
<1> HIDE DEF p
<1>5. GetU16(p, 1) = a
  <2>1. 1 \in 1..(2 + 2 * n) /\ 1 + 1 \in 1..(2 + 2 * n) BY <1>2
  <2>2. p[1] = s[1] /\ p[1 + 1] = s[2] BY <1>4, <2>1
  <2> QED BY <1>1, <2>2 DEF GetU16
<1>6. ASSUME NEW i \in 1..n PROVE GetU16(p, 2 * i + 1) = values[i]
  <2>1. /\ 2 * i + 1 \in 1..(2 + 2 * n) /\ 2 * i + 1 + 1 \in 1..(2 + 2 * n)
        /\ ~(2 * i + 1 <= 2) /\ ~(2 * i + 1 + 1 <= 2)
        /\ 2 * i + 1 - 2 = 2 * i - 1 /\ 2 * i + 1 + 1 - 2 = 2 * i
    BY <1>2
  <2>2. p[2 * i + 1] = r[2 * i - 1] /\ p[2 * i + 1 + 1] = r[2 * i] BY <1>4, <2>1
  <2> QED BY <1>3, <2>2 DEF GetU16
<1>7. values = [i \in 1..n |-> values[i]] BY <1>2
<1>8. [i \in 1..n |-> GetU16(p, 2 * i + 1)] = values BY <1>6, <1>7
<1> QED BY <1>2, <1>4, <1>5, <1>8 DEF p, s, r, n

(* The body of any message of the catalogue unpacks to that message.       *)
LEMMA BodyBack ==
  ASSUME NEW m \in Message
  PROVE  /\ m.type \in DOMAIN TypeId /\ Body(m) \in Seq(Octet)
         /\ BodyFits(m.type, Len(Body(m))) /\ Unpack(m.type, Body(m)) = m
<1> DEFINE p == Body(m)
<1>0. \A x \in U8Field : x \in Octet BY DEF U8Field, Octet
<1>1. CASE m \in [type : {"ReadRegister"}, addr : U16Field, count : U8Field]
  <2>1. /\ m = [type |-> "ReadRegister", addr |-> m.addr, count |-> m.count]
        /\ m.type = "ReadRegister" /\ m.addr \in U16Field /\ m.count \in Octet
    BY <1>0, <1>1
  <2>2. p = PutU16(m.addr) \o <<m.count>> BY <2>1 DEF Body
  <2>3. p \in Seq(Octet) /\ Len(p) = 3 /\ GetU16(p, 1) = m.addr /\ p[3] = m.count
    BY <2>1, <2>2, ReadRegisterBack
  <2> HIDE DEF p
  <2>4. Unpack(m.type, p) = [type |-> m.type, addr |-> m.addr, count |-> m.count]
    BY <2>1, <2>3 DEF Unpack
  <2>5. BodyFits(m.type, Len(p)) BY <2>1, <2>3 DEF BodyFits
  <2> QED BY <2>1, <2>3, <2>4, <2>5 DEF TypeId, p
<1>2. CASE m \in [type : {"WriteRegister"}, addr : U16Field, value : U16Field]
  <2>1. /\ m = [type |-> "WriteRegister", addr |-> m.addr, value |-> m.value]
        /\ m.type = "WriteRegister" /\ m.addr \in U16Field /\ m.value \in U16Field
    BY <1>2
  <2>2. p = PutU16(m.addr) \o PutU16(m.value) BY <2>1 DEF Body
  <2>3. p \in Seq(Octet) /\ Len(p) = 4 /\ GetU16(p, 1) = m.addr /\ GetU16(p, 3) = m.value
    BY <2>1, <2>2, WriteRegisterBack
  <2> HIDE DEF p
  <2>4. Unpack(m.type, p) = [type |-> m.type, addr |-> m.addr, value |-> m.value]
    BY <2>1, <2>3 DEF Unpack
  <2>5. BodyFits(m.type, Len(p)) BY <2>1, <2>3 DEF BodyFits
  <2> QED BY <2>1, <2>3, <2>4, <2>5 DEF TypeId, p
<1>3. CASE m \in [type : {"AttitudeSample"}, seq : U32Field, t_ms : U32Field,
                  roll : U32Field, pitch : U32Field, yaw : U32Field]
  <2>1. /\ m = [type |-> "AttitudeSample", seq |-> m.seq, t_ms |-> m.t_ms,
                roll |-> m.roll, pitch |-> m.pitch, yaw |-> m.yaw]
        /\ m.type = "AttitudeSample" /\ m.seq \in U32Field /\ m.t_ms \in U32Field
        /\ m.roll \in U32Field /\ m.pitch \in U32Field /\ m.yaw \in U32Field
    BY <1>3
  <2>2. p = m.seq \o m.t_ms \o m.roll \o m.pitch \o m.yaw BY <2>1 DEF Body
  <2>3. /\ p \in Seq(Octet) /\ Len(p) = 20
        /\ SubSeq(p, 1, 4) = m.seq /\ SubSeq(p, 5, 8) = m.t_ms /\ SubSeq(p, 9, 12) = m.roll
        /\ SubSeq(p, 13, 16) = m.pitch /\ SubSeq(p, 17, 20) = m.yaw
    BY <2>1, <2>2, AttitudeSampleBack
  <2> HIDE DEF p
  <2>4. Unpack(m.type, p) = [type |-> m.type, seq |-> m.seq, t_ms |-> m.t_ms,
                             roll |-> m.roll, pitch |-> m.pitch, yaw |-> m.yaw]
    BY <2>1, <2>3 DEF Unpack
  <2>5. BodyFits(m.type, Len(p)) BY <2>1, <2>3 DEF BodyFits
  <2> QED BY <2>1, <2>3, <2>4, <2>5 DEF TypeId, p
<1>4. CASE m \in [type : {"ReadResponse"}, addr : U16Field, values : Seq(U16Field)]
  <2>1. /\ m = [type |-> "ReadResponse", addr |-> m.addr, values |-> m.values]
        /\ m.type = "ReadResponse" /\ m.addr \in U16Field /\ m.values \in Seq(U16Field)
    BY <1>4
  <2>2. p = PutU16(m.addr) \o Pairs(m.values) BY <2>1 DEF Body, Pairs
  <2> DEFINE n == Len(m.values)
  <2>3. /\ p \in Seq(Octet) /\ Len(p) = 2 + 2 * n /\ n \in Nat /\ GetU16(p, 1) = m.addr
        /\ [i \in 1..n |-> GetU16(p, 2 * i + 1)] = m.values
    BY <2>1, <2>2, ReadResponseBack
  <2> HIDE DEF p, n
  <2>4. Len(p) >= 2 /\ (Len(p) - 2) % 2 = 0 /\ (Len(p) - 2) \div 2 = n BY <2>3
  <2>5. Unpack(m.type, p) = [type |-> m.type, addr |-> m.addr, values |-> m.values]
    BY <2>1, <2>3, <2>4 DEF Unpack
  <2>6. BodyFits(m.type, Len(p)) BY <2>1, <2>4 DEF BodyFits
  <2> QED BY <2>1, <2>3, <2>5, <2>6 DEF TypeId, p
<1>5. CASE m \in [type : {"WriteAck"}, addr : U16Field, value : U16Field, status : U8Field]
  <2>1. /\ m = [type |-> "WriteAck", addr |-> m.addr, value |-> m.value, status |-> m.status]
        /\ m.type = "WriteAck" /\ m.addr \in U16Field /\ m.value \in U16Field
        /\ m.status \in Octet
    BY <1>0, <1>5
  <2>2. p = PutU16(m.addr) \o PutU16(m.value) \o <<m.status>> BY <2>1 DEF Body
  <2>3. /\ p \in Seq(Octet) /\ Len(p) = 5
        /\ GetU16(p, 1) = m.addr /\ GetU16(p, 3) = m.value /\ p[5] = m.status
    BY <2>1, <2>2, WriteAckBack
  <2> HIDE DEF p
  <2>4. Unpack(m.type, p) = [type |-> m.type, addr |-> m.addr, value |-> m.value,
                             status |-> m.status]
    BY <2>1, <2>3 DEF Unpack
  <2>5. BodyFits(m.type, Len(p)) BY <2>1, <2>3 DEF BodyFits
  <2> QED BY <2>1, <2>3, <2>4, <2>5 DEF TypeId, p
<1>6. CASE m \in [type : {"Nak"}, code : U8Field, addr : U16Field]
  <2>1. /\ m = [type |-> "Nak", code |-> m.code, addr |-> m.addr]
        /\ m.type = "Nak" /\ m.code \in Octet /\ m.addr \in U16Field
    BY <1>0, <1>6
  <2>2. p = <<m.code>> \o PutU16(m.addr) BY <2>1 DEF Body
  <2>3. p \in Seq(Octet) /\ Len(p) = 3 /\ p[1] = m.code /\ GetU16(p, 2) = m.addr
    BY <2>1, <2>2, NakBack
  <2> HIDE DEF p
  <2>4. Unpack(m.type, p) = [type |-> m.type, code |-> m.code, addr |-> m.addr]
    BY <2>1, <2>3 DEF Unpack
  <2>5. BodyFits(m.type, Len(p)) BY <2>1, <2>3 DEF BodyFits
  <2> QED BY <2>1, <2>3, <2>4, <2>5 DEF TypeId, p
<1> QED BY <1>1, <1>2, <1>3, <1>4, <1>5, <1>6 DEF Message

(* encode() followed by decode() gives every message back as it was: each  *)
(* field of each struct, whatever its value, and any number of registers.  *)
THEOREM MessagesRoundTrip ==
  ASSUME NEW m \in Message
  PROVE  /\ EncodeMessage(m) \in Seq(Octet)
         /\ Decode(EncodeMessage(m)) = Decoded(m)
<1> DEFINE id == TypeId[m.type]
           body == Body(m)
           field == <<id>> \o body
           known == {t \in DOMAIN TypeId : TypeId[t] = id}
<1>1. m.type \in DOMAIN TypeId /\ body \in Seq(Octet) /\ BodyFits(m.type, Len(body))
      /\ Unpack(m.type, body) = m
  BY BodyBack
<1>2. id \in Octet /\ known = {m.type}
  <2>1. DOMAIN TypeId = {"ReadRegister", "WriteRegister", "AttitudeSample", "ReadResponse",
                         "WriteAck", "Nak"}
    BY DEF TypeId
  <2>2. /\ TypeId["ReadRegister"] = 1 /\ TypeId["WriteRegister"] = 2
        /\ TypeId["AttitudeSample"] = 32 /\ TypeId["ReadResponse"] = 129
        /\ TypeId["WriteAck"] = 130 /\ TypeId["Nak"] = 255
    BY DEF TypeId
  <2>3. \A t, u \in DOMAIN TypeId : TypeId[t] = TypeId[u] => t = u BY <2>1, <2>2
  <2>4. \A t \in DOMAIN TypeId : TypeId[t] \in Octet BY <2>1, <2>2 DEF Octet
  <2> QED BY <1>1, <2>3, <2>4
<1> HIDE DEF id, body
<1>3. EncodeMessage(m) = field BY DEF EncodeMessage, id, body
<1> DEFINE one == <<id>>
<1>4. one \in Seq(Octet) /\ Len(one) = 1 /\ one[1] = id BY <1>2, PairIsConcat
<1> HIDE DEF one
<1>5. /\ field \in Seq(Octet) /\ Len(field) = Len(one) + Len(body)
      /\ \A i \in 1..(Len(one) + Len(body)) :
           field[i] = IF i <= Len(one) THEN one[i] ELSE body[i - Len(one)]
  <2>1. field = one \o body BY DEF one
  <2> HIDE DEF field
  <2> QED BY <1>1, <1>4, <2>1, ConcatProperties
<1> HIDE DEF field, known
<1>6. Len(body) \in Nat BY <1>1, LenProperties
<1>7. field[1] = id /\ field # <<>>
  <2>1. Len(field) # 0 BY <1>4, <1>5, <1>6
  <2>2. field # <<>> BY <1>5, <2>1, EmptySeq
  <2> QED BY <1>4, <1>5, <1>6, <2>2
<1>8. Tail(field) = body
  <2> DEFINE q == Tail(field)
  <2>1. /\ q \in Seq(Octet) /\ Len(q) = Len(field) - 1 /\ DOMAIN q = 1..(Len(field) - 1)
        /\ \A k \in DOMAIN q : q[k] = field[k + 1]
    BY <1>5, <1>7, TailElements
  <2> HIDE DEF q
  <2>2. Len(q) = Len(body) BY <1>4, <1>5, <1>6, <2>1
  <2>3. ASSUME NEW k \in 1..Len(body) PROVE q[k] = body[k]
    <3>1. k \in DOMAIN q /\ k + 1 \in 1..(1 + Len(body)) /\ ~(k + 1 <= 1) /\ k + 1 - 1 = k
      BY <1>4, <1>5, <1>6, <2>1
    <3> QED BY <1>4, <1>5, <2>1, <3>1
  <2>4. q = body BY <1>1, <2>1, <2>2, <2>3, SeqEqual
  <2> QED BY <2>4 DEF q
<1>9. {t \in DOMAIN TypeId : TypeId[t] = field[1]} = {m.type} BY <1>2, <1>7 DEF known
<1>10. (CHOOSE t \in {m.type} : TRUE) = m.type OBVIOUS
<1>11. Decode(field) = Decoded(Unpack(m.type, body))
  BY <1>1, <1>7, <1>8, <1>9, <1>10 DEF Decode
<1> QED BY <1>1, <1>3, <1>5, <1>11

-----------------------------------------------------------------------------
(* INFO is made of octets, whatever is put into it.                        *)
InfoIsOctets == info \in Seq(Octet)

(* The INFO field is octets at first,                                      *)
LEMMA FieldInit ==
  ASSUME InfoInit
  PROVE  InfoIsOctets
BY EmptySeq DEF InfoInit, InfoIsOctets

(* and stays octets.                                                       *)
LEMMA FieldStep ==
  ASSUME InfoIsOctets, [InfoNext]_info
  PROVE  InfoIsOctets'
<1> USE DEF InfoIsOctets
<1>1. CASE PutTypeId
  <2>1. PICK b \in TypeOctets : info' = <<b>> BY <1>1 DEF PutTypeId
  <2>2. b \in Octet BY WireFormatAssumption
  <2> QED BY <2>1, <2>2, PairIsConcat
<1>2. CASE PutOctet
  <2>1. PICK b \in Octets : info' = Append(info, b) BY <1>2 DEF PutOctet
  <2>2. b \in Octet BY WireFormatAssumption
  <2> QED BY <2>1, <2>2, AppendElements
<1>3. CASE PutWord
  <2>1. PICK w \in Words : info' = info \o w BY <1>3 DEF PutWord
  <2>2. w \in [1..4 -> Octet] BY WireFormatAssumption
  <2>3. w \in Seq(Octet) BY <2>2, FunctionIsSeq
  <2> QED BY <2>1, <2>3, ConcatProperties
<1>4. CASE SendInfo BY <1>4, EmptySeq DEF SendInfo
<1>5. CASE UNCHANGED info BY <1>5
<1> QED BY <1>1, <1>2, <1>3, <1>4, <1>5 DEF InfoNext

(* Every INFO field put together is a sequence of octets of any length.    *)
THEOREM WireFormatInvariant == InfoSpec => []InfoIsOctets
<1>1. InfoInit => InfoIsOctets BY FieldInit
<1>2. InfoIsOctets /\ [InfoNext]_info => InfoIsOctets' BY FieldStep
<1> QED BY <1>1, <1>2, PTL DEF InfoSpec

(* encode() lets no flag and no control octet appear between the flags of  *)
(* any frame: the stuffing covers INFO and FCS alike.                      *)
THEOREM FramesAreTransparent == InfoSpec => []Transparent
<1>1. InfoIsOctets => Transparent
  <2> SUFFICES ASSUME InfoIsOctets PROVE Transparent OBVIOUS
  <2> DEFINE s == Stuffed(Payload(info))
             head == <<FLAG>> \o s
             wire == Encode(info)
  <2>1. Payload(info) \in Seq(Octet) BY PayloadFacts DEF InfoIsOctets
  <2>2. s \in Seq(Octet) /\ \A i \in 1..Len(s) : s[i] # FLAG /\ s[i] >= 32
    BY <2>1, StuffedTransparent
  <2>3. head \in Seq(Octet) /\ wire = Append(head, FLAG) BY EncodeFacts DEF InfoIsOctets
  <2>4. <<FLAG>> \in Seq(Octet) /\ Len(<<FLAG>>) = 1 /\ <<FLAG>>[1] = FLAG /\ FLAG \in Octet
    BY DEF FLAG, Octet
  <2>5. Len(s) \in Nat BY <2>2, LenProperties
  <2> HIDE DEF s, wire
  <2> DEFINE flag == <<FLAG>>
  <2>6. /\ Len(head) = 1 + Len(s)
        /\ \A i \in 1..(1 + Len(s)) : head[i] = IF i <= 1 THEN flag[i] ELSE s[i - 1]
    <3>1. flag \in Seq(Octet) /\ Len(flag) = 1 /\ head = flag \o s BY <2>4
    <3> HIDE DEF flag
    <3>2. /\ Len(flag \o s) = Len(flag) + Len(s)
          /\ \A i \in 1..(Len(flag) + Len(s)) :
               (flag \o s)[i] = IF i <= Len(flag) THEN flag[i] ELSE s[i - Len(flag)]
      BY <2>2, <3>1, ConcatProperties
    <3> HIDE DEF head
    <3> QED BY <3>1, <3>2
  <2> HIDE DEF head
  <2>7. /\ Len(wire) = Len(s) + 2 /\ wire[Len(s) + 2] = FLAG
        /\ \A i \in 1..(Len(s) + 1) : wire[i] = head[i]
    <3>1. DOMAIN head = 1..Len(head) /\ Len(head) \in Nat BY <2>3, SeqElements
    <3>2. /\ Len(wire) = Len(head) + 1 /\ wire[Len(head) + 1] = FLAG
          /\ \A i \in 1..Len(head) : wire[i] = head[i]
      BY <2>3, <2>4, <3>1, AppendElements
    <3> QED BY <2>5, <2>6, <3>2
  <2>8. wire[1] = FLAG
    <3>1. 1 \in 1..(Len(s) + 1) /\ 1 \in 1..(1 + Len(s)) BY <2>5
    <3> QED BY <2>4, <2>6, <2>7, <3>1
  <2>9. ASSUME NEW i \in 2..(Len(wire) - 1) PROVE wire[i] # FLAG /\ wire[i] >= 32
    <3>1. i \in 1..(Len(s) + 1) /\ i \in 1..(1 + Len(s)) /\ ~(i <= 1) /\ i - 1 \in 1..Len(s)
      BY <2>5, <2>7
    <3>2. wire[i] = s[i - 1] BY <2>6, <2>7, <3>1
    <3> QED BY <2>2, <3>1, <3>2
  <2> QED BY <2>7, <2>8, <2>9 DEF Transparent, wire
<1> QED BY <1>1, WireFormatInvariant, PTL

(* Whatever state a frame finds the receiver in, feed() yields that frame  *)
(* last and is ready for the next: for every INFO field and every decoder  *)
(* state, not only the few a run interrupts.                               *)
THEOREM DecoderSelfHeals == InfoSpec => []SelfHeals
<1>1. InfoIsOctets => SelfHeals
  <2> SUFFICES ASSUME InfoIsOctets, NEW d \in Interrupted
               PROVE  LET fed == Feed(d, Encode(info))
                      IN  /\ Len(fed.frames) \in 1..2
                          /\ fed.frames[Len(fed.frames)] = Intact
                          /\ fed.decoder = [buf |-> <<>>, in_frame |-> TRUE, esc |-> FALSE]
    BY DEF SelfHeals
  <2>1. d \in Decoder BY WireFormatAssumption
  <2> QED BY <2>1, Heals DEF InfoIsOctets, Intact, InFrame
<1> QED BY <1>1, WireFormatInvariant, PTL

(* decode() loses nothing: an INFO field it accepts is the one encode()    *)
(* makes of the message it returns.                                        *)
THEOREM CodecIsCanonical == InfoSpec => []Canonical
<1>1. InfoIsOctets => Canonical BY DecodesExactly DEF InfoIsOctets, Canonical
<1> QED BY <1>1, WireFormatInvariant, PTL

-----------------------------------------------------------------------------
(* A run of octets fed in two parts.                                       *)
LEMMA FeedConcat ==
  ASSUME NEW d \in Decoder, NEW s \in Seq(Octet), NEW t \in Seq(Octet)
  PROVE  /\ Feed(d, s) \in Feeding /\ Feed(Feed(d, s).decoder, t) \in Feeding
         /\ Feed(d, s \o t) =
              [decoder |-> Feed(Feed(d, s).decoder, t).decoder,
               frames  |-> Feed(d, s).frames \o Feed(Feed(d, s).decoder, t).frames]
<1> DEFINE f == Feed(d, s)
           d1 == f.decoder
           Fine(q) == Feed(d, s \o q) = [decoder |-> Feed(d1, q).decoder,
                                         frames  |-> f.frames \o Feed(d1, q).frames]
           T == {q \in Seq(Octet) : Fine(q)}
<1>0. 0 \in Octet BY DEF Octet
<1>1. f \in Feeding BY <1>0, FeedNext
<1>2. d1 \in Decoder /\ f.frames \in Seq(Frame) BY <1>1 DEF Feeding
<1> HIDE DEF f, d1
<1>3. \A q \in Seq(Octet) : Feed(d1, q) \in Feeding BY <1>0, <1>2, FeedNext
<1>4. <<>> \in Seq(Octet) /\ Fine(<<>>)
  <2>1. <<>> \in Seq(Octet) BY EmptySeq
  <2>2. s \o <<>> = s BY ConcatEmptySeq
  <2>3. Feed(d1, <<>>) = [decoder |-> d1, frames |-> <<>>] BY <1>2, FeedNone DEF Fresh
  <2>4. f.frames \o <<>> = f.frames BY <1>2, ConcatEmptySeq
  <2>5. f = [decoder |-> d1, frames |-> f.frames] BY <1>1 DEF Feeding, d1
  <2> DEFINE e == Feed(d1, <<>>)
  <2>6. e.decoder = d1 /\ e.frames = <<>> BY <2>3
  <2>7. Feed(d, s \o <<>>) = f BY <2>2 DEF f
  <2>8. Feed(d, s \o <<>>) = [decoder |-> e.decoder, frames |-> f.frames \o e.frames]
    <3> HIDE DEF e
    <3>1. f.frames \o e.frames = f.frames BY <2>4, <2>6
    <3> QED BY <2>5, <2>6, <2>7, <3>1
  <2> QED BY <2>1, <2>8
<1>5. ASSUME NEW q \in Seq(Octet), NEW b \in Octet, Fine(q) PROVE Fine(Append(q, b))
  <2> DEFINE g == Feed(d1, q)
             more == FramesAfter(g.decoder, b)
  <2>1. s \o Append(q, b) = Append(s \o q, b) /\ s \o q \in Seq(Octet)
    <3>1. s \o q \in Seq(Octet) BY ConcatProperties
    <3>2. <<b>> \in Seq(Octet) OBVIOUS
    <3>3. Append(q, b) = q \o <<b>> /\ Append(s \o q, b) = (s \o q) \o <<b>>
      BY <3>1, AppendIsConcat
    <3> QED BY <3>1, <3>2, <3>3, ConcatAssociative
  <2>2. Feed(d, Append(s \o q, b)) = FeedOne(Feed(d, s \o q), b) BY <2>1, FeedNext
  <2>3. Feed(d1, Append(q, b)) = FeedOne(g, b) BY <1>2, FeedNext
  <2>4. Feed(d, s \o q) = [decoder |-> g.decoder, frames |-> f.frames \o g.frames] BY <1>5
  <2>5. g.decoder \in Decoder /\ g.frames \in Seq(Frame) BY <1>3 DEF Feeding
  <2>6. more \in Seq(Frame) BY <2>5, DecoderFacts
  <2> HIDE DEF g, more
  <2>7. FeedOne(g, b) = [decoder |-> DecoderAfter(g.decoder, b), frames |-> g.frames \o more]
    BY DEF FeedOne, more
  <2>8. FeedOne(Feed(d, s \o q), b)
          = [decoder |-> DecoderAfter(g.decoder, b), frames |-> (f.frames \o g.frames) \o more]
    BY <2>4 DEF FeedOne, more
  <2>9. (f.frames \o g.frames) \o more = f.frames \o (g.frames \o more)
    <3> DEFINE x == f.frames
               y == g.frames
    <3>1. x \in Seq(Frame) /\ y \in Seq(Frame) BY <1>2, <2>5
    <3> HIDE DEF x, y
    <3>2. (x \o y) \o more = x \o (y \o more) BY <2>6, <3>1, ConcatAssociative
    <3> QED BY <3>2 DEF x, y
  <2> QED BY <2>1, <2>2, <2>3, <2>7, <2>8, <2>9
<1> HIDE DEF Fine
<1>6. \A q \in Seq(Octet) : q \in T
  <2>1. <<>> \in T BY <1>4
  <2>2. \A q \in Seq(Octet) : \A b \in Octet : q \in T => Append(q, b) \in T
    BY <1>5, AppendElements
  <2> HIDE DEF T
  <2> QED BY <2>1, <2>2, SeqInduction
<1> QED BY <1>1, <1>3, <1>6 DEF T, Fine, f, d1

(* FeedConcat, field by field.                                             *)
LEMMA FeedParts ==
  ASSUME NEW d \in Decoder, NEW s \in Seq(Octet), NEW t \in Seq(Octet)
  PROVE  /\ Feed(d, s \o t).decoder = Feed(Feed(d, s).decoder, t).decoder
         /\ Feed(d, s \o t).frames = Feed(d, s).frames \o Feed(Feed(d, s).decoder, t).frames
<1> DEFINE h == Feed(d, s \o t)
           x == Feed(Feed(d, s).decoder, t).decoder
           y == Feed(d, s).frames \o Feed(Feed(d, s).decoder, t).frames
<1>1. h = [decoder |-> x, frames |-> y] BY FeedConcat
<1> HIDE DEF h, x, y
<1>2. h.decoder = x /\ h.frames = y BY <1>1
<1> QED BY <1>2 DEF h, x, y

(* One octet first.                                                        *)
LEMMA FeedFirst ==
  ASSUME NEW d \in Decoder, NEW b \in Octet, NEW t \in Seq(Octet)
  PROVE  /\ <<b>> \in Seq(Octet) /\ DecoderAfter(d, b) \in Decoder
         /\ Feed(d, <<b>>) = [decoder |-> DecoderAfter(d, b), frames |-> FramesAfter(d, b)]
         /\ Feed(d, <<b>> \o t) =
              [decoder |-> Feed(DecoderAfter(d, b), t).decoder,
               frames  |-> FramesAfter(d, b) \o Feed(DecoderAfter(d, b), t).frames]
<1>1. <<>> \in Seq(Octet) /\ <<b>> \in Seq(Octet) BY EmptySeq
<1>2. Append(<<>>, b) = <<b>>
  <2>1. Append(<<>>, b) = <<>> \o <<b>> BY <1>1, AppendIsConcat
  <2> QED BY <1>1, <2>1, ConcatEmptySeq
<1>3. Feed(d, <<b>>) = FeedOne(Fresh(d), b) BY <1>1, <1>2, FeedNone, FeedNext
<1>4. FramesAfter(d, b) \in Seq(Frame) /\ DecoderAfter(d, b) \in Decoder BY DecoderFacts
<1>5. <<>> \o FramesAfter(d, b) = FramesAfter(d, b) BY <1>4, ConcatEmptySeq
<1>6. Feed(d, <<b>>) = [decoder |-> DecoderAfter(d, b), frames |-> FramesAfter(d, b)]
  BY <1>3, <1>5 DEF FeedOne, Fresh
<1> DEFINE one == <<b>>
<1>7. one \in Seq(Octet) /\ Feed(d, one).decoder = DecoderAfter(d, b)
      /\ Feed(d, one).frames = FramesAfter(d, b)
  BY <1>1, <1>6
<1> HIDE DEF one
<1>8. Feed(d, one \o t) = [decoder |-> Feed(DecoderAfter(d, b), t).decoder,
                           frames |-> FramesAfter(d, b) \o Feed(DecoderAfter(d, b), t).frames]
  BY <1>7, FeedConcat
<1> QED BY <1>1, <1>4, <1>6, <1>8 DEF one

-----------------------------------------------------------------------------
(* Counting the results of next().                                         *)
Outcomes == {Wrap(frame) : frame \in Frame}

(* Results counted in two parts.                                           *)
LEMMA CountFacts ==
  ASSUME NEW S, NEW s \in Seq(S), NEW t \in Seq(S), NEW ok
  PROVE  /\ Count(s, ok) \in Nat /\ Count(s, ok) <= Len(s)
         /\ Count(s \o t, ok) = Count(s, ok) + Count(t, ok)
<1> DEFINE m == Len(s)
           n == Len(t)
           A == {i \in 1..m : s[i].ok = ok}
           B == {i \in 1..n : t[i].ok = ok}
           C == {i \in (m + 1)..(m + n) : t[i - m].ok = ok}
           u == s \o t
<1>1. /\ m \in Nat /\ n \in Nat /\ DOMAIN s = 1..m /\ DOMAIN t = 1..n BY SeqElements
<1>2. /\ u \in Seq(S) /\ Len(u) = m + n /\ DOMAIN u = 1..(m + n)
      /\ \A i \in 1..(m + n) : u[i] = IF i <= m THEN s[i] ELSE t[i - m]
  <2>1. u \in Seq(S) /\ Len(u) = m + n
        /\ \A i \in 1..(m + n) : u[i] = IF i <= m THEN s[i] ELSE t[i - m]
    BY ConcatProperties
  <2> HIDE DEF u
  <2> QED BY <2>1, SeqElements
<1> HIDE DEF u, m, n
<1>3. IsFiniteSet(A) /\ Cardinality(A) \in Nat /\ Cardinality(A) <= m
  <2>1. IsFiniteSet(1..m) /\ Cardinality(1..m) = m BY <1>1, FS_Interval
  <2> QED BY <2>1, FS_Subset, FS_CardinalityType
<1>4. IsFiniteSet(B) /\ Cardinality(B) \in Nat
  <2>1. IsFiniteSet(1..n) BY <1>1, FS_Interval
  <2> QED BY <2>1, FS_Subset, FS_CardinalityType
<1>5. IsFiniteSet(C) /\ Cardinality(C) = Cardinality(B)
  <2> DEFINE f == [i \in B |-> i + m]
  <2>1. f \in Bijection(B, C)
    <3>1. f \in [B -> C]
      <4> SUFFICES ASSUME NEW i \in B PROVE i + m \in C OBVIOUS
      <4>1. i \in 1..n /\ t[i].ok = ok OBVIOUS
      <4>2. i + m \in (m + 1)..(m + n) /\ (i + m) - m = i BY <1>1, <4>1
      <4> QED BY <4>1, <4>2
    <3>2. \A i, j \in B : f[i] = f[j] => i = j BY <1>1
    <3>3. ASSUME NEW c \in C PROVE \E i \in B : f[i] = c
      <4>1. c - m \in 1..n /\ t[c - m].ok = ok /\ (c - m) + m = c BY <1>1
      <4>2. c - m \in B BY <4>1
      <4> QED BY <4>1, <4>2
    <3> HIDE DEF B, C, f
    <3> QED BY <3>1, <3>2, <3>3, Fun_IsBij
  <2> HIDE DEF f, B, C
  <2>2. ExistsBijection(B, C) BY <2>1 DEF ExistsBijection
  <2> QED BY <1>4, <2>2, FS_Bijection
<1>6. {i \in 1..(m + n) : u[i].ok = ok} = A \cup C
  <2>1. ASSUME NEW i \in 1..(m + n) PROVE u[i].ok = ok <=> i \in A \cup C
    <3>1. CASE i <= m
      <4>1. i \in 1..m /\ i \notin (m + 1)..(m + n) BY <1>1, <3>1
      <4> QED BY <1>2, <3>1, <4>1
    <3>2. CASE ~(i <= m)
      <4>1. i \notin 1..m /\ i \in (m + 1)..(m + n) BY <1>1, <3>2
      <4> QED BY <1>2, <3>2, <4>1
    <3> QED BY <3>1, <3>2
  <2>2. A \cup C \subseteq 1..(m + n) BY <1>1
  <2> QED BY <2>1, <2>2
<1>7. A \cap C = {} BY <1>1
<1>8. Count(s, ok) = Cardinality(A) /\ Count(t, ok) = Cardinality(B) BY <1>1 DEF Count
<1>9. Count(u, ok) = Cardinality(A \cup C) BY <1>2, <1>6 DEF Count
<1> HIDE DEF A, B, C
<1>10. Cardinality(A \cup C) = Cardinality(A) + Cardinality(C) - Cardinality(A \cap C)
  BY <1>3, <1>5, FS_Union
<1>11. Cardinality(A \cap C) = 0 BY <1>7, FS_EmptySet
<1> QED BY <1>3, <1>4, <1>5, <1>8, <1>9, <1>10, <1>11 DEF u, m

(* How many of some frames are reported as messages, or as bad frames.     *)
CountFrames(fs, ok) == Count(WrapEach(fs), ok)

(* Frames wrapped one by one.                                              *)
LEMMA WrapFacts ==
  ASSUME NEW a \in Seq(Frame)
  PROVE  WrapEach(a) \in Seq(Outcomes) /\ Len(WrapEach(a)) = Len(a)
         /\ \A i \in 1..Len(a) : WrapEach(a)[i] = Wrap(a[i])
<1>1. Len(a) \in Nat /\ DOMAIN a = 1..Len(a) /\ \A i \in 1..Len(a) : a[i] \in Frame
  BY SeqElements
<1>2. \A i \in 1..Len(a) : Wrap(a[i]) \in Outcomes BY <1>1 DEF Outcomes
<1>3. WrapEach(a) = [i \in 1..Len(a) |-> Wrap(a[i])] BY <1>1 DEF WrapEach
<1>4. WrapEach(a) \in [1..Len(a) -> Outcomes] BY <1>2, <1>3
<1> QED BY <1>1, <1>3, <1>4, FunctionIsSeq

(* Frames wrapped in two parts.                                            *)
LEMMA WrapConcat ==
  ASSUME NEW a \in Seq(Frame), NEW b \in Seq(Frame)
  PROVE  WrapEach(a \o b) = WrapEach(a) \o WrapEach(b)
<1> DEFINE c == a \o b
           u == WrapEach(a)
           v == WrapEach(b)
           w == WrapEach(c)
<1>1. /\ c \in Seq(Frame) /\ Len(c) = Len(a) + Len(b)
      /\ \A i \in 1..(Len(a) + Len(b)) : c[i] = IF i <= Len(a) THEN a[i] ELSE b[i - Len(a)]
  BY ConcatProperties
<1>2. Len(a) \in Nat /\ Len(b) \in Nat BY LenProperties
<1> HIDE DEF c
<1>3. /\ u \in Seq(Outcomes) /\ Len(u) = Len(a) /\ \A i \in 1..Len(a) : u[i] = Wrap(a[i])
      /\ v \in Seq(Outcomes) /\ Len(v) = Len(b) /\ \A i \in 1..Len(b) : v[i] = Wrap(b[i])
      /\ w \in Seq(Outcomes) /\ Len(w) = Len(c) /\ \A i \in 1..Len(c) : w[i] = Wrap(c[i])
  BY <1>1, WrapFacts
<1> HIDE DEF u, v, w
<1>4. \A i \in 1..Len(u) : u[i] = w[i]
  <2> SUFFICES ASSUME NEW i \in 1..Len(u) PROVE u[i] = w[i] OBVIOUS
  <2>1. i \in 1..Len(a) /\ i \in 1..(Len(a) + Len(b)) /\ i <= Len(a) BY <1>2, <1>3
  <2> QED BY <1>1, <1>3, <2>1
<1>5. \A i \in 1..Len(v) : v[i] = w[Len(u) + i]
  <2> SUFFICES ASSUME NEW i \in 1..Len(v) PROVE v[i] = w[Len(u) + i] OBVIOUS
  <2>1. i \in 1..Len(b) /\ Len(a) + i \in 1..(Len(a) + Len(b)) /\ ~(Len(a) + i <= Len(a))
        /\ (Len(a) + i) - Len(a) = i
    BY <1>2, <1>3
  <2> QED BY <1>1, <1>3, <2>1
<1>6. Len(w) = Len(u) + Len(v) BY <1>1, <1>3
<1>7. u \o v = w BY <1>3, <1>4, <1>5, <1>6, TwoParts
<1> QED BY <1>7 DEF c, u, v, w

(* Frames counted in two parts.                                            *)
LEMMA CountFramesFacts ==
  ASSUME NEW a \in Seq(Frame), NEW b \in Seq(Frame), NEW ok
  PROVE  /\ CountFrames(a, ok) \in Nat /\ CountFrames(a, ok) <= Len(a)
         /\ CountFrames(a \o b, ok) = CountFrames(a, ok) + CountFrames(b, ok)
<1> DEFINE u == WrapEach(a)
           v == WrapEach(b)
<1>1. u \in Seq(Outcomes) /\ Len(u) = Len(a) /\ v \in Seq(Outcomes) BY WrapFacts
<1>2. WrapEach(a \o b) = u \o v BY WrapConcat
<1> HIDE DEF u, v
<1>3. Count(u, ok) \in Nat /\ Count(u, ok) <= Len(u) /\ Count(u \o v, ok) = Count(u, ok) + Count(v, ok)
  BY <1>1, CountFacts
<1> QED BY <1>1, <1>2, <1>3 DEF CountFrames, u, v

(* Nothing counts nothing.                                                 *)
LEMMA CountNone ==
  ASSUME NEW ok
  PROVE  /\ Count(<<>>, ok) = 0 /\ CountFrames(<<>>, ok) = 0
         /\ <<>> \in Seq(Frame) /\ <<>> \in Seq(Outcomes) /\ <<>> \in Seq(Octet)
<1>1. <<>> \in Seq(Frame) /\ <<>> \in Seq(Outcomes) /\ <<>> \in Seq(Octet) /\ Len(<<>>) = 0
  BY EmptySeq
<1>2. Count(<<>>, ok) \in Nat /\ Count(<<>>, ok) <= 0 BY <1>1, CountFacts
<1>3. CountFrames(<<>>, ok) \in Nat /\ CountFrames(<<>>, ok) <= 0 BY <1>1, CountFramesFacts
<1> QED BY <1>1, <1>2, <1>3

-----------------------------------------------------------------------------
(* What one disturbance can do.                                            *)

(* The frames that come out of d when it is fed octets.                    *)
Yield(d, octets, ok) == CountFrames(Feed(d, octets).frames, ok)

(* What comes out of octets fed in two parts.                              *)
LEMMA YieldConcat ==
  ASSUME NEW d \in Decoder, NEW s \in Seq(Octet), NEW t \in Seq(Octet), NEW ok
  PROVE  /\ Feed(d, s).decoder \in Decoder /\ Yield(d, s, ok) \in Nat
         /\ Yield(Feed(d, s).decoder, t, ok) \in Nat
         /\ Yield(d, s \o t, ok) = Yield(d, s, ok) + Yield(Feed(d, s).decoder, t, ok)
<1> DEFINE f == Feed(d, s)
           g == Feed(f.decoder, t)
<1>1. f \in Feeding /\ g \in Feeding BY FeedConcat
<1>4. Feed(d, s \o t).frames = f.frames \o g.frames BY FeedParts
<1> HIDE DEF f, g
<1>2. f.decoder \in Decoder /\ f.frames \in Seq(Frame) /\ g.frames \in Seq(Frame)
  BY <1>1 DEF Feeding
<1>3. CountFrames(f.frames, ok) \in Nat /\ CountFrames(g.frames, ok) \in Nat
      /\ CountFrames(f.frames \o g.frames, ok)
           = CountFrames(f.frames, ok) + CountFrames(g.frames, ok)
  BY <1>2, CountFramesFacts
<1> QED BY <1>2, <1>3, <1>4 DEF Yield, f, g

(* One octet more, and one octet first.                                    *)
LEMMA YieldOctet ==
  ASSUME NEW d \in Decoder, NEW b \in Octet, NEW ok
  PROVE  /\ Feed(d, <<b>>).decoder = DecoderAfter(d, b)
         /\ Yield(d, <<b>>, ok) = CountFrames(FramesAfter(d, b), ok)
         /\ Yield(d, <<b>>, ok) \in 0..1
         /\ b # FLAG => Yield(d, <<b>>, ok) = 0
<1> DEFINE f == Feed(d, <<b>>)
           c == CountFrames(FramesAfter(d, b), ok)
<1>1. f = [decoder |-> DecoderAfter(d, b), frames |-> FramesAfter(d, b)]
  <2>1. <<>> \in Seq(Octet) BY EmptySeq
  <2> QED BY <2>1, FeedFirst
<1>2. f.decoder = DecoderAfter(d, b) /\ f.frames = FramesAfter(d, b) BY <1>1
<1>3. FramesAfter(d, b) \in Seq(Frame) /\ Len(FramesAfter(d, b)) <= 1 BY DecoderFacts
<1>4. c \in Nat /\ c <= 1
  <2> DEFINE fs == FramesAfter(d, b)
  <2>1. fs \in Seq(Frame) /\ Len(fs) <= 1 /\ Len(fs) \in Nat BY <1>3, LenProperties
  <2> HIDE DEF fs
  <2>2. CountFrames(fs, ok) \in Nat /\ CountFrames(fs, ok) <= Len(fs) BY <2>1, CountFramesFacts
  <2> QED BY <2>1, <2>2 DEF fs
<1>5. b # FLAG => FramesAfter(d, b) = <<>> BY DEF FramesAfter
<1>6. CountFrames(<<>>, ok) = 0 BY CountNone
<1> HIDE DEF f
<1>7. Yield(d, <<b>>, ok) = c BY <1>2 DEF Yield, f
<1> QED BY <1>2, <1>4, <1>5, <1>6, <1>7 DEF f

(* After a flag a decoder has forgotten what came before.                  *)
LEMMA FlagResets ==
  ASSUME NEW d \in Decoder
  PROVE  DecoderAfter(d, FLAG) = InFrame(<<>>)
BY DEF DecoderAfter, InFrame, FLAG, ESC

(* Two receivers that hear the same octets report the same frames, but for *)
(* the first.                                                              *)
LEMMA ReceiversAgree ==
  ASSUME NEW d1 \in Decoder, NEW d2 \in Decoder, NEW t \in Seq(Octet), NEW ok
  PROVE  Yield(d1, t, ok) <= Yield(d2, t, ok) + 1
<1> DEFINE y1(q) == Yield(d1, q, ok)
           y2(q) == Yield(d2, q, ok)
           e1(q) == Feed(d1, q).decoder
           e2(q) == Feed(d2, q).decoder
           Fine(q) == \/ y1(q) = 0 /\ y2(q) = 0
                      \/ e1(q) = e2(q) /\ y1(q) <= y2(q) + 1
           T == {q \in Seq(Octet) : Fine(q)}
<1>1. <<>> \in Seq(Octet) /\ Fine(<<>>)
  <2>1. <<>> \in Seq(Octet) BY EmptySeq
  <2>2. Feed(d1, <<>>).frames = <<>> /\ Feed(d2, <<>>).frames = <<>>
    BY FeedNone DEF Fresh
  <2>3. y1(<<>>) = 0 /\ y2(<<>>) = 0 BY <2>2, CountNone DEF Yield
  <2> QED BY <2>1, <2>3
<1>2. ASSUME NEW q \in Seq(Octet), NEW b \in Octet, Fine(q) PROVE Fine(Append(q, b))
  <2> DEFINE one == <<b>>
             x1 == Yield(e1(q), one, ok)
             x2 == Yield(e2(q), one, ok)
  <2>1. Append(q, b) = q \o one /\ one \in Seq(Octet) BY AppendIsConcat
  <2>2. /\ e1(q) \in Decoder /\ y1(q) \in Nat /\ y1(q \o one) = y1(q) + x1
        /\ e2(q) \in Decoder /\ y2(q) \in Nat /\ y2(q \o one) = y2(q) + x2
    <3> HIDE DEF one
    <3> QED BY <2>1, YieldConcat
  <2>3. e1(q \o one) = Feed(e1(q), one).decoder /\ e2(q \o one) = Feed(e2(q), one).decoder
    <3> HIDE DEF one
    <3> QED BY <2>1, FeedParts
  <2>4. /\ Feed(e1(q), one).decoder = DecoderAfter(e1(q), b) /\ x1 \in 0..1
        /\ Feed(e2(q), one).decoder = DecoderAfter(e2(q), b) /\ x2 \in 0..1
        /\ b # FLAG => x1 = 0 /\ x2 = 0
    <3> HIDE DEF e1, e2
    <3> QED BY <2>2, YieldOctet
  <2>5. b = FLAG => DecoderAfter(e1(q), b) = DecoderAfter(e2(q), b)
    <3> HIDE DEF e1, e2
    <3> QED BY <2>2, FlagResets
  <2>6. e1(q) = e2(q) => x1 = x2 OBVIOUS
  <2> DEFINE r == q \o one
  <2>7. Fine(r)
    <3> HIDE DEF e1, e2, y1, y2, x1, x2, one, r
    <3>1. /\ y1(r) = y1(q) + x1 /\ y2(r) = y2(q) + x2
          /\ e1(r) = DecoderAfter(e1(q), b) /\ e2(r) = DecoderAfter(e2(q), b)
      BY <2>2, <2>3, <2>4 DEF r
    <3>2. CASE y1(q) = 0 /\ y2(q) = 0
      <4>1. CASE b = FLAG BY <2>4, <2>5, <3>1, <3>2, <4>1
      <4>2. CASE b # FLAG BY <2>4, <3>1, <3>2, <4>2
      <4> QED BY <4>1, <4>2
    <3>3. CASE e1(q) = e2(q) /\ y1(q) <= y2(q) + 1
      BY <2>2, <2>4, <2>6, <3>1, <3>3
    <3> QED BY <1>2, <3>2, <3>3
  <2> QED BY <2>1, <2>7 DEF r
<1>3. \A q \in Seq(Octet) : q \in T
  <2> HIDE DEF Fine
  <2>1. <<>> \in T BY <1>1
  <2>2. \A q \in Seq(Octet) : \A b \in Octet : q \in T => Append(q, b) \in T
    BY <1>2, AppendElements
  <2> HIDE DEF T
  <2> QED BY <2>1, <2>2, SeqInduction
<1>4. Fine(t) BY <1>3
<1>5. <<>> \in Seq(Octet) BY EmptySeq
<1>6. y1(t) \in Nat /\ y2(t) \in Nat BY <1>5, YieldConcat
<1> QED BY <1>4, <1>6

(* One octet in the place of some others makes at most two bad frames, or  *)
(* forges two.                                                             *)
LEMMA Disturbed ==
  ASSUME NEW d \in Decoder, NEW s \in Seq(Octet), NEW t \in Seq(Octet),
         NEW x \in Seq(Octet), NEW y \in Seq(Octet), NEW ok,
         x = <<>> \/ \E b \in Octet : x = <<b>>
  PROVE  Yield(d, s \o (x \o t), ok) <= Yield(d, s \o (y \o t), ok) + 2
<1> DEFINE e == Feed(d, s).decoder
           ex == Feed(e, x).decoder
           ey == Feed(e, y).decoder
<1>1. x \o t \in Seq(Octet) /\ y \o t \in Seq(Octet) BY ConcatProperties
<1>2. /\ e \in Decoder /\ Yield(d, s, ok) \in Nat
      /\ Yield(d, s \o (x \o t), ok) = Yield(d, s, ok) + Yield(e, x \o t, ok)
      /\ Yield(d, s \o (y \o t), ok) = Yield(d, s, ok) + Yield(e, y \o t, ok)
  <2> DEFINE p == x \o t
             q == y \o t
  <2>1. p \in Seq(Octet) /\ q \in Seq(Octet) BY <1>1
  <2> HIDE DEF p, q
  <2>2. /\ e \in Decoder /\ Yield(d, s, ok) \in Nat
        /\ Yield(d, s \o p, ok) = Yield(d, s, ok) + Yield(e, p, ok)
    BY <2>1, YieldConcat
  <2>3. Yield(d, s \o q, ok) = Yield(d, s, ok) + Yield(e, q, ok) BY <2>1, YieldConcat
  <2> QED BY <2>2, <2>3 DEF p, q
<1> HIDE DEF e
<1>3. /\ ex \in Decoder /\ Yield(e, x, ok) \in Nat /\ Yield(ex, t, ok) \in Nat
      /\ Yield(e, x \o t, ok) = Yield(e, x, ok) + Yield(ex, t, ok)
      /\ ey \in Decoder /\ Yield(e, y, ok) \in Nat /\ Yield(ey, t, ok) \in Nat
      /\ Yield(e, y \o t, ok) = Yield(e, y, ok) + Yield(ey, t, ok)
  BY <1>2, YieldConcat
<1>4. Yield(e, x, ok) <= 1
  <2>1. CASE x = <<>>
    <3>1. Feed(e, <<>>).frames = <<>> BY <1>2, FeedNone DEF Fresh
    <3>2. Yield(e, <<>>, ok) = 0 BY <3>1, CountNone DEF Yield
    <3> QED BY <2>1, <3>2
  <2>2. CASE \E b \in Octet : x = <<b>>
    <3>1. PICK b \in Octet : x = <<b>> BY <2>2
    <3>2. Yield(e, <<b>>, ok) \in 0..1 BY <1>2, YieldOctet
    <3> QED BY <3>1, <3>2
  <2> QED BY <2>1, <2>2
<1> HIDE DEF ex, ey
<1>5. Yield(ex, t, ok) <= Yield(ey, t, ok) + 1 BY <1>3, ReceiversAgree
<1> QED BY <1>2, <1>3, <1>4, <1>5

-----------------------------------------------------------------------------
(* The framed link: types.                                                 *)
LinkTypes ==
  /\ setting \in Settings
  /\ out \in Seq(Octet) /\ line \in Seq(Octet) /\ chunk \in Seq(Octet)
  /\ closed \in BOOLEAN /\ ended \in BOOLEAN
  /\ noise \in Nat /\ hurt \in Nat /\ intact \in Nat
  /\ decoder \in Decoder /\ frames \in Seq(Frame)
  /\ inbox \in Seq(Outcomes) /\ got \in Seq(Outcomes)

(* The link's types hold before anything is sent.                          *)
LEMMA LinkTypesInit ==
  ASSUME Init
  PROVE  LinkTypes
<1>1. <<>> \in Seq(Octet) /\ <<>> \in Seq(Frame) /\ <<>> \in Seq(Outcomes) BY EmptySeq
<1>2. NewDecoder \in Decoder BY <1>1 DEF NewDecoder, Decoder
<1> QED BY <1>1, <1>2 DEF Init, LinkTypes

(* What may be chosen.                                                     *)
LEMMA SettingFacts ==
  ASSUME setting \in Settings
  PROVE  Messages \subseteq Message /\ NoiseOctets \subseteq Octet /\ ReadSize \in Nat \ {0}
BY FramedLinkAssumption DEF Messages, NoiseOctets, ReadSize

(* send() puts octets on the line that decode to the message.              *)
LEMMA SentOctets ==
  ASSUME LinkTypes, NEW m \in Messages
  PROVE  /\ EncodeMessage(m) \in Seq(Octet) /\ Encode(EncodeMessage(m)) \in Seq(Octet)
         /\ Decode(EncodeMessage(m)).ok
<1>1. m \in Message BY SettingFacts DEF LinkTypes
<1>2. EncodeMessage(m) \in Seq(Octet) /\ Decode(EncodeMessage(m)) = Decoded(m)
  BY <1>1, MessagesRoundTrip
<1>3. NewDecoder \in Decoder
  <2>1. <<>> \in Seq(Octet) BY EmptySeq
  <2> QED BY <2>1 DEF NewDecoder, Decoder
<1>4. Encode(EncodeMessage(m)) \in Seq(Octet) BY <1>2, <1>3, Comes
<1> QED BY <1>2, <1>4 DEF Decoded

(* read() takes some octets off the front of the line.                     *)
LEMMA ReadSplits ==
  ASSUME LinkTypes, Read
  PROVE  chunk' \in Seq(Octet) /\ line' \in Seq(Octet) /\ chunk' \o line' = line
<1> DEFINE n == IF Len(line) < ReadSize THEN Len(line) ELSE ReadSize
           k == Len(line)
<1>1. chunk' = SubSeq(line, 1, n) /\ line' = SubSeq(line, n + 1, k) BY DEF Read
<1>2. line \in Seq(Octet) /\ k \in Nat BY LenProperties DEF LinkTypes
<1>3. n \in 0..k BY <1>2, SettingFacts DEF LinkTypes
<1> HIDE DEF n
<1>4. \A i \in 1..k : line[i] \in Octet BY <1>2, ElementOfSeq
<1>5. SubSeq(line, 1, n) \in Seq(Octet)
  <2>1. \A i \in 1..n : line[i] \in Octet BY <1>2, <1>3, <1>4
  <2>2. n \in Int BY <1>3
  <2> QED BY <2>1, <2>2, SubSeqProperties
<1>6. SubSeq(line, n + 1, k) \in Seq(Octet)
  <2> DEFINE m == n + 1
  <2>1. \A i \in m..k : line[i] \in Octet BY <1>2, <1>3, <1>4
  <2>2. m \in Int /\ k \in Int BY <1>2, <1>3
  <2> HIDE DEF m, k
  <2>3. SubSeq(line, m, k) \in Seq(Octet) BY <2>1, <2>2, SubSeqProperties
  <2> QED BY <2>3 DEF m
<1>7. SubSeq(line, 1, n) \o SubSeq(line, n + 1, k) = SubSeq(line, 1, k)
  <2>1. 1 \in 1..(k + 1) /\ n \in (1 - 1)..k /\ k \in n..k BY <1>2, <1>3
  <2> QED BY <1>2, <2>1, ConcatAdjacentSubSeq
<1>8. SubSeq(line, 1, k) = line BY <1>2, SubSeqFull
<1> QED BY <1>1, <1>5, <1>6, <1>7, <1>8

(* No step of sender, line or receiver breaks the types.                   *)
LEMMA LinkTypesStep ==
  ASSUME LinkTypes, [Next]_vars
  PROVE  LinkTypes'
<1> USE DEF senderVars, lineVars, readerVars
<1>0. /\ setting \in Settings
      /\ out \in Seq(Octet) /\ line \in Seq(Octet) /\ chunk \in Seq(Octet)
      /\ closed \in BOOLEAN /\ ended \in BOOLEAN
      /\ noise \in Nat /\ hurt \in Nat /\ intact \in Nat
      /\ decoder \in Decoder /\ frames \in Seq(Frame)
      /\ inbox \in Seq(Outcomes) /\ got \in Seq(Outcomes)
  BY DEF LinkTypes
<1>1. ASSUME NEW m \in Messages, Send(m) PROVE LinkTypes'
  <2>1. out' \in Seq(Octet) /\ hurt' \in Nat BY <1>1, SentOctets DEF Send
  <2> QED BY <1>0, <1>1, <2>1 DEF Send, LinkTypes
<1>2. CASE Close
  <2>1. out' \in Seq(Octet) /\ closed' \in BOOLEAN BY <1>2, EmptySeq DEF Close
  <2> QED BY <1>0, <1>2, <2>1 DEF Close, LinkTypes
<1>3. CASE Carry
  <2>1. line' = Append(line, Head(out)) /\ out' = Tail(out) /\ out # <<>> BY <1>3 DEF Carry
  <2>2. out' \in Seq(Octet) /\ Head(out) \in Octet BY <1>0, <2>1, HeadTailProperties
  <2>3. line' \in Seq(Octet) BY <1>0, <2>1, <2>2, AppendElements
  <2>4. intact' \in Nat BY <1>0, <1>3 DEF Carry
  <2> QED BY <1>0, <1>3, <2>2, <2>3, <2>4 DEF Carry, LinkTypes
<1>4. CASE Noise /\ out' \in Seq(Octet) /\ line' \in Seq(Octet)
  <2>1. noise' \in Nat /\ hurt' \in Nat BY <1>0, <1>4 DEF Noise
  <2> QED BY <1>0, <1>4, <2>1 DEF Noise, LinkTypes
<1>5. CASE Drop
  <2>1. out # <<>> /\ out' = Tail(out) /\ line' = line BY <1>5 DEF Drop
  <2>2. out' \in Seq(Octet) BY <1>0, <2>1, HeadTailProperties
  <2> QED BY <1>0, <1>4, <1>5, <2>1, <2>2 DEF Drop
<1>6. CASE Alter
  <2>1. out # <<>> /\ out' = Tail(out) /\ \E b \in Octet : line' = Append(line, b)
    BY <1>0, <1>6, SettingFacts DEF Alter
  <2>2. out' \in Seq(Octet) BY <1>0, <2>1, HeadTailProperties
  <2>3. line' \in Seq(Octet) BY <1>0, <2>1, AppendElements
  <2> QED BY <1>4, <1>6, <2>2, <2>3 DEF Alter
<1>7. CASE Insert
  <2>1. out' = out /\ \E b \in Octet : line' = Append(line, b)
    BY <1>0, <1>7, SettingFacts DEF Insert
  <2>2. line' \in Seq(Octet) BY <1>0, <2>1, AppendElements
  <2> QED BY <1>0, <1>4, <1>7, <2>1, <2>2 DEF Insert
<1>8. CASE Read
  <2>1. chunk' \in Seq(Octet) /\ line' \in Seq(Octet) BY <1>8, ReadSplits
  <2> QED BY <1>0, <1>8, <2>1 DEF Read, LinkTypes
<1>9. CASE FeedOctet
  <2>1. /\ chunk # <<>> /\ chunk' = Tail(chunk) /\ decoder' = DecoderAfter(decoder, Head(chunk))
        /\ frames' = frames \o FramesAfter(decoder, Head(chunk))
    BY <1>9 DEF FeedOctet
  <2>2. Head(chunk) \in Octet /\ chunk' \in Seq(Octet) BY <1>0, <2>1, HeadTailProperties
  <2>3. /\ DecoderAfter(decoder, Head(chunk)) \in Decoder
        /\ FramesAfter(decoder, Head(chunk)) \in Seq(Frame)
    BY <1>0, <2>2, DecoderFacts
  <2>4. frames' \in Seq(Frame) BY <1>0, <2>1, <2>3, ConcatProperties
  <2> QED BY <1>0, <1>9, <2>1, <2>2, <2>3, <2>4 DEF FeedOctet, LinkTypes
<1>10. CASE FillInbox
  <2>1. inbox' = inbox \o WrapEach(frames) /\ frames' = <<>> BY <1>10 DEF FillInbox
  <2>2. WrapEach(frames) \in Seq(Outcomes) BY <1>0, WrapFacts
  <2>3. inbox' \in Seq(Outcomes) BY <1>0, <2>1, <2>2, ConcatProperties
  <2>4. frames' \in Seq(Frame) BY <2>1, EmptySeq
  <2> QED BY <1>0, <1>10, <2>3, <2>4 DEF FillInbox, LinkTypes
<1>11. CASE Return
  <2>1. inbox # <<>> /\ got' = Append(got, Head(inbox)) /\ inbox' = Tail(inbox)
    BY <1>11 DEF Return
  <2>2. inbox' \in Seq(Outcomes) /\ Head(inbox) \in Outcomes BY <1>0, <2>1, HeadTailProperties
  <2>3. got' \in Seq(Outcomes) BY <1>0, <2>1, <2>2, AppendElements
  <2> QED BY <1>0, <1>11, <2>2, <2>3 DEF Return, LinkTypes
<1>12. CASE AtEof BY <1>0, <1>12 DEF AtEof, LinkTypes
<1>13. CASE UNCHANGED vars BY <1>0, <1>13 DEF vars, LinkTypes
<1> QED BY <1>1, <1>2, <1>3, <1>5, <1>6, <1>7, <1>8, <1>9, <1>10, <1>11, <1>12, <1>13
    DEF Next, Sender, Line, Receiver

-----------------------------------------------------------------------------
(* The framed link: what is handed over, is in the inbox or will come out  *)
(* of octets yet to be fed.                                                *)
Tally(g, i, f, d, octets, ok) ==
  Count(g, ok) + Count(i, ok) + CountFrames(f, ok) + Yield(d, octets, ok)

Held(octets, ok) == Tally(got, inbox, frames, decoder, octets, ok)

(* Two texts of the same octets.                                           *)
LEMMA Regroup ==
  ASSUME NEW a \in Seq(Octet), NEW b \in Seq(Octet), NEW c \in Seq(Octet)
  PROVE  (a \o b) \o c = a \o (b \o c) /\ a \o b \in Seq(Octet) /\ b \o c \in Seq(Octet)
BY ConcatAssociative, ConcatProperties

(* A sequence begins with its head.                                        *)
LEMMA HeadFirst ==
  ASSUME NEW S, NEW s \in Seq(S), s # <<>>
  PROVE  /\ Head(s) \in S /\ <<Head(s)>> \in Seq(S) /\ Tail(s) \in Seq(S)
         /\ s = <<Head(s)>> \o Tail(s)
<1> DEFINE one == <<Head(s)>>
           q == Tail(s)
<1>1. Head(s) \in S /\ q \in Seq(S) BY HeadTailProperties
<1>2. one \in Seq(S) /\ Len(one) = 1 /\ one[1] = s[1] BY <1>1, PairIsConcat, TailElements
<1>3. /\ Len(q) = Len(s) - 1 /\ DOMAIN q = 1..(Len(s) - 1) /\ Len(s) \in Nat
      /\ \A k \in DOMAIN q : q[k] = s[k + 1]
  BY TailElements
<1> HIDE DEF one, q
<1>4. \A i \in 1..Len(one) : one[i] = s[i] BY <1>2
<1>5. \A i \in 1..Len(q) : q[i] = s[Len(one) + i]
  <2> SUFFICES ASSUME NEW i \in 1..Len(q) PROVE q[i] = s[Len(one) + i] OBVIOUS
  <2>1. i \in DOMAIN q /\ Len(one) + i = i + 1 BY <1>2, <1>3
  <2> QED BY <1>3, <2>1
<1>6. Len(s) = Len(one) + Len(q) BY <1>2, <1>3
<1>7. one \o q = s BY <1>1, <1>2, <1>4, <1>5, <1>6, TwoParts
<1> QED BY <1>1, <1>2, <1>7 DEF one, q

(* What the receiver does moves frames along and loses none.               *)
LEMMA ReceiverKeeps ==
  ASSUME LinkTypes, Receiver, NEW e \in Seq(Octet), NEW ok
  PROVE  Tally(got', inbox', frames', decoder', (chunk' \o line') \o e, ok)
           = Held((chunk \o line) \o e, ok)
<1> USE DEF senderVars, lineVars, readerVars
<1>0. /\ out \in Seq(Octet) /\ line \in Seq(Octet) /\ chunk \in Seq(Octet)
      /\ decoder \in Decoder /\ frames \in Seq(Frame)
      /\ inbox \in Seq(Outcomes) /\ got \in Seq(Outcomes)
  BY DEF LinkTypes
<1>1. CASE Read
  <2>1. chunk' \o line' = line BY <1>1, ReadSplits
  <2>2. chunk \o line = line
    <3>1. chunk = <<>> BY <1>1 DEF Read, Reading
    <3> QED BY <1>0, <3>1, ConcatEmptySeq
  <2>3. got' = got /\ inbox' = inbox /\ frames' = frames /\ decoder' = decoder
    BY <1>1 DEF Read
  <2> QED BY <2>1, <2>2, <2>3 DEF Held
<1>2. CASE FeedOctet
  <2> DEFINE b == Head(chunk)
             c == Tail(chunk)
             one == <<b>>
             rest == (c \o line) \o e
             d == DecoderAfter(decoder, b)
             new == FramesAfter(decoder, b)
  <2>1. /\ chunk # <<>> /\ chunk' = c /\ decoder' = d /\ frames' = frames \o new
        /\ line' = line /\ got' = got /\ inbox' = inbox
    BY <1>2 DEF FeedOctet
  <2>2. b \in Octet /\ c \in Seq(Octet) BY <1>0, <2>1, HeadTailProperties
  <2>3. one \in Seq(Octet) /\ chunk = one \o c BY <1>0, <2>1, HeadFirst
  <2>4. d \in Decoder /\ new \in Seq(Frame) BY <1>0, <2>2, DecoderFacts
  <2>5. Feed(decoder, one).decoder = d /\ Yield(decoder, one, ok) = CountFrames(new, ok)
    BY <1>0, <2>2, YieldOctet
  <2> HIDE DEF b, c, one, d, new
  <2>6. rest \in Seq(Octet) /\ (chunk \o line) \o e = one \o rest
    <3>1. (one \o c) \o line = one \o (c \o line) /\ c \o line \in Seq(Octet)
      <4>1. one \in Seq(Octet) /\ c \in Seq(Octet) /\ line \in Seq(Octet)
        BY <1>0, <2>2, <2>3
      <4> QED BY <4>1, Regroup
    <3> DEFINE x == c \o line
    <3>2. x \in Seq(Octet) BY <3>1
    <3> HIDE DEF x
    <3>3. (one \o x) \o e = one \o (x \o e) /\ x \o e \in Seq(Octet) BY <2>3, <3>2, Regroup
    <3> QED BY <2>3, <3>1, <3>3 DEF x
  <2> HIDE DEF rest
  <2>7. Yield(decoder, one \o rest, ok) = CountFrames(new, ok) + Yield(d, rest, ok)
    <3>1. decoder \in Decoder /\ one \in Seq(Octet) /\ rest \in Seq(Octet)
      BY <1>0, <2>3, <2>6
    <3>2. Yield(decoder, one \o rest, ok)
            = Yield(decoder, one, ok) + Yield(Feed(decoder, one).decoder, rest, ok)
      BY <3>1, YieldConcat
    <3> QED BY <3>2, <2>5
  <2>8. CountFrames(frames \o new, ok) = CountFrames(frames, ok) + CountFrames(new, ok)
        /\ CountFrames(frames, ok) \in Nat /\ CountFrames(new, ok) \in Nat
    BY <1>0, <2>4, CountFramesFacts
  <2>9. Yield(d, rest, ok) \in Nat
    <3>1. <<>> \in Seq(Octet) BY EmptySeq
    <3> QED BY <2>4, <2>6, <3>1, YieldConcat
  <2>10. Count(got, ok) \in Nat /\ Count(inbox, ok) \in Nat BY <1>0, CountFacts
  <2>11. (chunk' \o line') \o e = rest BY <2>1 DEF rest
  <2>12. Held((chunk \o line) \o e, ok)
           = Count(got, ok) + Count(inbox, ok) + CountFrames(frames, ok)
               + (CountFrames(new, ok) + Yield(d, rest, ok))
    BY <2>6, <2>7 DEF Held, Tally
  <2>13. Tally(got', inbox', frames', decoder', (chunk' \o line') \o e, ok)
           = Count(got, ok) + Count(inbox, ok)
               + (CountFrames(frames, ok) + CountFrames(new, ok)) + Yield(d, rest, ok)
    BY <2>1, <2>8, <2>11 DEF Tally
  <2> QED BY <2>8, <2>9, <2>10, <2>12, <2>13
<1>3. CASE FillInbox
  <2> DEFINE y == Yield(decoder, (chunk \o line) \o e, ok)
  <2>1. /\ inbox' = inbox \o WrapEach(frames) /\ frames' = <<>>
        /\ chunk' = chunk /\ line' = line /\ decoder' = decoder /\ got' = got
    BY <1>3 DEF FillInbox
  <2>2. WrapEach(frames) \in Seq(Outcomes) BY <1>0, WrapFacts
  <2>3. Count(inbox \o WrapEach(frames), ok) = Count(inbox, ok) + CountFrames(frames, ok)
        /\ Count(inbox, ok) \in Nat /\ CountFrames(frames, ok) \in Nat
    BY <1>0, <2>2, CountFacts DEF CountFrames
  <2>4. CountFrames(<<>>, ok) = 0 BY CountNone
  <2>5. Count(got, ok) \in Nat BY <1>0, CountFacts
  <2>6. y \in Nat
    <3>1. (chunk \o line) \o e \in Seq(Octet) /\ <<>> \in Seq(Octet)
      BY <1>0, ConcatProperties, EmptySeq
    <3> QED BY <1>0, <3>1, YieldConcat
  <2>7. Held((chunk \o line) \o e, ok)
          = Count(got, ok) + Count(inbox, ok) + CountFrames(frames, ok) + y
    BY DEF Held, Tally
  <2>8. Tally(got', inbox', frames', decoder', (chunk' \o line') \o e, ok)
          = Count(got, ok) + (Count(inbox, ok) + CountFrames(frames, ok)) + 0 + y
    BY <2>1, <2>3, <2>4 DEF Tally
  <2> HIDE DEF y
  <2> QED BY <2>3, <2>5, <2>6, <2>7, <2>8
<1>4. CASE Return
  <2> DEFINE r == Head(inbox)
             q == Tail(inbox)
             one == <<r>>
             y == Yield(decoder, (chunk \o line) \o e, ok)
  <2>1. /\ inbox # <<>> /\ got' = Append(got, r) /\ inbox' = q
        /\ chunk' = chunk /\ line' = line /\ decoder' = decoder /\ frames' = frames
    BY <1>4 DEF Return
  <2>2. r \in Outcomes /\ q \in Seq(Outcomes) BY <1>0, <2>1, HeadTailProperties
  <2>3. one \in Seq(Outcomes) /\ inbox = one \o q BY <1>0, <2>1, HeadFirst
  <2>4. Append(got, r) = got \o one BY <1>0, <2>2, AppendIsConcat
  <2> HIDE DEF r, q, one, y
  <2>5. /\ Count(one \o q, ok) = Count(one, ok) + Count(q, ok)
        /\ Count(one, ok) \in Nat /\ Count(q, ok) \in Nat
    BY <2>2, <2>3, CountFacts
  <2>6. Count(got \o one, ok) = Count(got, ok) + Count(one, ok) /\ Count(got, ok) \in Nat
    BY <1>0, <2>3, CountFacts
  <2>7. CountFrames(frames, ok) \in Nat BY <1>0, CountFramesFacts
  <2>8. y \in Nat
    <3>1. (chunk \o line) \o e \in Seq(Octet) /\ <<>> \in Seq(Octet)
      BY <1>0, ConcatProperties, EmptySeq
    <3> QED BY <1>0, <3>1, YieldConcat DEF y
  <2>9. Held((chunk \o line) \o e, ok)
          = Count(got, ok) + (Count(one, ok) + Count(q, ok)) + CountFrames(frames, ok) + y
    BY <2>3, <2>5 DEF Held, Tally, y
  <2>10. Tally(got', inbox', frames', decoder', (chunk' \o line') \o e, ok)
          = (Count(got, ok) + Count(one, ok)) + Count(q, ok) + CountFrames(frames, ok) + y
    BY <2>1, <2>4, <2>6 DEF Tally, y
  <2> QED BY <2>5, <2>6, <2>7, <2>8, <2>9, <2>10
<1>5. CASE AtEof
  <2>1. /\ chunk' = chunk /\ line' = line /\ decoder' = decoder /\ frames' = frames
        /\ got' = got /\ inbox' = inbox
    BY <1>5 DEF AtEof
  <2> QED BY <2>1 DEF Held
<1> QED BY <1>1, <1>2, <1>3, <1>4, <1>5 DEF Receiver

(* What is held of octets and more octets.                                 *)
LEMMA HeldMore ==
  ASSUME LinkTypes, NEW s \in Seq(Octet), NEW t \in Seq(Octet), NEW ok
  PROVE  /\ Held(s, ok) \in Nat /\ Yield(Feed(decoder, s).decoder, t, ok) \in Nat
         /\ Feed(decoder, s).decoder \in Decoder
         /\ Held(s \o t, ok) = Held(s, ok) + Yield(Feed(decoder, s).decoder, t, ok)
         /\ Held(s \o t, ok) >= Held(s, ok)
<1> DEFINE base == Count(got, ok) + Count(inbox, ok) + CountFrames(frames, ok)
           ys == Yield(decoder, s, ok)
           yt == Yield(Feed(decoder, s).decoder, t, ok)
<1>1. decoder \in Decoder /\ frames \in Seq(Frame) /\ inbox \in Seq(Outcomes) /\ got \in Seq(Outcomes)
  BY DEF LinkTypes
<1>2. base \in Nat BY <1>1, CountFacts, CountFramesFacts
<1>3. /\ Feed(decoder, s).decoder \in Decoder /\ ys \in Nat /\ yt \in Nat
      /\ Yield(decoder, s \o t, ok) = ys + yt
  BY <1>1, YieldConcat
<1>4. Held(s \o t, ok) = base + Yield(decoder, s \o t, ok) /\ Held(s, ok) = base + ys
  BY DEF Held, Tally
<1> HIDE DEF base, ys, yt
<1>5. Held(s, ok) \in Nat /\ Held(s \o t, ok) = Held(s, ok) + yt /\ Held(s \o t, ok) >= Held(s, ok)
  BY <1>2, <1>3, <1>4
<1> QED BY <1>3, <1>5 DEF yt

(* A message on its way comes out whole, and opens nothing else than any   *)
(* flag would.                                                             *)
LEMMA SentComes ==
  ASSUME LinkTypes, NEW d \in Decoder, NEW m \in Messages, NEW ok \in BOOLEAN
  PROVE  /\ Feed(d, Encode(EncodeMessage(m))).decoder = InFrame(<<>>)
         /\ Yield(d, Encode(EncodeMessage(m)), ok)
              = Yield(d, <<FLAG>>, ok) + IF ok THEN 1 ELSE 0
<1> DEFINE field == EncodeMessage(m)
           good == GoodFrame(field)
           before == Opened(d).frames
           one == <<good>>
<1>1. field \in Seq(Octet) /\ Decode(field).ok = TRUE BY SentOctets DEF Decoded
<1>2. /\ good \in Frame /\ before \in Seq(Frame)
      /\ Feed(d, Encode(field)) = [decoder |-> InFrame(<<>>), frames |-> Append(before, good)]
  <2> HIDE DEF field
  <2> QED BY <1>1, Comes
<1>3. Wrap(good) = Decode(field) BY DEF Wrap, GoodFrame
<1> HIDE DEF field, good, before
<1>4. Append(before, good) = before \o one /\ one \in Seq(Frame) /\ Len(one) = 1 /\ one[1] = good
  BY <1>2, AppendIsConcat
<1> HIDE DEF one
<1>5. /\ Feed(d, Encode(field)).decoder = InFrame(<<>>)
      /\ Feed(d, Encode(field)).frames = before \o one
  BY <1>2, <1>4
<1>6. CountFrames(one, ok) = IF ok THEN 1 ELSE 0
  <2> DEFINE w == WrapEach(one)
             hits == {i \in DOMAIN w : w[i].ok = ok}
  <2>1. w \in Seq(Outcomes) /\ Len(w) = 1 /\ \A i \in 1..1 : w[i] = Wrap(one[i])
    BY <1>4, WrapFacts
  <2>2. DOMAIN w = 1..1 BY <2>1, SeqElements
  <2>3. \A i \in DOMAIN w : i = 1 BY <2>2
  <2>4. 1 \in DOMAIN w BY <2>2
  <2>5. w[1].ok = TRUE
    <3>1. w[1] = Decode(field) BY <1>3, <1>4, <2>1, <2>4, <2>2
    <3> QED BY <1>1, <3>1
  <2>6. CountFrames(one, ok) = Cardinality(hits) BY DEF CountFrames, Count
  <2> HIDE DEF w
  <2>7. CASE ok = TRUE
    <3>1. hits = {1} BY <2>3, <2>4, <2>5, <2>7
    <3> QED BY <2>6, <2>7, <3>1, FS_Singleton
  <2>8. CASE ok = FALSE
    <3>1. hits = {} BY <2>3, <2>5, <2>8
    <3> QED BY <2>6, <2>8, <3>1, FS_EmptySet
  <2> QED BY <2>7, <2>8
<1>7. CountFrames(before \o one, ok) = CountFrames(before, ok) + CountFrames(one, ok)
  BY <1>2, <1>4, CountFramesFacts
<1>8. Yield(d, <<FLAG>>, ok) = CountFrames(before, ok) BY DEF Yield, before, Opened
<1>9. Yield(d, Encode(field), ok) = CountFrames(before \o one, ok) BY <1>5 DEF Yield
<1> QED BY <1>5, <1>6, <1>7, <1>8, <1>9 DEF field

(* Two flags in a row make no frame.                                       *)
LEMMA IdleFlag ==
  ASSUME NEW ok
  PROVE  /\ InFrame(<<>>) \in Decoder /\ <<FLAG>> \in Seq(Octet)
         /\ Yield(InFrame(<<>>), <<FLAG>>, ok) = 0
<1> DEFINE idle == InFrame(<<>>)
<1>1. <<>> \in Seq(Octet) /\ Len(<<>>) = 0 BY EmptySeq
<1>2. idle \in Decoder BY <1>1 DEF InFrame, Decoder
<1>3. FLAG \in Octet /\ <<FLAG>> \in Seq(Octet) BY DEF FLAG, Octet
<1>4. FramesAfter(idle, FLAG) = <<>>
  BY <1>1 DEF InFrame, FramesAfter, Finish, MIN_LEN
<1> HIDE DEF idle
<1>5. Yield(idle, <<FLAG>>, ok) = CountFrames(FramesAfter(idle, FLAG), ok)
  BY <1>2, <1>3, YieldOctet
<1> QED BY <1>2, <1>3, <1>4, <1>5, CountNone DEF idle

(* An octet that leaves the sender joins the end of the line.              *)
LEMMA LineGrows ==
  ASSUME LinkTypes, NEW b \in Octet
  PROVE  chunk \o Append(line, b) = (chunk \o line) \o <<b>> /\ chunk \o line \in Seq(Octet)
<1> DEFINE one == <<b>>
<1>1. chunk \in Seq(Octet) /\ line \in Seq(Octet) /\ one \in Seq(Octet) BY DEF LinkTypes
<1>2. Append(line, b) = line \o one BY <1>1, AppendIsConcat
<1> HIDE DEF one
<1>3. (chunk \o line) \o one = chunk \o (line \o one) /\ chunk \o line \in Seq(Octet)
  BY <1>1, Regroup
<1> QED BY <1>2, <1>3 DEF one

-----------------------------------------------------------------------------
(* Bad frames: however the octets under way are fed, and a flag after them *)
(* while the sender lives, they make two bad frames at most for each       *)
(* disturbance there has been.  A flag is counted in because the next      *)
(* frame's opening flag closes what a lost closing flag left open.         *)
Ending(c) == IF c THEN <<>> ELSE <<FLAG>>

Debris == Held((chunk \o line) \o (out \o Ending(closed)), FALSE) <= 2 * noise

(* The flag that may follow is octets.                                     *)
LEMMA EndingType ==
  ASSUME NEW c
  PROVE  Ending(c) \in Seq(Octet)
<1>1. <<>> \in Seq(Octet) BY EmptySeq
<1>2. <<FLAG>> \in Seq(Octet) BY DEF FLAG, Octet
<1> QED BY <1>1, <1>2 DEF Ending

(* A receiver out of frame makes no bad frame of a first flag.             *)
LEMMA DebrisInit ==
  ASSUME Init
  PROVE  Debris
<1> DEFINE flag == <<FLAG>>
<1>1. /\ chunk = <<>> /\ line = <<>> /\ out = <<>> /\ ~closed /\ noise = 0
      /\ decoder = NewDecoder /\ frames = <<>> /\ inbox = <<>> /\ got = <<>>
  BY DEF Init
<1>2. flag \in Seq(Octet) /\ <<>> \in Seq(Octet) BY EmptySeq DEF FLAG, Octet
<1>3. NewDecoder \in Decoder BY <1>2 DEF NewDecoder, Decoder
<1> HIDE DEF flag
<1>4. (<<>> \o <<>>) \o (<<>> \o flag) = flag BY <1>2, ConcatEmptySeq
<1>5. Ending(closed) = flag BY <1>1 DEF Ending, flag
<1>6. Yield(NewDecoder, flag, FALSE) = 0
  <2>1. FLAG \in Octet BY DEF FLAG, Octet
  <2>2. Yield(NewDecoder, <<FLAG>>, FALSE) = CountFrames(FramesAfter(NewDecoder, FLAG), FALSE)
    BY <1>3, <2>1, YieldOctet
  <2>3. FramesAfter(NewDecoder, FLAG) = <<>> BY DEF FramesAfter, NewDecoder
  <2> QED BY <2>2, <2>3, CountNone DEF flag
<1>7. Count(<<>>, FALSE) = 0 /\ CountFrames(<<>>, FALSE) = 0 BY CountNone
<1>8. (chunk \o line) \o (out \o Ending(closed)) = flag BY <1>1, <1>4, <1>5
<1>9. Held(flag, FALSE)
        = Count(<<>>, FALSE) + Count(<<>>, FALSE) + CountFrames(<<>>, FALSE)
            + Yield(NewDecoder, flag, FALSE)
  BY <1>1 DEF Held, Tally
<1> DEFINE c == Count(<<>>, FALSE)
           f == CountFrames(<<>>, FALSE)
           y == Yield(NewDecoder, flag, FALSE)
           h == Held(flag, FALSE)
<1>10. h <= 2 * noise
  <2>1. c = 0 /\ f = 0 /\ y = 0 /\ h = c + c + f + y /\ noise = 0 BY <1>1, <1>6, <1>7, <1>9
  <2> HIDE DEF c, f, y, h
  <2> QED BY <2>1
<1> QED BY Zenon, <1>8, <1>10 DEF Debris, h

(* A disturbance puts octets x where y would have come, x being none or    *)
(* one.                                                                    *)
LEMMA HeldDisturbed ==
  ASSUME LinkTypes, NEW s \in Seq(Octet), NEW t \in Seq(Octet),
         NEW x \in Seq(Octet), NEW y \in Seq(Octet), NEW ok,
         x = <<>> \/ \E b \in Octet : x = <<b>>
  PROVE  Held(s \o (x \o t), ok) <= Held(s \o (y \o t), ok) + 2
<1> DEFINE base == Count(got, ok) + Count(inbox, ok) + CountFrames(frames, ok)
           p == s \o (x \o t)
           q == s \o (y \o t)
<1>1. decoder \in Decoder /\ frames \in Seq(Frame) /\ inbox \in Seq(Outcomes) /\ got \in Seq(Outcomes)
  BY DEF LinkTypes
<1>2. base \in Nat BY <1>1, CountFacts, CountFramesFacts
<1>3. Yield(decoder, p, ok) <= Yield(decoder, q, ok) + 2 BY <1>1, Disturbed
<1>4. p \in Seq(Octet) /\ q \in Seq(Octet) /\ <<>> \in Seq(Octet) BY ConcatProperties, EmptySeq
<1> HIDE DEF p, q
<1>5. Yield(decoder, p, ok) \in Nat /\ Yield(decoder, q, ok) \in Nat BY <1>1, <1>4, YieldConcat
<1>6. Held(p, ok) = base + Yield(decoder, p, ok) /\ Held(q, ok) = base + Yield(decoder, q, ok)
  BY DEF Held, Tally
<1> HIDE DEF base
<1>7. Held(p, ok) <= Held(q, ok) + 2 BY <1>2, <1>3, <1>5, <1>6
<1> QED BY <1>7 DEF p, q

Associate(a, b, c) == (a \o b) \o c = a \o (b \o c)

(* Concatenation is associative, as a named fact.                          *)
LEMMA Associates ==
  ASSUME NEW a \in Seq(Octet), NEW b \in Seq(Octet), NEW c \in Seq(Octet)
  PROVE  Associate(a, b, c)
BY Regroup DEF Associate

(* Octets x or y between what was sent before and what is to follow.       *)
Between(s, x, y, a, e) ==
  /\ (y \o a) \o e = y \o (a \o e)
  /\ (s \o x) \o (a \o e) = s \o (x \o (a \o e))
  /\ x \o (a \o e) \in Seq(Octet) /\ y \o (a \o e) \in Seq(Octet)

(* The texts of the same octets the disturbances need.                     *)
LEMMA RegroupMiddle ==
  ASSUME NEW s \in Seq(Octet), NEW x \in Seq(Octet), NEW y \in Seq(Octet),
         NEW a \in Seq(Octet), NEW e \in Seq(Octet)
  PROVE  Between(s, x, y, a, e)
<1> DEFINE t == a \o e
<1>1. t \in Seq(Octet) BY ConcatProperties
<1>2. (y \o a) \o e = y \o t
  <2>1. Associate(y, a, e) BY Associates
  <2> QED BY ONLY <2>1 DEF Associate
<1> HIDE DEF t
<1>3. (s \o x) \o t = s \o (x \o t)
  <2>1. Associate(s, x, t) BY <1>1, Associates
  <2> QED BY ONLY <2>1 DEF Associate
<1>4. x \o t \in Seq(Octet) /\ y \o t \in Seq(Octet) BY <1>1, ConcatProperties
<1> QED BY <1>2, <1>3, <1>4 DEF t, Between

(* The same in the place the link disturbs: between what is on the line    *)
(* and the octets a the sender still has after it.                         *)
LEMMA DebrisDisturbed ==
  ASSUME LinkTypes, Debris, readerVars' = readerVars, closed' = closed, noise' = noise + 1,
         NEW x \in Seq(Octet), NEW y \in Seq(Octet), NEW a \in Seq(Octet),
         x = <<>> \/ \E b \in Octet : x = <<b>>,
         chunk' \o line' = (chunk \o line) \o x, out' = a, out = y \o a
  PROVE  Debris'
<1> DEFINE sent == chunk \o line
           flag == Ending(closed)
           after == a \o flag
<1>1. /\ sent \in Seq(Octet) /\ flag \in Seq(Octet) /\ after \in Seq(Octet) /\ noise \in Nat
  <2>1. chunk \in Seq(Octet) /\ line \in Seq(Octet) /\ noise \in Nat BY DEF LinkTypes
  <2>2. flag \in Seq(Octet) BY EndingType
  <2> HIDE DEF flag
  <2> QED BY <2>1, <2>2, ConcatProperties
<1> HIDE DEF sent, flag
<1>2. /\ (y \o a) \o flag = y \o after /\ (sent \o x) \o after = sent \o (x \o after)
      /\ x \o after \in Seq(Octet) /\ y \o after \in Seq(Octet)
  <2>1. /\ sent \in Seq(Octet) /\ x \in Seq(Octet) /\ y \in Seq(Octet)
        /\ a \in Seq(Octet) /\ flag \in Seq(Octet)
    BY <1>1
  <2>2. Between(sent, x, y, a, flag) BY ONLY <2>1, RegroupMiddle
  <2> QED BY ONLY <2>2 DEF Between
<1>3. (chunk' \o line') \o (out' \o Ending(closed')) = sent \o (x \o after)
  BY <1>2 DEF sent, flag
<1>4. Held(sent \o (y \o after), FALSE) <= 2 * noise BY <1>2 DEF Debris, sent, flag
<1> HIDE DEF after
<1>5. Held(sent \o (x \o after), FALSE) <= Held(sent \o (y \o after), FALSE) + 2 BY <1>1, HeldDisturbed
<1>6. Held(sent \o (x \o after), FALSE) \in Nat /\ Held(sent \o (y \o after), FALSE) \in Nat
  <2> DEFINE p == sent \o (x \o after)
             q == sent \o (y \o after)
  <2>1. p \in Seq(Octet) /\ q \in Seq(Octet) BY <1>1, <1>2, ConcatProperties
  <2>2. <<>> \in Seq(Octet) BY EmptySeq
  <2> HIDE DEF p, q
  <2>3. Held(p, FALSE) \in Nat /\ Held(q, FALSE) \in Nat BY <2>1, <2>2, HeldMore
  <2> QED BY <2>3 DEF p, q
<1> DEFINE hx == Held(sent \o (x \o after), FALSE)
           hy == Held(sent \o (y \o after), FALSE)
<1>7. hx <= 2 * (noise + 1)
  <2>1. hx \in Nat /\ hy \in Nat /\ hx <= hy + 2 /\ hy <= 2 * noise /\ noise \in Nat
    BY <1>1, <1>4, <1>5, <1>6
  <2> HIDE DEF hx, hy
  <2> QED BY <2>1
<1>8. /\ got' = got /\ inbox' = inbox /\ frames' = frames /\ decoder' = decoder
  BY DEF readerVars
<1>9. Tally(got', inbox', frames', decoder', sent \o (x \o after), FALSE) <= 2 * noise'
  BY <1>7, <1>8 DEF Held
<1> QED BY <1>3, <1>9 DEF Debris, Held

(* One step of the proof for a message handed over: it adds no bad frame   *)
(* beyond the one its opening flag may complete, which was counted.        *)
LEMMA SendKeepsDebris ==
  ASSUME LinkTypes, Debris, NEW m \in Messages, Send(m)
  PROVE  Debris'
<1> USE DEF senderVars, lineVars, readerVars
<1> DEFINE sent == chunk \o line
           octets == Encode(EncodeMessage(m))
           flag == <<FLAG>>
           after == octets \o flag
           d == Feed(decoder, sent).decoder
<1>1. /\ ~closed /\ out = <<>> /\ out' = octets /\ closed' = closed /\ noise' = noise
      /\ chunk' = chunk /\ line' = line /\ got' = got /\ inbox' = inbox /\ frames' = frames
      /\ decoder' = decoder
  BY DEF Send
<1>2. chunk \in Seq(Octet) /\ line \in Seq(Octet) BY DEF LinkTypes
<1>3. octets \in Seq(Octet) BY SentOctets
<1>4. flag \in Seq(Octet) BY DEF FLAG, Octet
<1>5. sent \in Seq(Octet) BY <1>2, ConcatProperties
<1> HIDE DEF octets
<1>6. after \in Seq(Octet)
  <2> HIDE DEF flag
  <2> QED BY <1>3, <1>4, ConcatProperties
<1>7. <<>> \o flag = flag BY <1>4, ConcatEmptySeq
<1>8. out \o Ending(closed) = flag /\ out' \o Ending(closed') = after
  BY <1>1, <1>7 DEF Ending
<1>9. d \in Decoder
  <2> HIDE DEF sent
  <2> QED BY <1>5, HeldMore
<1>10. Held(sent \o flag, FALSE) = Held(sent, FALSE) + Yield(d, flag, FALSE)
       /\ Held(sent \o after, FALSE) = Held(sent, FALSE) + Yield(d, after, FALSE)
       /\ Held(sent, FALSE) \in Nat /\ Yield(d, flag, FALSE) \in Nat
  <2> HIDE DEF sent, flag, after
  <2> QED BY <1>4, <1>5, <1>6, HeldMore DEF d
<1> HIDE DEF d
<1>11. Yield(d, octets, FALSE) = Yield(d, flag, FALSE)
       /\ Feed(d, octets).decoder = InFrame(<<>>)
  <2>1. /\ Feed(d, octets).decoder = InFrame(<<>>)
        /\ Yield(d, octets, FALSE) = Yield(d, flag, FALSE) + IF FALSE THEN 1 ELSE 0
    BY <1>9, SentComes DEF octets
  <2> DEFINE y == Yield(d, flag, FALSE)
             z == Yield(d, octets, FALSE)
  <2>2. z = y + (IF FALSE THEN 1 ELSE 0) /\ y \in Nat BY <1>10, <2>1
  <2> HIDE DEF y, z
  <2>3. z = y BY <2>2
  <2> QED BY <2>1, <2>3 DEF y, z
<1>12. Yield(d, after, FALSE) = Yield(d, octets, FALSE) + Yield(InFrame(<<>>), flag, FALSE)
  <2> HIDE DEF flag
  <2> DEFINE bad == FALSE
  <2>1. Yield(d, octets \o flag, bad)
          = Yield(d, octets, bad) + Yield(Feed(d, octets).decoder, flag, bad)
    <3>1. d \in Decoder /\ octets \in Seq(Octet) /\ flag \in Seq(Octet) BY <1>3, <1>4, <1>9
    <3> HIDE DEF bad
    <3> QED BY ONLY <3>1, YieldConcat
  <2> QED BY <1>11, <2>1
<1>13. Yield(InFrame(<<>>), flag, FALSE) = 0 BY IdleFlag
<1> HIDE DEF sent, flag, after
<1>14. Held(sent \o after, FALSE) = Held(sent \o flag, FALSE)
  <2> DEFINE h == Held(sent, FALSE)
             y == Yield(d, flag, FALSE)
             z == Yield(d, after, FALSE)
  <2>1. /\ Held(sent \o flag, FALSE) = h + y /\ Held(sent \o after, FALSE) = h + z
        /\ h \in Nat /\ y \in Nat /\ z = y + 0
    BY <1>10, <1>11, <1>12, <1>13
  <2> HIDE DEF h, y, z
  <2>2. z = y BY <2>1
  <2> QED BY Zenon, <2>1, <2>2
<1>15. Held(sent \o flag, FALSE) <= 2 * noise BY <1>8 DEF Debris, sent
<1>16. Tally(got', inbox', frames', decoder', (chunk' \o line') \o (out' \o Ending(closed')), FALSE)
         <= 2 * noise'
  BY <1>1, <1>8, <1>14, <1>15 DEF Held, sent
<1> QED BY <1>16 DEF Debris, Held

(* Closing drops octets from the end, which can only take frames away.     *)
LEMMA CloseKeepsDebris ==
  ASSUME LinkTypes, Debris, Close
  PROVE  Debris'
<1> USE DEF senderVars, lineVars, readerVars
<1> DEFINE sent == chunk \o line
           after == out \o Ending(closed)
<1>1. /\ closed' = TRUE /\ out' = <<>> /\ noise' = noise
      /\ chunk' = chunk /\ line' = line /\ got' = got /\ inbox' = inbox /\ frames' = frames
      /\ decoder' = decoder
  BY DEF Close
<1>2. /\ chunk \in Seq(Octet) /\ line \in Seq(Octet) /\ out \in Seq(Octet) /\ noise \in Nat
      /\ Ending(closed) \in Seq(Octet) /\ <<>> \in Seq(Octet)
  BY EndingType, EmptySeq DEF LinkTypes
<1>3. sent \in Seq(Octet) /\ after \in Seq(Octet) BY <1>2, ConcatProperties
<1> HIDE DEF sent, after
<1>4. /\ Held(sent \o after, FALSE) >= Held(sent, FALSE)
      /\ Held(sent, FALSE) \in Nat /\ Held(sent \o after, FALSE) \in Nat
  <2>1. /\ Held(sent, FALSE) \in Nat /\ Yield(Feed(decoder, sent).decoder, after, FALSE) \in Nat
        /\ Held(sent \o after, FALSE)
             = Held(sent, FALSE) + Yield(Feed(decoder, sent).decoder, after, FALSE)
    BY <1>3, HeldMore
  <2> DEFINE h == Held(sent, FALSE)
             k == Held(sent \o after, FALSE)
             y == Yield(Feed(decoder, sent).decoder, after, FALSE)
  <2>2. h \in Nat /\ y \in Nat /\ k = h + y BY <2>1
  <2> HIDE DEF h, k, y
  <2>3. k >= h /\ k \in Nat BY <2>2
  <2> QED BY <2>2, <2>3 DEF h, k
<1>5. Held(sent \o after, FALSE) <= 2 * noise BY DEF Debris, sent, after
<1>6. Held(sent, FALSE) <= 2 * noise
  <2> DEFINE h == Held(sent, FALSE)
             k == Held(sent \o after, FALSE)
  <2>1. h \in Nat /\ k \in Nat /\ k >= h /\ k <= 2 * noise /\ noise \in Nat BY <1>2, <1>4, <1>5
  <2> HIDE DEF h, k
  <2>2. h <= 2 * noise BY <2>1
  <2> QED BY <2>2 DEF h
<1>7. <<>> \o <<>> = <<>> /\ sent \o <<>> = sent BY <1>2, <1>3, ConcatEmptySeq
<1>8. (chunk' \o line') \o (out' \o Ending(closed')) = sent
  BY <1>1, <1>7 DEF sent, Ending
<1>9. Tally(got', inbox', frames', decoder', sent, FALSE) <= 2 * noise'
  BY <1>1, <1>6 DEF Held
<1> QED BY <1>8, <1>9 DEF Debris, Held

(* The next octet of the frame moves from the sender to the line.          *)
LEMMA CarryMoves ==
  ASSUME LinkTypes, Carry, NEW e \in Seq(Octet)
  PROVE  /\ (chunk' \o line') \o (out' \o e) = (chunk \o line) \o (out \o e)
         /\ chunk' \o line' = (chunk \o line) \o <<Head(out)>> /\ Head(out) \in Octet
         /\ out = <<Head(out)>> \o out' /\ out' \in Seq(Octet)
<1> USE DEF senderVars, lineVars, readerVars
<1> DEFINE sent == chunk \o line
           b == Head(out)
           one == <<b>>
           rest == Tail(out)
<1>1. out # <<>> /\ line' = Append(line, b) /\ out' = rest /\ chunk' = chunk BY DEF Carry
<1>2. out \in Seq(Octet) BY DEF LinkTypes
<1>3. b \in Octet /\ one \in Seq(Octet) /\ rest \in Seq(Octet) /\ out = one \o rest
  BY <1>1, <1>2, HeadFirst
<1> HIDE DEF b
<1>4. chunk \o Append(line, b) = sent \o one /\ sent \in Seq(Octet) BY <1>3, LineGrows
<1> HIDE DEF sent, one, rest
<1>5. Between(sent, one, one, rest, e) BY <1>3, <1>4, RegroupMiddle
<1>6. (sent \o one) \o (rest \o e) = sent \o ((one \o rest) \o e) BY ONLY <1>5 DEF Between
<1>7. (chunk' \o line') \o (out' \o e) = sent \o (out \o e) BY <1>1, <1>3, <1>4, <1>6
<1> QED BY <1>1, <1>3, <1>4, <1>7 DEF sent, one, b

(* No step adds more bad frames than its disturbances account for.         *)
LEMMA DebrisStep ==
  ASSUME LinkTypes, Debris, [Next]_vars
  PROVE  Debris'
<1> USE DEF senderVars, lineVars, readerVars
<1>0. /\ out \in Seq(Octet) /\ line \in Seq(Octet) /\ chunk \in Seq(Octet)
      /\ noise \in Nat /\ Ending(closed) \in Seq(Octet) /\ <<>> \in Seq(Octet)
  BY EndingType, EmptySeq DEF LinkTypes
<1>1. CASE \E m \in Messages : Send(m) BY <1>1, SendKeepsDebris
<1>2. CASE Close BY <1>2, CloseKeepsDebris
<1>3. CASE Carry
  <2> DEFINE e == Ending(closed)
  <2>1. (chunk' \o line') \o (out' \o e) = (chunk \o line) \o (out \o e)
    BY <1>0, <1>3, CarryMoves
  <2>2. /\ got' = got /\ inbox' = inbox /\ frames' = frames /\ decoder' = decoder
        /\ closed' = closed /\ noise' = noise
    BY <1>3 DEF Carry
  <2> QED BY <2>1, <2>2 DEF Debris, Held
<1>4. CASE Drop
  <2> DEFINE y == <<Head(out)>>
             a == Tail(out)
  <2>1. /\ out # <<>> /\ out' = a /\ line' = line /\ closed' = closed
        /\ noise' = noise + 1 /\ chunk' = chunk /\ readerVars' = readerVars
    BY <1>4 DEF Drop, Noise
  <2>2. y \in Seq(Octet) /\ a \in Seq(Octet) /\ out = y \o a BY <1>0, <2>1, HeadFirst
  <2> HIDE DEF y, a
  <2>3. chunk' \o line' = (chunk \o line) \o <<>>
    <3>1. chunk \o line \in Seq(Octet) BY <1>0, ConcatProperties
    <3> QED BY <2>1, <3>1, ConcatEmptySeq
  <2> HIDE DEF readerVars
  <2> QED BY <1>0, <2>1, <2>2, <2>3, DebrisDisturbed
<1>5. CASE Alter
  <2> DEFINE y == <<Head(out)>>
             a == Tail(out)
  <2>1. /\ out # <<>> /\ out' = a /\ closed' = closed
        /\ noise' = noise + 1 /\ chunk' = chunk /\ readerVars' = readerVars
    BY <1>5 DEF Alter, Noise
  <2>2. y \in Seq(Octet) /\ a \in Seq(Octet) /\ out = y \o a BY <1>0, <2>1, HeadFirst
  <2> HIDE DEF y, a
  <2>3. PICK b \in Octet : line' = Append(line, b) BY <1>5, SettingFacts DEF Alter, LinkTypes
  <2> DEFINE x == <<b>>
  <2>4. chunk' \o line' = (chunk \o line) \o x BY <2>1, <2>3, LineGrows
  <2>5. x \in Seq(Octet) /\ \E c \in Octet : x = <<c>> BY <2>3
  <2> HIDE DEF x, readerVars
  <2> QED BY <2>1, <2>2, <2>4, <2>5, DebrisDisturbed
<1>6. CASE Insert
  <2>1. /\ out' = out /\ closed' = closed
        /\ noise' = noise + 1 /\ chunk' = chunk /\ readerVars' = readerVars
    BY <1>6 DEF Insert, Noise
  <2>2. out = <<>> \o out BY <1>0, ConcatEmptySeq
  <2>3. PICK b \in Octet : line' = Append(line, b) BY <1>6, SettingFacts DEF Insert, LinkTypes
  <2> DEFINE x == <<b>>
  <2>4. chunk' \o line' = (chunk \o line) \o x BY <2>1, <2>3, LineGrows
  <2>5. x \in Seq(Octet) /\ \E c \in Octet : x = <<c>> BY <2>3
  <2> HIDE DEF x, readerVars
  <2> QED BY <1>0, <2>1, <2>2, <2>4, <2>5, DebrisDisturbed
<1>7. CASE Receiver
  <2> DEFINE e == out \o Ending(closed)
  <2>1. out' = out /\ closed' = closed /\ noise' = noise
    BY <1>7 DEF Receiver, Read, FeedOctet, FillInbox, Return, AtEof
  <2>2. e \in Seq(Octet) BY <1>0, ConcatProperties
  <2>3. out' \o Ending(closed') = e BY <2>1
  <2> HIDE DEF e
  <2>4. Tally(got', inbox', frames', decoder', (chunk' \o line') \o e, FALSE)
          = Held((chunk \o line) \o e, FALSE)
    BY <1>7, <2>2, ReceiverKeeps
  <2>5. Held((chunk \o line) \o e, FALSE) <= 2 * noise BY DEF Debris, e
  <2> QED BY <2>1, <2>3, <2>4, <2>5 DEF Debris, Held
<1>8. CASE UNCHANGED vars BY <1>8 DEF vars, Debris, Held
<1> QED BY <1>1, <1>2, <1>3, <1>4, <1>5, <1>6, <1>7, <1>8 DEF Next, Sender, Line

(* Every variable keeps its kind (what is on the line is octets, what the  *)
(* receiver collects is frames, what next() returns is what wrap() makes   *)
(* of a frame), and the octets under way hold no more bad frames than      *)
(* noise accounts for.                                                     *)
THEOREM LinkInvariant == Spec => [](LinkTypes /\ Debris)
<1>1. Init => LinkTypes /\ Debris BY LinkTypesInit, DebrisInit
<1>2. LinkTypes /\ Debris /\ [Next]_vars => (LinkTypes /\ Debris)'
  BY LinkTypesStep, DebrisStep
<1> QED BY <1>1, <1>2, PTL DEF Spec

(* The application never sees more than two bad frames for each            *)
(* disturbance of the line, whatever the messages, the noise and the read  *)
(* sizes: the de-framer makes no debris of good frames.                    *)
THEOREM BadFramesAreNoise == Spec => []BadFramesNeedNoise
<1>1. LinkTypes /\ Debris => BadFramesNeedNoise
  <2> SUFFICES ASSUME LinkTypes, Debris PROVE BadFramesNeedNoise OBVIOUS
  <2> DEFINE octets == (chunk \o line) \o (out \o Ending(closed))
             w == WrapEach(frames)
             y == Yield(decoder, octets, FALSE)
             u == got \o inbox
  <2>1. /\ out \in Seq(Octet) /\ line \in Seq(Octet) /\ chunk \in Seq(Octet)
        /\ noise \in Nat /\ decoder \in Decoder /\ frames \in Seq(Frame)
        /\ inbox \in Seq(Outcomes) /\ got \in Seq(Outcomes)
    BY DEF LinkTypes
  <2>2. octets \in Seq(Octet) /\ <<>> \in Seq(Octet)
    <3>1. Ending(closed) \in Seq(Octet) /\ <<>> \in Seq(Octet) BY EndingType, EmptySeq
    <3> QED BY <2>1, <3>1, ConcatProperties
  <2>3. w \in Seq(Outcomes) BY <2>1, WrapFacts
  <2> HIDE DEF octets, w
  <2>4. y \in Nat BY <2>1, <2>2, YieldConcat
  <2>5. u \in Seq(Outcomes) BY <2>1, ConcatProperties
  <2>6. /\ Count(u, FALSE) = Count(got, FALSE) + Count(inbox, FALSE)
        /\ Count(got, FALSE) \in Nat /\ Count(inbox, FALSE) \in Nat
    BY <2>1, CountFacts
  <2> HIDE DEF u, y
  <2>7. Count(u \o w, FALSE) = Count(u, FALSE) + Count(w, FALSE) /\ Count(w, FALSE) \in Nat
    BY <2>3, <2>5, CountFacts
  <2>8. Count(got, FALSE) + Count(inbox, FALSE) + Count(w, FALSE) + y <= 2 * noise
    BY DEF Debris, Held, Tally, CountFrames, octets, w, y
  <2>9. Count(u \o w, FALSE) <= 2 * noise
    <3> DEFINE a == Count(got, FALSE)
               b == Count(inbox, FALSE)
               c == Count(w, FALSE)
               k == Count(u \o w, FALSE)
    <3>1. /\ a \in Nat /\ b \in Nat /\ c \in Nat /\ y \in Nat /\ noise \in Nat
          /\ k = (a + b) + c /\ a + b + c + y <= 2 * noise
      BY <2>1, <2>4, <2>6, <2>7, <2>8
    <3> HIDE DEF a, b, c, k
    <3>2. k <= 2 * noise BY <3>1
    <3> QED BY <3>2 DEF k
  <2> QED BY <2>9 DEF BadFramesNeedNoise, u, w
<1> QED BY <1>1, LinkInvariant, PTL

-----------------------------------------------------------------------------
(* Frames that left intact: their messages are held already, a frame still *)
(* unhurt on its way adds one more when its last octet arrives, and the    *)
(* reader sees end of file only when it holds nothing back.                *)
Coming(octets) == Held(octets, TRUE)

Kept ==
  /\ Coming(chunk \o line) >= intact
  /\ out # <<>> /\ hurt = 0 => Coming((chunk \o line) \o out) >= intact + 1
  /\ closed => out = <<>>
  /\ ended => closed /\ chunk = <<>> /\ line = <<>> /\ frames = <<>> /\ inbox = <<>>

(* More octets bring no fewer messages.                                    *)
LEMMA ComingMore ==
  ASSUME LinkTypes, NEW s \in Seq(Octet), NEW t \in Seq(Octet)
  PROVE  Coming(s) \in Nat /\ Coming(s \o t) \in Nat /\ Coming(s \o t) >= Coming(s)
<1> DEFINE ok == TRUE
           y == Yield(Feed(decoder, s).decoder, t, ok)
           h == Held(s, ok)
           k == Held(s \o t, ok)
<1>1. h \in Nat /\ y \in Nat /\ k = h + y
  <2> HIDE DEF ok
  <2> QED BY HeldMore
<1> HIDE DEF y, h, k
<1>2. h \in Nat /\ k \in Nat /\ k >= h BY <1>1
<1> QED BY <1>2 DEF Coming, h, k

(* Nothing has left before anything is sent.                               *)
LEMMA KeptInit ==
  ASSUME Init
  PROVE  Kept
<1>1. /\ chunk = <<>> /\ line = <<>> /\ out = <<>> /\ ~closed /\ ~ended /\ intact = 0
  BY DEF Init
<1>2. LinkTypes BY LinkTypesInit
<1>3. <<>> \in Seq(Octet) BY EmptySeq
<1>4. chunk \o line \in Seq(Octet) BY <1>1, <1>3, ConcatProperties
<1> DEFINE s == chunk \o line
           h == Coming(s)
<1>5. h \in Nat
  <2> HIDE DEF s
  <2> QED BY <1>2, <1>3, <1>4, ComingMore DEF s
<1> HIDE DEF h
<1>6. h >= intact BY <1>1, <1>5
<1> QED BY <1>1, <1>6 DEF Kept, h

(* A frame sent whole is one more message.                                 *)
LEMMA SendKeeps ==
  ASSUME LinkTypes, Kept, NEW m \in Messages, Send(m)
  PROVE  Kept'
<1> USE DEF senderVars, lineVars, readerVars
<1> DEFINE s == chunk \o line
           octets == Encode(EncodeMessage(m))
           flag == <<FLAG>>
           ok == TRUE
           d == Feed(decoder, s).decoder
<1>1. /\ ~closed /\ out' = octets /\ closed' = closed /\ intact' = intact /\ ended' = ended
      /\ chunk' = chunk /\ line' = line /\ got' = got /\ inbox' = inbox /\ frames' = frames
      /\ decoder' = decoder
  BY DEF Send
<1>2. chunk \in Seq(Octet) /\ line \in Seq(Octet) /\ intact \in Nat BY DEF LinkTypes
<1>3. octets \in Seq(Octet) BY SentOctets
<1>4. s \in Seq(Octet) BY <1>2, ConcatProperties
<1>5. d \in Decoder
  <2> HIDE DEF s
  <2> QED BY <1>4, HeldMore
<1>6. flag \in Seq(Octet) BY DEF FLAG, Octet
<1> HIDE DEF octets
<1>7. /\ Held(s, ok) \in Nat /\ Held(s \o octets, ok) = Held(s, ok) + Yield(d, octets, ok)
  <2> HIDE DEF s, ok
  <2> QED BY <1>3, <1>4, HeldMore DEF d
<1> HIDE DEF d, s
<1>8. Yield(d, octets, ok) = Yield(d, flag, ok) + IF ok THEN 1 ELSE 0
  BY <1>5, SentComes DEF octets
<1>9. Yield(d, flag, ok) \in Nat
  <2> HIDE DEF flag, ok
  <2> QED BY <1>5, <1>6, YieldConcat
<1> DEFINE h == Held(s, ok)
           k == Held(s \o octets, ok)
           y == Yield(d, flag, ok)
           z == Yield(d, octets, ok)
<1>10. h >= intact BY DEF Kept, Coming, s
<1>11. k >= intact + 1
  <2>1. z = y + 1 /\ y \in Nat /\ h \in Nat /\ k = h + z /\ h >= intact /\ intact \in Nat
    BY <1>2, <1>7, <1>8, <1>9, <1>10
  <2> HIDE DEF h, k, y, z
  <2> QED BY <2>1
<1>12. /\ Tally(got', inbox', frames', decoder', chunk' \o line', TRUE) >= intact'
       /\ Tally(got', inbox', frames', decoder', (chunk' \o line') \o out', TRUE) >= intact' + 1
  BY <1>1, <1>10, <1>11 DEF Held, s
<1> QED BY <1>1, <1>12 DEF Kept, Coming, Held

(* The last octet of an unhurt frame brings its message to what is held.   *)
LEMMA CarryKeeps ==
  ASSUME LinkTypes, Kept, Carry
  PROVE  Kept'
<1> USE DEF senderVars, lineVars, readerVars
<1> DEFINE s == chunk \o line
           one == <<Head(out)>>
<1>1. /\ out # <<>> /\ out' = Tail(out) /\ closed' = closed /\ hurt' = hurt /\ ended' = ended
      /\ intact' = IF Len(out) = 1 /\ hurt = 0 THEN intact + 1 ELSE intact
      /\ chunk' = chunk /\ got' = got /\ inbox' = inbox /\ frames' = frames
      /\ decoder' = decoder
  BY DEF Carry
<1>2. /\ chunk \in Seq(Octet) /\ line \in Seq(Octet) /\ out \in Seq(Octet)
      /\ intact \in Nat /\ hurt \in Nat
  BY DEF LinkTypes
<1>3. <<>> \in Seq(Octet) BY EmptySeq
<1>4. /\ chunk' \o line' = s \o one /\ Head(out) \in Octet
      /\ out = one \o out' /\ out' \in Seq(Octet)
  BY <1>3, CarryMoves
<1>5. s \in Seq(Octet) /\ one \in Seq(Octet) BY <1>2, <1>4, ConcatProperties
<1>6. (s \o one) \o out' = s \o out
  <2> HIDE DEF s, one
  <2> DEFINE rest == out'
  <2>1. rest \in Seq(Octet) BY <1>4
  <2> HIDE DEF rest
  <2>2. Associate(s, one, rest) BY <1>5, <2>1, Associates
  <2>3. (s \o one) \o rest = s \o (one \o rest) BY <2>2 DEF Associate
  <2> QED BY <1>4, <2>3 DEF rest
<1>7. Coming(s) \in Nat /\ Coming(s \o one) \in Nat /\ Coming(s \o one) >= Coming(s)
  <2> HIDE DEF s, one
  <2> QED BY <1>5, ComingMore
<1> HIDE DEF s, one
<1>8. Coming(s) >= intact /\ (hurt = 0 => Coming(s \o out) >= intact + 1)
  BY <1>1 DEF Kept, s
<1>9. Len(out) = 1 => out' = <<>>
  <2> SUFFICES ASSUME Len(out) = 1 PROVE out' = <<>> OBVIOUS
  <2>1. Len(out') = 0 BY <1>1, <1>2, TailElements
  <2> QED BY <1>4, <2>1, EmptySeq
<1>10. Coming(s \o one) >= intact'
  <2>1. CASE Len(out) = 1 /\ hurt = 0
    <3>1. s \o one = s \o out
      <4>1. one \o <<>> = one BY <1>5, ConcatEmptySeq
      <4> QED BY <1>4, <1>9, <2>1, <4>1
    <3>2. intact' = intact + 1 BY <1>1, <2>1
    <3> QED BY <1>8, <2>1, <3>1, <3>2
  <2>2. CASE ~(Len(out) = 1 /\ hurt = 0)
    <3>1. intact' = intact BY <1>1, <2>2
    <3> QED BY <1>2, <1>7, <1>8, <3>1
  <2> QED BY <2>1, <2>2
<1>11. out' # <<>> /\ hurt' = 0 => Coming(s \o out) >= intact' + 1
  <2> SUFFICES ASSUME out' # <<>>, hurt' = 0 PROVE Coming(s \o out) >= intact' + 1
    OBVIOUS
  <2>1. intact' = intact BY <1>1, <1>9
  <2> QED BY <1>1, <1>8, <2>1
<1>12. ~closed /\ ~ended BY <1>1 DEF Kept
<1>13. /\ Tally(got', inbox', frames', decoder', chunk' \o line', TRUE) >= intact'
       /\ out' # <<>> /\ hurt' = 0 =>
            Tally(got', inbox', frames', decoder', (chunk' \o line') \o out', TRUE) >= intact' + 1
  BY <1>1, <1>4, <1>6, <1>10, <1>11 DEF Coming, Held
<1> QED BY <1>1, <1>12, <1>13 DEF Kept, Coming, Held

(* Noise takes nothing away that had left intact, and the frame it hits is *)
(* not counted on any more.                                                *)
LEMMA NoiseKeeps ==
  ASSUME LinkTypes, Kept, Noise, Drop \/ Alter \/ Insert
  PROVE  Kept'
<1> USE DEF senderVars, lineVars, readerVars
<1> DEFINE s == chunk \o line
<1>1. /\ ~closed /\ closed' = closed /\ ended' = ended /\ intact' = intact
      /\ chunk' = chunk /\ got' = got /\ inbox' = inbox /\ frames' = frames
      /\ decoder' = decoder
      /\ out # <<>> => hurt' = hurt + 1
  BY DEF Noise
<1>2. out = <<>> => out' = <<>> BY DEF Drop, Alter, Insert
<1>3. line' = line \/ \E b \in Octet : line' = Append(line, b)
  BY SettingFacts DEF Drop, Alter, Insert, LinkTypes
<1>4. /\ chunk \in Seq(Octet) /\ line \in Seq(Octet) /\ hurt \in Nat /\ intact \in Nat
  BY DEF LinkTypes
<1>5. s \in Seq(Octet) BY <1>4, ConcatProperties
<1>6. Coming(s) >= intact BY DEF Kept
<1>7. Coming(chunk \o line') >= intact
  <2>1. CASE line' = line BY <1>6, <2>1
  <2>2. CASE \E b \in Octet : line' = Append(line, b)
    <3>1. PICK b \in Octet : line' = Append(line, b) BY <2>2
    <3> DEFINE one == <<b>>
    <3>2. chunk \o line' = s \o one BY <3>1, LineGrows
    <3>3. one \in Seq(Octet) BY <3>1
    <3> HIDE DEF s, one
    <3>4. Coming(s) \in Nat /\ Coming(s \o one) \in Nat /\ Coming(s \o one) >= Coming(s)
      BY <1>5, <3>3, ComingMore
    <3>5. Coming(s \o one) >= intact BY <1>4, <1>6, <3>4
    <3> QED BY <3>2, <3>5
  <2> QED BY <1>3, <2>1, <2>2
<1>8. ~(out' # <<>> /\ hurt' = 0) BY <1>1, <1>2, <1>4
<1>9. ~ended BY <1>1 DEF Kept
<1>10. Tally(got', inbox', frames', decoder', chunk' \o line', TRUE) >= intact'
  BY <1>1, <1>7 DEF Coming, Held
<1> QED BY <1>1, <1>8, <1>9, <1>10 DEF Kept, Coming, Held

(* The receiver moves messages along and ends with nothing held back.      *)
LEMMA ReceiverKeepsKept ==
  ASSUME LinkTypes, Kept, Receiver
  PROVE  Kept'
<1> USE DEF senderVars, lineVars, readerVars
<1> DEFINE s == chunk \o line
<1>1. out' = out /\ closed' = closed /\ hurt' = hurt /\ intact' = intact
  BY DEF Receiver, Read, FeedOctet, FillInbox, Return, AtEof
<1>2. /\ chunk \in Seq(Octet) /\ line \in Seq(Octet) /\ out \in Seq(Octet) /\ <<>> \in Seq(Octet)
  BY EmptySeq DEF LinkTypes
<1>3. /\ chunk' \in Seq(Octet) /\ line' \in Seq(Octet)
  <2>1. [Next]_vars BY DEF Next
  <2>2. LinkTypes' BY <2>1, LinkTypesStep
  <2> QED BY <2>2 DEF LinkTypes
<1>4. s \in Seq(Octet) /\ chunk' \o line' \in Seq(Octet) BY <1>2, <1>3, ConcatProperties
<1>5. s \o <<>> = s /\ (chunk' \o line') \o <<>> = chunk' \o line' BY <1>4, ConcatEmptySeq
<1> DEFINE ok == TRUE
<1>6. /\ Tally(got', inbox', frames', decoder', (chunk' \o line') \o <<>>, ok) = Held(s \o <<>>, ok)
      /\ Tally(got', inbox', frames', decoder', (chunk' \o line') \o out, ok) = Held(s \o out, ok)
  <2> HIDE DEF ok
  <2> QED BY <1>2, ReceiverKeeps
<1> HIDE DEF s
<1>7. /\ Tally(got', inbox', frames', decoder', chunk' \o line', TRUE) = Held(s, TRUE)
      /\ Tally(got', inbox', frames', decoder', (chunk' \o line') \o out', TRUE) = Held(s \o out, TRUE)
  BY <1>1, <1>5, <1>6
<1>8. ended' => closed' /\ chunk' = <<>> /\ line' = <<>> /\ frames' = <<>> /\ inbox' = <<>>
  <2>1. CASE AtEof BY <2>1 DEF AtEof, Reading
  <2>2. CASE Read BY <2>2 DEF Read, Reading
  <2>3. CASE FeedOctet BY <2>3 DEF FeedOctet, Kept
  <2>4. CASE FillInbox BY <2>4 DEF FillInbox, Kept
  <2>5. CASE Return BY <2>5 DEF Return, Kept
  <2> QED BY <2>1, <2>2, <2>3, <2>4, <2>5 DEF Receiver
<1>9. /\ Held(s, TRUE) >= intact /\ (out # <<>> /\ hurt = 0 => Held(s \o out, TRUE) >= intact + 1)
      /\ (closed => out = <<>>)
  BY DEF Kept, Coming, s
<1> QED BY <1>1, <1>7, <1>8, <1>9 DEF Kept, Coming, Held

(* No step loses a frame that left intact.                                 *)
LEMMA KeptStep ==
  ASSUME LinkTypes, Kept, [Next]_vars
  PROVE  Kept'
<1>1. CASE \E m \in Messages : Send(m) BY <1>1, SendKeeps
<1>2. CASE Close
  <2>1. /\ closed' = TRUE /\ out' = <<>> /\ ended' = ended /\ intact' = intact
        /\ chunk' = chunk /\ line' = line /\ got' = got /\ inbox' = inbox /\ frames' = frames
        /\ decoder' = decoder
    BY <1>2 DEF Close, readerVars
  <2> QED BY <2>1 DEF Kept, Coming, Held
<1>3. CASE Carry BY <1>3, CarryKeeps
<1>4. CASE Drop \/ Alter \/ Insert BY <1>4, NoiseKeeps DEF Drop, Alter, Insert
<1>5. CASE Receiver BY <1>5, ReceiverKeepsKept
<1>6. CASE UNCHANGED vars
  BY <1>6 DEF vars, senderVars, lineVars, readerVars, Kept, Coming, Held
<1> QED BY <1>1, <1>2, <1>3, <1>4, <1>5, <1>6 DEF Next, Sender, Line

(* next() says the stream has ended only after handing over every frame    *)
(* that left intact, those decoded together with the last octets included: *)
(* for any messages, noise and read sizes.                                 *)
THEOREM EofLeavesNothing == Spec => []NothingLeftAtEof
<1>1. Init => LinkTypes /\ Kept BY LinkTypesInit, KeptInit
<1>2. LinkTypes /\ Kept /\ [Next]_vars => (LinkTypes /\ Kept)'
  BY LinkTypesStep, KeptStep
<1>3. LinkTypes /\ Kept => NothingLeftAtEof
  <2> SUFFICES ASSUME LinkTypes, Kept, ended PROVE Count(got, TRUE) >= intact
    BY DEF NothingLeftAtEof
  <2>1. /\ chunk = <<>> /\ line = <<>> /\ frames = <<>> /\ inbox = <<>> BY DEF Kept
  <2>2. <<>> \in Seq(Octet) /\ decoder \in Decoder /\ got \in Seq(Outcomes) /\ intact \in Nat
    BY EmptySeq DEF LinkTypes
  <2>3. chunk \o line = <<>> BY <2>1, <2>2, ConcatEmptySeq
  <2> DEFINE ok == TRUE
             n == Count(got, ok)
             h == Held(<<>>, ok)
  <2>4. Count(<<>>, ok) = 0 /\ CountFrames(<<>>, ok) = 0 /\ Yield(decoder, <<>>, ok) = 0
    <3>1. Feed(decoder, <<>>).frames = <<>> BY <2>2, FeedNone DEF Fresh
    <3> HIDE DEF ok
    <3>2. Count(<<>>, ok) = 0 /\ CountFrames(<<>>, ok) = 0 BY CountNone
    <3> QED BY <3>1, <3>2 DEF Yield
  <2>5. h = n + Count(<<>>, ok) + CountFrames(<<>>, ok) + Yield(decoder, <<>>, ok)
    BY <2>1 DEF Held, Tally
  <2>6. n \in Nat
    <3> HIDE DEF ok
    <3> QED BY <2>2, CountFacts
  <2>7. h >= intact BY <2>3 DEF Kept, Coming
  <2>8. h = n + 0 + 0 + 0 BY <2>4, <2>5
  <2> HIDE DEF h, n
  <2>9. n >= intact BY <2>2, <2>6, <2>7, <2>8
  <2> QED BY <2>9 DEF n
<1> QED BY <1>1, <1>2, <1>3, PTL DEF Spec
=============================================================================

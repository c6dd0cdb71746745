--------------------------- MODULE TransportProofs ---------------------------
(***************************************************************************)
(* A write() that loops puts every frame on the line whole, and one that   *)
(* does not loses nothing but ends of frames: for frames of any length,    *)
(* any buffer of the system and any far end.                               *)
(***************************************************************************)
EXTENDS Transport, DataFacts

-----------------------------------------------------------------------------
(* Sequences.                                                              *)

(* Moving the first octet from one sequence to the end of the one before.  *)
LEMMA MoveHead ==
  ASSUME NEW S, NEW a \in Seq(S), NEW b \in Seq(S), NEW c \in Seq(S), b # <<>>
  PROVE  Append(a, Head(b)) \o Tail(b) \o c = a \o b \o c
<1>1. Head(b) \in S /\ Tail(b) \in Seq(S) BY HeadTailProperties
<1>2. <<Head(b)>> \in Seq(S) BY <1>1
<1>3. Append(a, Head(b)) = a \o <<Head(b)>> BY <1>1, AppendIsConcat
<1>4. <<Head(b)>> \o Tail(b) = b
  <2>1. Len(b) \in Nat \ {0} BY EmptySeq
  <2>2. Tail(b) = SubSeq(b, 2, Len(b)) BY TailIsSubSeq
  <2>3. SubSeq(b, 1, Len(b)) = <<b[1]>> \o SubSeq(b, 2, Len(b))
    <3>1. 1 \in 1..Len(b) /\ Len(b) \in 1..Len(b) BY <2>1
    <3>2. SubSeq(b, 1, Len(b)) = <<b[1]>> \o SubSeq(b, 1 + 1, Len(b))
      BY <3>1, SubSeqRecursiveFirst
    <3> QED BY <3>2
  <2>4. Head(b) = b[1] OBVIOUS
  <2> QED BY <2>2, <2>3, <2>4, SubSeqFull
<1>5. (a \o <<Head(b)>>) \o Tail(b) = a \o b BY <1>1, <1>2, <1>4, ConcatAssociative
<1> QED BY <1>3, <1>5

(* A sequence is its first k octets and the rest.                          *)
LEMMA SplitAt ==
  ASSUME NEW S, NEW c \in Seq(S), NEW k \in 0..Len(c)
  PROVE  /\ SubSeq(c, 1, k) \in Seq(S) /\ SubSeq(c, k + 1, Len(c)) \in Seq(S)
         /\ Len(SubSeq(c, 1, k)) = k
         /\ SubSeq(c, 1, k) \o SubSeq(c, k + 1, Len(c)) = c
<1> DEFINE p == SubSeq(c, 1, k)
           q == SubSeq(c, k + 1, Len(c))
<1>1. Len(c) \in Nat /\ \A i \in 1..Len(c) : c[i] \in S BY LenProperties
<1>2. p \in Seq(S) /\ Len(p) = k
  <2>1. \A i \in 1..k : c[i] \in S BY <1>1
  <2>2. p \in Seq(S) /\ Len(p) = IF 1 <= k THEN k - 1 + 1 ELSE 0
    BY <1>1, <2>1, SubSeqProperties
  <2> QED BY <1>1, <2>2
<1>3. q \in Seq(S)
  <2>1. \A i \in (k + 1)..Len(c) : c[i] \in S BY <1>1
  <2> QED BY <1>1, <2>1, SubSeqProperties
<1>4. p \o q = c
  <2>1. 1 \in 1..(Len(c) + 1) /\ k \in (1 - 1)..Len(c) /\ Len(c) \in k..Len(c) BY <1>1
  <2>2. p \o q = SubSeq(c, 1, Len(c)) BY <2>1, ConcatAdjacentSubSeq
  <2> QED BY <2>2, SubSeqFull
<1> QED BY <1>2, <1>3, <1>4

(* The octets of k + 1 frames are those of k frames and one frame more.    *)
LEMMA OneFrameMore ==
  ASSUME NEW k \in Nat
  PROVE  LET frame == [i \in 1..FrameLen |-> k * FrameLen + i]
         IN  /\ frame \in Seq(1..((k + 1) * FrameLen))
             /\ Octets(k) \o frame = Octets(k + 1)
<1> DEFINE m == k * FrameLen
           frame == [i \in 1..FrameLen |-> m + i]
           S == 1..((k + 1) * FrameLen)
<1>1. m \in Nat /\ FrameLen \in Nat /\ (k + 1) * FrameLen = m + FrameLen
  BY TransportAssumption
<1>2. Octets(k) = [i \in 1..m |-> i] /\ Octets(k + 1) = [i \in 1..(m + FrameLen) |-> i]
  BY <1>1 DEF Octets
<1>3. S = 1..(m + FrameLen) BY <1>1
<1> HIDE DEF m, S
<1>4. frame \in Seq(S) /\ Len(frame) = FrameLen
  <2>1. frame \in [1..FrameLen -> S] BY <1>1, <1>3
  <2> QED BY <1>1, <2>1, FunctionIsSeq
<1>5. Octets(k) \in Seq(S) /\ Len(Octets(k)) = m
  <2>1. Octets(k) \in [1..m -> S] BY <1>1, <1>2, <1>3
  <2> QED BY <1>1, <2>1, FunctionIsSeq
<1>6. Octets(k + 1) \in Seq(S) /\ Len(Octets(k + 1)) = m + FrameLen
  <2>1. Octets(k + 1) \in [1..(m + FrameLen) -> S] BY <1>2, <1>3
  <2>2. m + FrameLen \in Nat BY <1>1
  <2> QED BY <2>1, <2>2, FunctionIsSeq
<1>7. \A j \in 1..FrameLen : frame[j] = m + j OBVIOUS
<1> HIDE DEF frame
<1>8. /\ Octets(k) \o frame \in Seq(S)
      /\ Len(Octets(k) \o frame) = m + FrameLen
      /\ \A i \in 1..(m + FrameLen) :
           (Octets(k) \o frame)[i] = IF i <= m THEN Octets(k)[i] ELSE frame[i - m]
  BY <1>4, <1>5, ConcatProperties
<1>9. \A i \in 1..(m + FrameLen) : (Octets(k) \o frame)[i] = Octets(k + 1)[i]
  <2> TAKE i \in 1..(m + FrameLen)
  <2>1. Octets(k + 1)[i] = i BY <1>2
  <2>2. CASE i <= m
    <3>1. i \in 1..m BY <1>1, <2>2
    <3>2. Octets(k)[i] = i BY <1>2, <3>1
    <3> QED BY <1>8, <2>1, <2>2, <3>2
  <2>3. CASE ~(i <= m)
    <3>1. i - m \in 1..FrameLen BY <1>1, <2>3
    <3>2. frame[i - m] = m + (i - m) BY <1>7, <3>1
    <3>3. frame[i - m] = i BY <1>1, <3>2
    <3> QED BY <1>8, <2>1, <2>3, <3>3
  <2> QED BY <2>2, <2>3
<1>10. Octets(k) \o frame = Octets(k + 1)
  BY <1>6, <1>8, <1>9, SeqEqual
<1> QED BY <1>4, <1>10 DEF m, S, frame
-----------------------------------------------------------------------------
(* Type correctness needs how often the far end can have been closed.      *)
PeerCount ==
  closes = opens + (IF OnPty THEN 0 ELSE 1) - (IF peer = "open" THEN 1 ELSE 0)

TypeInv == TypeOK /\ PeerCount

(* What TypeOK says of the octets, one sequence at a time.                 *)
Sent == 1..(sent * FrameLen)

(* What the types say of the buffers.                                      *)
LEMMA TypeFacts ==
  ASSUME TypeOK
  PROVE  /\ writing \in Seq(Sent) /\ out \in Seq(Sent) /\ got \in Seq(Sent)
         /\ Len(out) \in 0..Capacity /\ sent \in Nat
BY TransportAssumption DEF TypeOK, Sent

(* The types hold before anything is written.                              *)
LEMMA TypeInit == Init => TypeInv
<1> SUFFICES ASSUME Init PROVE TypeInv OBVIOUS
<1>1. writing \in Seq(Sent) /\ out \in Seq(Sent) /\ got \in Seq(Sent)
  BY EmptySeq DEF Init
<1>2. Len(out) = 0 BY EmptySeq DEF Init
<1>3. {writing, out, got} \subseteq Seq(1..(sent * FrameLen)) BY <1>1 DEF Sent
<1>4. PeerCount BY DEF Init, PeerCount
<1>5. /\ setup \in Setups /\ process = "running" /\ peer \in {"absent", "open"}
      /\ sent = 0 /\ arrivals = 0 /\ in = 0 /\ opens = 0 /\ closes = 0
  BY DEF Init
<1> QED BY <1>2, <1>3, <1>4, <1>5, TransportAssumption DEF TypeInv, TypeOK

(* No step breaks the types.                                               *)
LEMMA TypeStep == TypeInv /\ [Next]_vars => TypeInv'
<1> SUFFICES ASSUME TypeInv, [Next]_vars PROVE TypeInv'
  OBVIOUS
<1> USE DEF TypeInv
<1>1. /\ writing \in Seq(Sent) /\ out \in Seq(Sent) /\ got \in Seq(Sent)
      /\ Len(out) \in 0..Capacity /\ sent \in Nat
  BY TypeFacts
<1>2. CASE PeerOpen
  <2>1. /\ OnPty /\ peer # "open" /\ peer' = "open" /\ opens' = opens + 1 /\ opens < MaxOpens
        /\ UNCHANGED <<setup, process, sent, writing, out, in, got, closes, arrivals>>
    BY <1>2 DEF PeerOpen, codeVars
  <2>2. opens \in Nat /\ closes \in Nat /\ opens' \in 0..MaxOpens
    BY <2>1, TransportAssumption DEF TypeOK
  <2>3. PeerCount' /\ closes' \in 0..(opens' + 1)
    BY <2>1, <2>2 DEF PeerCount, OnPty
  <2> QED BY <2>1, <2>2, <2>3 DEF TypeOK
<1>3. CASE PeerClose
  <2>1. out' \in Seq(Sent) /\ Len(out') \in 0..Capacity
    <3>1. CASE OnPty
      <4>1. PICK k \in 0..Len(out) : out' = SubSeq(out, 1, k) BY <1>3, <3>1 DEF PeerClose
      <4>2. out' \in Seq(Sent) /\ Len(out') = k BY <1>1, <4>1, SplitAt
      <4>3. Len(out') \in 0..Capacity BY <1>1, <4>1, <4>2, TransportAssumption
      <4> QED BY <4>2, <4>3
    <3>2. CASE ~OnPty
      <4>1. out' = <<>> BY <1>3, <3>2 DEF PeerClose
      <4> QED BY <4>1, EmptySeq, TransportAssumption
    <3> QED BY <3>1, <3>2
  <2>2. in' \in 0..arrivals BY <1>3 DEF PeerClose, TypeOK
  <2>3. /\ peer = "open" /\ peer' = "gone" /\ closes' = closes + 1
        /\ UNCHANGED <<setup, process, sent, writing, got, opens, arrivals>>
    BY <1>3 DEF PeerClose, codeVars
  <2>4. {writing, out, got}' \subseteq Seq(1..(sent' * FrameLen))
    BY <1>1, <2>1, <2>3 DEF Sent
  <2>5. PeerCount' BY <2>3 DEF TypeOK, PeerCount, OnPty
  <2>6. closes' \in 0..(opens' + 1) BY <2>3 DEF TypeOK, PeerCount, OnPty
  <2> QED BY <2>1, <2>2, <2>3, <2>4, <2>5, <2>6 DEF TypeOK
<1>4. CASE PeerWrite
  BY <1>4, TransportAssumption DEF PeerWrite, codeVars, TypeOK, PeerCount, OnPty
<1>5. CASE PeerRead
  <2>1. /\ Head(out) \in Sent /\ Tail(out) \in Seq(Sent) /\ Len(Tail(out)) = Len(out) - 1
        /\ Len(out) \in Nat \ {0}
    BY <1>1, <1>5, HeadTailProperties, EmptySeq DEF PeerRead
  <2>2. got' \in Seq(Sent) /\ out' \in Seq(Sent)
    BY <1>1, <1>5, <2>1, AppendProperties DEF PeerRead
  <2>3. Len(out') \in 0..Capacity
    <3>1. Len(out') = Len(out) - 1 BY <1>5, <2>1 DEF PeerRead
    <3> QED BY <1>1, <2>1, <3>1, TransportAssumption
  <2>4. UNCHANGED <<setup, process, sent, writing, peer, in, opens, closes, arrivals>>
    BY <1>5 DEF PeerRead, codeVars
  <2>5. {writing, out, got}' \subseteq Seq(1..(sent' * FrameLen))
    BY <1>1, <2>2, <2>4 DEF Sent
  <2> QED BY <2>3, <2>4, <2>5 DEF TypeOK, PeerCount, OnPty
<1>6. CASE Send
  <2>1. UNCHANGED <<setup, process, peer, out, in, got, opens, closes, arrivals>>
    BY <1>6 DEF Send, lineVars, historyVars
  <2>2. sent' = sent + 1 /\ sent' \in 0..MaxFrames
    BY <1>1, <1>6, TransportAssumption DEF Send
  <2>3. writing' \in Seq(Sent')
    <3>1. writing' \in Seq(1..((sent + 1) * FrameLen))
      BY <1>1, <1>6, OneFrameMore DEF Send
    <3> QED BY <2>2, <3>1 DEF Sent
  <2>4. Sent \subseteq Sent'
    <3>1. (sent + 1) * FrameLen = sent * FrameLen + FrameLen /\ sent * FrameLen \in Nat
      BY <1>1, TransportAssumption
    <3>2. sent' * FrameLen = sent * FrameLen + FrameLen BY <2>2, <3>1
    <3> QED BY <3>1, <3>2, TransportAssumption DEF Sent
  <2>5. out' \in Seq(Sent') /\ got' \in Seq(Sent')
    BY <1>1, <2>1, <2>4, SeqMonotonic
  <2>6. {writing, out, got}' \subseteq Seq(1..(sent' * FrameLen))
    BY <2>3, <2>5 DEF Sent
  <2> QED BY <1>1, <2>1, <2>2, <2>6 DEF TypeOK, PeerCount, OnPty
<1>7. CASE WriteSome
  <2>1. UNCHANGED <<setup, process, sent, peer, in, got, opens, closes, arrivals>>
    BY <1>7 DEF WriteSome, historyVars
  <2> DEFINE k == Handed(writing)
  <2>2. k \in 0..Len(writing) /\ Len(out) + k \in 0..Capacity
    BY <1>1, <1>7, LenProperties, TransportAssumption DEF WriteSome, CanWrite, Handed, Room
  <2>3. /\ SubSeq(writing, 1, k) \in Seq(Sent) /\ SubSeq(writing, k + 1, Len(writing)) \in Seq(Sent)
        /\ Len(SubSeq(writing, 1, k)) = k
    BY <1>1, <2>2, SplitAt
  <2>4. out' = out \o SubSeq(writing, 1, k) BY <1>7 DEF WriteSome
  <2>5. writing' = SubSeq(writing, k + 1, Len(writing)) \/ writing' = <<>>
    BY <1>7 DEF WriteSome
  <2> HIDE DEF k
  <2>6. out' \in Seq(Sent) /\ Len(out') = Len(out) + k
    BY <1>1, <2>3, <2>4, ConcatProperties
  <2>7. writing' \in Seq(Sent) BY <2>3, <2>5, EmptySeq
  <2>8. {writing, out, got}' \subseteq Seq(1..(sent' * FrameLen))
    BY <1>1, <2>1, <2>6, <2>7 DEF Sent
  <2>9. Len(out') \in 0..Capacity BY <2>2, <2>6
  <2> QED BY <2>1, <2>8, <2>9 DEF TypeOK, PeerCount, OnPty
<1>8. CASE WriteFails
  BY <1>8 DEF WriteFails, lineVars, historyVars, TypeOK, PeerCount, OnPty
<1>9. CASE ReadSome
  BY <1>9 DEF ReadSome, codeVars, historyVars, TypeOK, PeerCount, OnPty
<1>10. CASE ReadEof
  BY <1>10 DEF ReadEof, lineVars, historyVars, TypeOK, PeerCount, OnPty
<1>11. CASE ReadFails
  BY <1>11 DEF ReadFails, lineVars, historyVars, TypeOK, PeerCount, OnPty
<1>12. CASE UNCHANGED vars
  BY <1>12 DEF vars, codeVars, lineVars, historyVars, TypeOK, PeerCount, OnPty
<1> QED
  BY <1>2, <1>3, <1>4, <1>5, <1>6, <1>7, <1>8, <1>9, <1>10, <1>11, <1>12 DEF Next, Application

(* The types of the transport's state: in particular write() never hands   *)
(* over octets past the end of a frame, nor more than the system holds.    *)
THEOREM TransportTypes == Spec => []TypeOK
<1>1. Spec => []TypeInv BY TypeInit, TypeStep, PTL DEF Spec
<1>2. TypeInv => TypeOK BY DEF TypeInv
<1> QED BY <1>1, <1>2, PTL

-----------------------------------------------------------------------------
(* Nothing is written in part before anything is written.                  *)
LEMMA WholeInit == Init => WritesWhole
<1> SUFFICES ASSUME Init PROVE WritesWhole OBVIOUS
<1>1. Octets(0) = <<>>
  <2>1. 0 * FrameLen = 0 BY TransportAssumption
  <2> QED BY <2>1 DEF Octets
<1>2. got \o out \o writing = <<>> \o <<>> \o <<>> BY DEF Init
<1>3. <<>> \o <<>> \o <<>> = <<>>
  <2>1. <<>> \in Seq(Sent) BY EmptySeq
  <2> QED BY <2>1, ConcatEmptySeq
<1> QED BY <1>1, <1>2, <1>3 DEF Init, WritesWhole, Kept

(* With a write loop no step leaves a frame written in part.               *)
LEMMA WholeStep ==
  ASSUME TypeInv, WritesWhole, [Next]_vars
  PROVE  WritesWhole'
<1> SUFFICES ASSUME Loops', (closes = 0)' PROVE (got \o out \o writing)' = Octets(sent')
  BY DEF WritesWhole, Kept, Octets
<1>1. /\ writing \in Seq(Sent) /\ out \in Seq(Sent) /\ got \in Seq(Sent)
      /\ Len(out) \in 0..Capacity /\ sent \in Nat
  BY TypeFacts DEF TypeInv
<1>2. Loops
  <2>1. setup' = setup
    BY DEF Next, Application, PeerOpen, PeerClose, PeerWrite, PeerRead, Send, WriteSome,
           WriteFails, ReadSome, ReadEof, ReadFails, vars, codeVars
  <2> QED BY <2>1 DEF Loops, OnPty, InPython
<1>3. ASSUME PeerClose PROVE closes' # 0
  BY <1>3 DEF PeerClose, TypeInv, TypeOK
<1>4. ASSUME PeerRead, closes = 0 PROVE (got \o out \o writing)' = Octets(sent')
  <2>1. got' = Append(got, Head(out)) /\ out' = Tail(out) /\ out # <<>>
        /\ UNCHANGED <<sent, writing>>
    BY <1>4 DEF PeerRead, codeVars
  <2>2. Append(got, Head(out)) \o Tail(out) \o writing = got \o out \o writing
    <3>1. got \in Seq(Sent) /\ out \in Seq(Sent) /\ writing \in Seq(Sent) /\ out # <<>>
      BY <1>1, <2>1
    <3> QED BY <3>1, MoveHead
  <2> QED BY <1>2, <1>4, <2>1, <2>2 DEF WritesWhole, Kept
<1>5. ASSUME Send, closes = 0 PROVE (got \o out \o writing)' = Octets(sent')
  <2> DEFINE frame == [i \in 1..FrameLen |-> sent * FrameLen + i]
  <2>1. writing = <<>> /\ writing' = frame /\ sent' = sent + 1 /\ UNCHANGED <<got, out>>
    BY <1>5 DEF Send, lineVars, historyVars
  <2>2. got \o out \in Seq(Sent) BY <1>1, ConcatProperties
  <2>3. got \o out \o <<>> = got \o out BY <2>2, ConcatEmptySeq
  <2>4. got \o out = Octets(sent) BY <1>2, <1>5, <2>1, <2>3 DEF WritesWhole, Kept
  <2>5. Octets(sent) \o frame = Octets(sent + 1) BY <1>1, OneFrameMore
  <2> QED BY <2>1, <2>4, <2>5
<1>6. ASSUME WriteSome, closes = 0 PROVE (got \o out \o writing)' = Octets(sent')
  <2> DEFINE k == Handed(writing)
             p == SubSeq(writing, 1, k)
             q == SubSeq(writing, k + 1, Len(writing))
  <2>1. k \in 0..Len(writing)
    BY <1>1, <1>6, LenProperties, TransportAssumption DEF WriteSome, CanWrite, Handed, Room
  <2>2. p \in Seq(Sent) /\ q \in Seq(Sent) /\ p \o q = writing
    BY <1>1, <2>1, SplitAt
  <2>3. out' = out \o p /\ writing' = q /\ UNCHANGED <<got, sent>>
    BY <1>2, <1>6 DEF WriteSome, historyVars
  <2> HIDE DEF k, p, q
  <2>4. got \o (out \o p) \o q = (got \o out) \o (p \o q)
    <3>1. got \in Seq(Sent) /\ out \in Seq(Sent) BY <1>1
    <3>2. p \in Seq(Sent) /\ q \in Seq(Sent) BY <2>2
    <3> DEFINE before == got \o out
    <3>3. before \in Seq(Sent) BY <3>1, ConcatProperties
    <3>4. before \o p = got \o (out \o p) BY <3>1, <3>2, ConcatAssociative
    <3>5. (before \o p) \o q = before \o (p \o q)
      <4> HIDE DEF before
      <4> QED BY <3>2, <3>3, ConcatAssociative
    <3> QED BY <3>4, <3>5
  <2> QED BY <1>2, <1>6, <2>2, <2>3, <2>4 DEF WritesWhole, Kept
<1>7. ASSUME UNCHANGED <<got, out, writing, sent, closes>> PROVE (got \o out \o writing)' = Octets(sent')
  BY <1>2, <1>7 DEF WritesWhole, Kept
<1>8. ASSUME PeerOpen \/ PeerWrite \/ WriteFails \/ ReadSome \/ ReadEof \/ ReadFails \/ UNCHANGED vars
      PROVE  UNCHANGED <<got, out, writing, sent, closes>>
  BY <1>8 DEF PeerOpen, PeerWrite, WriteFails, ReadSome, ReadEof, ReadFails,
              vars, codeVars, lineVars, historyVars
<1>9. ASSUME PeerRead \/ Send \/ WriteSome PROVE closes' = closes
  BY <1>9 DEF PeerRead, Send, WriteSome, historyVars
<1> QED
  BY <1>3, <1>4, <1>5, <1>6, <1>7, <1>8, <1>9 DEF Next, Application, WritesWhole

(* Until the far end closes, what it has read, what the system holds and   *)
(* what write() has left are the frames sent, octet for octet: for every   *)
(* implementation that calls ::write() again for the rest.                 *)
THEOREM FramesWritten == Spec => []WritesWhole
<1>1. Init => TypeInv /\ WritesWhole BY TypeInit, WholeInit
<1>2. TypeInv /\ WritesWhole /\ [Next]_vars => TypeInv' /\ WritesWhole'
  BY TypeStep, WholeStep
<1> QED BY <1>1, <1>2, PTL DEF Spec
-----------------------------------------------------------------------------
(* What a write() that does not loop keeps.                                *)

(* Only the first octet of a frame is the first octet of one.              *)
LEMMA FirstOfFrame ==
  ASSUME NEW k \in Nat, NEW m \in Nat, NEW j \in 1..FrameLen,
         m * FrameLen + 1 = k * FrameLen + j
  PROVE  m = k
<1>1. FrameLen \in Nat /\ j \in Int /\ j >= 1 /\ j <= FrameLen BY TransportAssumption
<1>2. \A a, b \in Nat : a < b => a * FrameLen + FrameLen <= b * FrameLen
  <2> SUFFICES ASSUME NEW a \in Nat, NEW b \in Nat, a < b
               PROVE  a * FrameLen + FrameLen <= b * FrameLen
    OBVIOUS
  <2> DEFINE d == b - (a + 1)
  <2>1. d \in Nat /\ b = a + 1 + d OBVIOUS
  <2>2. (a + 1 + d) * FrameLen = a * FrameLen + FrameLen + d * FrameLen BY <1>1, <2>1
  <2>3. d * FrameLen \in Nat BY <1>1, <2>1
  <2> HIDE DEF d
  <2> QED BY <1>1, <2>1, <2>2, <2>3
<1>3. k * FrameLen \in Nat /\ m * FrameLen \in Nat BY <1>1
<1>4. CASE m < k
  <2>1. m * FrameLen + FrameLen <= k * FrameLen BY <1>2, <1>4
  <2> QED BY <1>1, <1>3, <2>1
<1>5. CASE k < m
  <2>1. k * FrameLen + FrameLen <= m * FrameLen BY <1>2, <1>5
  <2> QED BY <1>1, <1>3, <2>1
<1> QED BY <1>4, <1>5

(* write() has at most one frame's beginning left, in front.               *)
OneFirst == \A i \in 2..Len(writing) : writing[i] \notin Firsts

(* The first octets of frames are among those sent.                        *)
LEMMA FirstsAfter ==
  ASSUME NEW n \in Nat, n = sent
  PROVE  /\ Firsts \subseteq 1..(n * FrameLen)
         /\ {k * FrameLen + 1 : k \in 0..n} = Firsts \cup {n * FrameLen + 1}
<1>1. \A k \in 0..(n - 1) : k * FrameLen + 1 \in 1..(n * FrameLen)
  <2> TAKE k \in 0..(n - 1)
  <2> DEFINE d == n - (k + 1)
  <2>1. d \in Nat /\ n = k + 1 + d OBVIOUS
  <2>2. (k + 1 + d) * FrameLen = k * FrameLen + FrameLen + d * FrameLen
    BY <2>1, TransportAssumption
  <2>3. d * FrameLen \in Nat /\ k * FrameLen \in Nat BY <2>1, TransportAssumption
  <2> HIDE DEF d
  <2> QED BY <2>1, <2>2, <2>3, TransportAssumption
<1>2. 0..n = 0..(n - 1) \cup {n} OBVIOUS
<1> QED BY <1>1, <1>2 DEF Firsts

(* Nothing is lost before anything is written.                             *)
LEMMA TailsInit == Init => OnlyTailsLost /\ OneFirst
<1> SUFFICES ASSUME Init PROVE OnlyTailsLost /\ OneFirst OBVIOUS
<1>1. Kept = <<>>
  <2>1. Kept = <<>> \o <<>> \o <<>> BY DEF Init, Kept
  <2>2. <<>> \in Seq(Sent) BY EmptySeq
  <2> QED BY <2>1, <2>2, ConcatEmptySeq
<1>2. Len(Kept) = 0 BY <1>1, EmptySeq
<1>3. Firsts = {}
  <2>1. 0..(sent - 1) = {} BY DEF Init
  <2> QED BY <2>1 DEF Firsts
<1>4. Len(writing) = 0 BY EmptySeq DEF Init
<1> QED BY <1>2, <1>3, <1>4 DEF OnlyTailsLost, OneFirst

(* No step loses more than the end of a frame.                             *)
LEMMA TailsStep ==
  ASSUME TypeInv, OnlyTailsLost, OneFirst, [Next]_vars
  PROVE  OnlyTailsLost' /\ OneFirst'
<1>1. /\ writing \in Seq(Sent) /\ out \in Seq(Sent) /\ got \in Seq(Sent)
      /\ Len(out) \in 0..Capacity /\ sent \in Nat
  BY TypeFacts DEF TypeInv
<1>2. /\ got \o out \in Seq(Sent) /\ Kept \in Seq(Sent) /\ Len(Kept) \in Nat
      /\ Len(writing) \in Nat /\ \A i \in 1..Len(Kept) : Kept[i] \in Sent
  <2>1. got \o out \in Seq(Sent) BY <1>1, ConcatProperties
  <2>2. Kept \in Seq(Sent) BY <1>1, <2>1, ConcatProperties DEF Kept
  <2> QED BY <1>1, <2>1, <2>2, LenProperties
<1>3. CASE PeerOpen \/ PeerWrite \/ WriteFails \/ ReadSome \/ ReadEof \/ ReadFails \/ UNCHANGED vars
  <2>1. UNCHANGED <<got, out, writing, sent, closes>>
    BY <1>3 DEF PeerOpen, PeerWrite, WriteFails, ReadSome, ReadEof, ReadFails,
                vars, codeVars, lineVars, historyVars
  <2>2. Kept' = Kept /\ Firsts' = Firsts BY <2>1 DEF Kept, Firsts
  <2> QED BY <2>1, <2>2 DEF OnlyTailsLost, OneFirst
<1>4. CASE PeerClose
  <2>1. closes' # 0 /\ UNCHANGED <<writing, sent>>
    BY <1>4 DEF PeerClose, TypeInv, TypeOK, codeVars
  <2>2. Firsts' = Firsts BY <2>1 DEF Firsts
  <2> QED BY <2>1, <2>2 DEF OnlyTailsLost, OneFirst
<1>5. CASE PeerRead
  <2>1. got' = Append(got, Head(out)) /\ out' = Tail(out) /\ out # <<>>
        /\ UNCHANGED <<sent, writing, closes>>
    BY <1>5 DEF PeerRead, codeVars
  <2>2. Kept' = Kept BY <1>1, <2>1, MoveHead DEF Kept
  <2>3. Firsts' = Firsts BY <2>1 DEF Firsts
  <2> QED BY <2>1, <2>2, <2>3 DEF OnlyTailsLost, OneFirst
<1>6. CASE Send
  <2> DEFINE m == sent * FrameLen
             frame == [i \in 1..FrameLen |-> m + i]
             n == Len(Kept)
  <2>1. writing = <<>> /\ writing' = frame /\ sent' = sent + 1 /\ UNCHANGED <<got, out, closes>>
    BY <1>6 DEF Send, lineVars, historyVars
  <2>2. m \in Nat /\ FrameLen \in Nat \ {0} BY <1>1, TransportAssumption
  <2>3. Kept = got \o out BY <1>2, <2>1, ConcatEmptySeq DEF Kept
  <2>4. Kept' = Kept \o frame BY <2>1, <2>3 DEF Kept
  <2>5. Firsts' = Firsts \cup {m + 1} /\ Firsts \subseteq 1..m
    <3>1. Firsts' = {k * FrameLen + 1 : k \in 0..sent}
      <4>1. sent' - 1 = sent BY <1>1, <2>1
      <4> QED BY <4>1 DEF Firsts
    <3> QED BY <1>1, <3>1, FirstsAfter
  <2>6. \A j \in 2..FrameLen : m + j \notin Firsts'
    <3>1. \A k \in 0..sent, j \in 2..FrameLen : k * FrameLen + 1 # m + j
      <4> SUFFICES ASSUME NEW k \in 0..sent, NEW j \in 2..FrameLen,
                          k * FrameLen + 1 = sent * FrameLen + j
                   PROVE  FALSE
        OBVIOUS
      <4>1. k \in Nat /\ j \in 1..FrameLen BY <1>1, <2>2
      <4>2. k = sent BY <1>1, <4>1, FirstOfFrame
      <4> QED BY <2>2, <4>2
    <3>2. Firsts' = {k * FrameLen + 1 : k \in 0..sent}
      <4>1. sent' - 1 = sent BY <1>1, <2>1
      <4> QED BY <4>1 DEF Firsts
    <3> QED BY <3>1, <3>2
  <2>7. frame \in Seq(Nat) /\ Len(frame) = FrameLen
    <3>1. frame \in [1..FrameLen -> Nat] BY <2>2
    <3> QED BY <2>2, <3>1, FunctionIsSeq
  <2>8. \A j \in 1..FrameLen : frame[j] = m + j OBVIOUS
  <2>9. Kept \in Seq(Nat) /\ \A i \in 1..n : Kept[i] \in 1..m
    BY <1>2, <2>2, SeqMonotonic DEF Sent
  <2> HIDE DEF frame, m
  <2>10. /\ Len(Kept') = n + FrameLen
         /\ \A i \in 1..n : Kept'[i] = Kept[i]
         /\ \A j \in 1..FrameLen : Kept'[n + j] = m + j
    <3>1. /\ Len(Kept') = n + FrameLen
          /\ \A i \in 1..(n + FrameLen) : Kept'[i] = IF i <= n THEN Kept[i] ELSE frame[i - n]
      BY <2>4, <2>7, <2>9, ConcatProperties
    <3> HIDE DEF n
    <3>2. n \in Nat BY <1>2 DEF n
    <3>3. \A i \in 1..n : Kept'[i] = Kept[i] BY <2>2, <3>1, <3>2
    <3>4. ASSUME NEW j \in 1..FrameLen PROVE Kept'[n + j] = m + j
      <4>1. n + j \in 1..(n + FrameLen) /\ ~(n + j <= n) /\ (n + j) - n = j BY <2>2, <3>2
      <4> QED BY <2>8, <3>1, <4>1
    <3> QED BY <3>1, <3>3, <3>4 DEF n
  <2>11. OneFirst' BY <2>1, <2>6, <2>7, <2>8 DEF OneFirst
  <2>12. n \in Nat BY <1>2
  <2> HIDE DEF n
  <2>13. ASSUME closes' = 0 PROVE Firsts' \subseteq {Kept'[i] : i \in 1..Len(Kept')}
    <3>1. \A x \in Firsts : \E i \in 1..n : x = Kept[i]
      BY <2>1, <2>13 DEF OnlyTailsLost, n
    <3>2. n + 1 \in 1..Len(Kept') /\ Kept'[n + 1] = m + 1
      <4>1. 1 \in 1..FrameLen /\ n + 1 \in 1..(n + FrameLen) BY <2>2, <2>12
      <4> QED BY <2>10, <4>1
    <3>3. \A i \in 1..n : i \in 1..Len(Kept') /\ Kept'[i] = Kept[i]
      BY <2>2, <2>10, <2>12
    <3> QED BY <2>5, <3>1, <3>2, <3>3
  <2>14. ASSUME closes' = 0, NEW i \in 1..Len(Kept')
         PROVE  IF Kept'[i] \in Firsts' THEN i = 1 \/ Kept'[i - 1] < Kept'[i]
                                        ELSE i > 1 /\ Kept'[i - 1] = Kept'[i] - 1
    <3>1. CASE i \in 1..n
      <4>1. IF Kept[i] \in Firsts THEN i = 1 \/ Kept[i - 1] < Kept[i]
                                  ELSE i > 1 /\ Kept[i - 1] = Kept[i] - 1
        BY <2>1, <2>14, <3>1 DEF OnlyTailsLost, n
      <4>2. Kept'[i] = Kept[i] /\ (i > 1 => Kept'[i - 1] = Kept[i - 1])
        BY <2>10, <2>12, <3>1
      <4>3. Kept[i] \in Firsts' <=> Kept[i] \in Firsts
        <5>1. Kept[i] # m + 1 BY <2>2, <2>9, <3>1
        <5> QED BY <2>5, <5>1
      <4> QED BY <3>1, <4>1, <4>2, <4>3
    <3>2. CASE i \notin 1..n
      <4> DEFINE j == i - n
      <4>1. j \in 1..FrameLen /\ i = n + j BY <2>2, <2>10, <2>12, <2>14, <3>2
      <4> HIDE DEF j
      <4>2. Kept'[i] = m + j BY <2>10, <4>1
      <4>3. CASE j = 1
        <5>1. Kept'[i] \in Firsts' BY <2>5, <4>2, <4>3
        <5>2. i = 1 \/ Kept'[i - 1] < Kept'[i]
          <6>1. n = 0 => i = 1 BY <4>1, <4>3
          <6>2. n # 0 => i - 1 = n /\ n \in 1..n BY <2>12, <4>1, <4>3
          <6>3. n # 0 => Kept'[i - 1] \in 1..m BY <2>9, <2>10, <6>2
          <6> QED BY <2>2, <4>2, <4>3, <6>1, <6>3
        <5> QED BY <5>1, <5>2
      <4>4. CASE j # 1
        <5>1. j \in 2..FrameLen /\ j - 1 \in 1..FrameLen BY <2>2, <4>1, <4>4
        <5>2. Kept'[i] \notin Firsts' BY <2>6, <4>2, <5>1
        <5>3. i - 1 = n + (j - 1) BY <2>12, <4>1
        <5>4. Kept'[i - 1] = m + (j - 1) BY <2>10, <5>1, <5>3
        <5> QED BY <2>2, <2>12, <4>1, <4>2, <5>1, <5>2, <5>4
      <4> QED BY <4>3, <4>4
    <3> QED BY <3>1, <3>2
  <2>15. OnlyTailsLost'
    BY <2>13, <2>14 DEF OnlyTailsLost
  <2> QED BY <2>11, <2>15
<1>7. CASE WriteSome
  <2> DEFINE k == Handed(writing)
             p == SubSeq(writing, 1, k)
             q == SubSeq(writing, k + 1, Len(writing))
             whole == got \o (out \o p)
             n == Len(whole)
  <2>1. k \in 1..Len(writing)
    <3>1. Len(writing) > 0 /\ Len(out) \in Nat BY <1>1, <1>7, EmptySeq, LenProperties DEF WriteSome, CanWrite
    <3> QED
      BY <1>1, <1>2, <1>7, <3>1, TransportAssumption DEF WriteSome, CanWrite, Handed, Room
  <2>2. /\ p \in Seq(Sent) /\ q \in Seq(Sent) /\ p \o q = writing /\ Len(p) = k
        /\ \A i \in 1..(Len(writing) - k) : q[i] = writing[k + i]
        /\ Len(q) = Len(writing) - k
    <3>1. k \in 0..Len(writing) BY <2>1
    <3>2. p \in Seq(Sent) /\ q \in Seq(Sent) /\ p \o q = writing /\ Len(p) = k
      BY <1>1, <3>1, SplitAt
    <3> HIDE DEF k, p, q
    <3>3. /\ Len(writing) = k + Len(q) /\ Len(q) \in Nat
          /\ \A i \in 1..(k + Len(q)) : writing[i] = IF i <= k THEN p[i] ELSE q[i - k]
      BY <3>2, ConcatProperties, LenProperties
    <3>4. \A i \in 1..Len(q) : k + i \in 1..(k + Len(q)) /\ ~(k + i <= k) /\ (k + i) - k = i
      BY <2>1, <3>3
    <3>5. \A i \in 1..Len(q) : q[i] = writing[k + i] BY <3>3, <3>4
    <3>6. Len(q) = Len(writing) - k BY <2>1, <3>3
    <3> QED BY <3>2, <3>5, <3>6
  <2>3. /\ out' = out \o p /\ (writing' = q \/ writing' = <<>>)
        /\ UNCHANGED <<got, sent, closes>>
    BY <1>7 DEF WriteSome, historyVars
  <2>4. Firsts' = Firsts BY <2>3 DEF Firsts
  <2> HIDE DEF k, p, q
  <2>5. whole \in Seq(Sent) /\ out \o p \in Seq(Sent) /\ n \in Nat
    <3>1. out \o p \in Seq(Sent) BY <1>1, <2>2, ConcatProperties
    <3>2. whole \in Seq(Sent) BY <1>1, <3>1, ConcatProperties
    <3> QED BY <3>1, <3>2, LenProperties
  <2>6. Kept = whole \o q
    <3>0. got \in Seq(Sent) /\ out \in Seq(Sent) /\ p \in Seq(Sent) /\ q \in Seq(Sent)
      BY <1>1, <2>2
    <3> DEFINE before == got \o out
    <3>1. before \o p = whole BY <3>0, ConcatAssociative
    <3>2. before \in Seq(Sent) BY <1>2
    <3>3. Kept = before \o (p \o q) BY <2>2 DEF Kept
    <3>4. before \o (p \o q) = (before \o p) \o q
      <4>1. p \in Seq(Sent) /\ q \in Seq(Sent) BY <3>0
      <4> HIDE DEF before, whole
      <4> QED BY <3>2, <4>1, ConcatAssociative
    <3> QED BY <3>1, <3>3, <3>4
  <2>7. Kept' = whole \/ Kept' = Kept
    <3>1. CASE writing' = q
      <4>1. Kept' = whole \o q BY <2>3, <3>1 DEF Kept
      <4> QED BY <2>6, <4>1
    <3>2. CASE writing' = <<>>
      <4>1. Kept' = whole \o <<>> BY <2>3, <3>2 DEF Kept
      <4> HIDE DEF whole
      <4>2. whole \o <<>> = whole BY <2>5, ConcatEmptySeq
      <4> QED BY <4>1, <4>2
    <3> QED BY <2>3, <3>1, <3>2
  <2>8. OneFirst'
    <3>1. CASE writing' = <<>>
      <4>1. Len(writing') = 0 BY <3>1, EmptySeq
      <4> QED BY <4>1 DEF OneFirst
    <3>2. CASE writing' = q
      <4>1. ASSUME NEW i \in 2..Len(q) PROVE q[i] \notin Firsts
        <5>1. i \in 1..(Len(writing) - k) /\ k + i \in 2..Len(writing)
          BY <1>2, <2>1, <2>2, <4>1
        <5>2. q[i] = writing[k + i] BY <2>2, <5>1
        <5> QED BY <5>1, <5>2 DEF OneFirst
      <4> QED BY <2>4, <3>2, <4>1 DEF OneFirst
    <3> QED BY <2>3, <3>1, <3>2
  <2> HIDE DEF whole
  <2>9. /\ Len(Kept) = n + Len(q) /\ Len(q) \in Nat
        /\ \A i \in 1..n : Kept[i] = whole[i]
        /\ \A i \in 1..Len(q) : Kept[n + i] = q[i]
    <3>1. /\ Len(Kept) = n + Len(q) /\ Len(q) \in Nat
          /\ \A i \in 1..(n + Len(q)) : Kept[i] = IF i <= n THEN whole[i] ELSE q[i - n]
      BY <2>2, <2>5, <2>6, ConcatProperties, LenProperties
    <3> HIDE DEF n
    <3>2. \A i \in 1..n : i \in 1..(n + Len(q)) /\ i <= n BY <2>5, <3>1
    <3>3. \A i \in 1..Len(q) : n + i \in 1..(n + Len(q)) /\ ~(n + i <= n) /\ (n + i) - n = i
      BY <2>5, <3>1
    <3>4. \A i \in 1..n : Kept[i] = whole[i] BY <3>1, <3>2
    <3>5. \A i \in 1..Len(q) : Kept[n + i] = q[i] BY <3>1, <3>3
    <3> QED BY <3>1, <3>4, <3>5 DEF n
  <2>10. ASSUME closes = 0 PROVE Firsts \subseteq {whole[i] : i \in 1..n}
    <3> SUFFICES ASSUME NEW x \in Firsts PROVE \E i \in 1..n : x = whole[i]
      OBVIOUS
    <3>1. PICK i \in 1..Len(Kept) : x = Kept[i] BY <2>10 DEF OnlyTailsLost
    <3> HIDE DEF n
    <3>2. CASE i \in 1..n BY <2>9, <3>1, <3>2
    <3>3. CASE i \notin 1..n
      <4> DEFINE j == i - n
      <4>1. j \in 1..Len(q) /\ i = n + j BY <2>5, <2>9, <3>1, <3>3
      <4> HIDE DEF j
      <4>2. x = q[j] BY <2>9, <3>1, <4>1
      <4>3. j \in 1..(Len(writing) - k) /\ k + j \in 2..Len(writing)
        BY <1>2, <2>1, <2>2, <4>1
      <4>4. x = writing[k + j] BY <2>2, <4>2, <4>3
      <4> QED BY <4>3, <4>4 DEF OneFirst
    <3> QED BY <3>2, <3>3
  <2>11. ASSUME closes = 0, NEW i \in 1..n
         PROVE  IF whole[i] \in Firsts THEN i = 1 \/ whole[i - 1] < whole[i]
                                       ELSE i > 1 /\ whole[i - 1] = whole[i] - 1
    <3> HIDE DEF n
    <3>1. i \in 1..Len(Kept) BY <2>5, <2>9
    <3>2. IF Kept[i] \in Firsts THEN i = 1 \/ Kept[i - 1] < Kept[i]
                                ELSE i > 1 /\ Kept[i - 1] = Kept[i] - 1
      BY <2>11, <3>1 DEF OnlyTailsLost
    <3>3. Kept[i] = whole[i] /\ (i > 1 => Kept[i - 1] = whole[i - 1])
      BY <2>5, <2>9
    <3> QED BY <2>5, <3>2, <3>3
  <2>12. OnlyTailsLost'
    <3>1. CASE Kept' = Kept BY <2>3, <2>4, <3>1 DEF OnlyTailsLost
    <3>2. CASE Kept' = whole BY <2>3, <2>4, <2>10, <2>11, <3>2 DEF OnlyTailsLost
    <3> QED BY <2>7, <3>1, <3>2
  <2> QED BY <2>8, <2>12
<1> QED BY <1>3, <1>4, <1>5, <1>6, <1>7 DEF Next, Application

(* Until the far end closes no implementation loses anything but ends of   *)
(* frames: also the Python pseudo-terminal, whose write() does not loop,   *)
(* puts the beginning of every frame on the line, in order and once.       *)
THEOREM TailsOnly == Spec => []OnlyTailsLost
<1>1. Init => TypeInv /\ OnlyTailsLost /\ OneFirst BY TypeInit, TailsInit
<1>2. TypeInv /\ OnlyTailsLost /\ OneFirst /\ [Next]_vars
        => TypeInv' /\ OnlyTailsLost' /\ OneFirst'
  BY TypeStep, TailsStep
<1> QED BY <1>1, <1>2, PTL DEF Spec
=============================================================================

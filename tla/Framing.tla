------------------------------- MODULE Framing -------------------------------
(***************************************************************************)
(* HDLC-like framing: src/src/framing.cpp and its Python twin              *)
(* tools/serial_link/framing/framing.py.  The encoder is an operator; the  *)
(* streaming de-framer is its state plus the body of the loop in           *)
(* FrameDecoder::feed, one octet at a time.                                *)
(***************************************************************************)
EXTENDS Fcs, SequencesExt

FLAG == 126
ESC == 125
DEFAULT_ADDRESS == 255
DEFAULT_CONTROL == 3
MIN_LEN == 4

(* Mutant: the flag left alone.                                            *)
MustEscapeNoFlag(b) == b = ESC \/ b < 32

MustEscape(b) == b = FLAG \/ b = ESC \/ b < 32

(* b ^ 0x20.                                                               *)
Toggle(b) == IF (b \div 32) % 2 = 1 THEN b - 32 ELSE b + 32

-----------------------------------------------------------------------------
(* encode(): the octets between the flags before stuffing, one octet's     *)
(* image on the wire, and the whole frame.                                 *)
Payload(info) ==
  LET covered == <<DEFAULT_ADDRESS, DEFAULT_CONTROL>> \o info
  IN  covered \o FrameFcs(covered)

Stuff(b) == IF MustEscape(b) THEN <<ESC, Toggle(b)>> ELSE <<b>>

Encode(info) ==
  LET payload == Payload(info)
  IN  <<FLAG>> \o FlattenSeq([i \in DOMAIN payload |-> Stuff(payload[i])])
               \o <<FLAG>>

-----------------------------------------------------------------------------
(* FrameDecoder: buf_, in_frame_, esc_.                                    *)
Decoder == [buf : Seq(Octet), in_frame : BOOLEAN, esc : BOOLEAN]

NewDecoder == [buf |-> <<>>, in_frame |-> FALSE, esc |-> FALSE]

(* finish(): what the octets collected between two flags amount to.        *)
FrameOf(buf) ==
  [address |-> buf[1], control |-> buf[2],
   info    |-> SubSeq(buf, 3, Len(buf) - 2),
   fcs_ok  |-> CheckFcs(buf)]

Finish(buf) == IF Len(buf) < MIN_LEN THEN <<>> ELSE <<FrameOf(buf)>>

(* Mutants: a flag that leaves a pending escape, or the collected octets.  *)
DecoderAfterKeepsEsc(d, b) ==
  CASE b = FLAG -> [d EXCEPT !.buf = <<>>, !.in_frame = TRUE]
    [] b # FLAG /\ ~d.in_frame -> d
    [] b = ESC /\ d.in_frame -> [d EXCEPT !.esc = TRUE]
    [] b \notin {FLAG, ESC} /\ d.in_frame ->
         [d EXCEPT !.buf = Append(@, IF d.esc THEN Toggle(b) ELSE b), !.esc = FALSE]

DecoderAfterKeepsBuf(d, b) ==
  CASE b = FLAG -> [d EXCEPT !.in_frame = TRUE, !.esc = FALSE]
    [] b # FLAG /\ ~d.in_frame -> d
    [] b = ESC /\ d.in_frame -> [d EXCEPT !.esc = TRUE]
    [] b \notin {FLAG, ESC} /\ d.in_frame ->
         [d EXCEPT !.buf = Append(@, IF d.esc THEN Toggle(b) ELSE b), !.esc = FALSE]

(* feed(), one octet: the decoder's next state and the frames it yields    *)
(* (none or one).                                                          *)
DecoderAfter(d, b) ==
  CASE b = FLAG      -> [buf |-> <<>>, in_frame |-> TRUE, esc |-> FALSE]
    [] b # FLAG /\ ~d.in_frame -> d
    [] b = ESC /\ d.in_frame   -> [d EXCEPT !.esc = TRUE]
    [] b \notin {FLAG, ESC} /\ d.in_frame ->
         [d EXCEPT !.buf = Append(@, IF d.esc THEN Toggle(b) ELSE b),
                   !.esc = FALSE]

FramesAfter(d, b) == IF b = FLAG /\ d.in_frame THEN Finish(d.buf) ELSE <<>>

(* feed() on a run of octets, from decoder state d.                        *)
Frame == [address : Octet, control : Octet, info : Seq(Octet), fcs_ok : BOOLEAN]

Feeding == [decoder : Decoder, frames : Seq(Frame)]

FeedOne(f, b) == [decoder |-> DecoderAfter(f.decoder, b),
                  frames  |-> f.frames \o FramesAfter(f.decoder, b)]

Feed(d, octets) ==
  FoldLeft(LAMBDA fed, b : [f \in Feeding |-> FeedOne(f, b)][fed],
           [decoder |-> d, frames |-> <<>>], octets)
=============================================================================

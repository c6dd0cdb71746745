------------------------------ MODULE WireFormat ------------------------------
(***************************************************************************)
(* One INFO field after another, put together octet by octet as put_u8()   *)
(* and its siblings do, then framed by encode() and read back.  The        *)
(* properties say what the encoder and the de-framer owe each other for    *)
(* every INFO field that can be built, whatever the receiver was in the    *)
(* middle of.  (Init, Next and Spec have names of their own here, so that  *)
(* one module can hold the proofs about this and about FramedLink.)        *)
(***************************************************************************)
EXTENDS Framing, Codec, FcsFacts

CONSTANTS
  TypeOctets,   \* the first octets of INFO fields, known type ids and others
  Octets,       \* the octets put_u8() and put_u16be() append
  Words,        \* the four-octet fields put_u32be() and put_f32be() append
  MaxInfo,      \* bound: longest INFO field made of Octets
  Interrupted   \* decoder states a frame may find the receiver in

ASSUME WireFormatAssumption ==
  /\ TypeOctets \cup Octets \subseteq Octet
  /\ Words \subseteq [1..4 -> Octet]
  /\ MaxInfo \in Nat \ {0}
  /\ Interrupted \subseteq Decoder

VARIABLE info

InfoInit == info = <<>>

PutTypeId == info = <<>> /\ \E b \in TypeOctets : info' = <<b>>

PutOctet ==
  /\ info # <<>> /\ info[1] # TypeId.AttitudeSample /\ Len(info) < MaxInfo
  /\ \E b \in Octets : info' = Append(info, b)

PutWord ==
  /\ info # <<>> /\ info[1] = TypeId.AttitudeSample /\ Len(info) < 21
  /\ \E w \in Words : info' = info \o w

SendInfo == info # <<>> /\ info' = <<>>

InfoNext == PutTypeId \/ PutOctet \/ PutWord \/ SendInfo

InfoSpec == InfoInit /\ [][InfoNext]_info

-----------------------------------------------------------------------------
Intact == [address |-> DEFAULT_ADDRESS, control |-> DEFAULT_CONTROL,
           info |-> info, fcs_ok |-> TRUE]

(* Between its two flags a frame holds no flag and no control octet, so    *)
(* nothing inside it can end it early or act on a line discipline: the     *)
(* stuffing of encode() applied to INFO and to the FCS alike.              *)
Transparent ==
  LET wire == Encode(info)
  IN  /\ wire[1] = FLAG /\ wire[Len(wire)] = FLAG
      /\ \A i \in 2..(Len(wire) - 1) : wire[i] # FLAG /\ wire[i] >= 32

(* Whatever the decoder had collected when the line went quiet or the      *)
(* stream was joined, the next whole frame comes out exactly, last, and    *)
(* leaves the decoder ready: at most the interrupted frame is lost.        *)
SelfHeals ==
  \A d \in Interrupted :
    LET fed == Feed(d, Encode(info))
    IN  /\ Len(fed.frames) \in 1..2
        /\ fed.frames[Len(fed.frames)] = Intact
        /\ fed.decoder = [buf |-> <<>>, in_frame |-> TRUE, esc |-> FALSE]

(* The codec is exact: an INFO field that decodes is the only encoding of  *)
(* the message it decodes to, so no field is lost, swapped or ambiguous.   *)
Canonical ==
  LET decoded == Decode(info)
  IN  decoded.ok => EncodeMessage(decoded.message) = info
=============================================================================

------------------------------ MODULE FramedLink ------------------------------
(***************************************************************************)
(* Two applications joined by a serial line: send() frames a message onto  *)
(* the line (src/src/link.cpp send_info, framing.cpp encode), the line     *)
(* carries octets and may disturb them, and next() reads what has arrived, *)
(* feeds it to the de-framer, decodes the frames into its inbox and hands  *)
(* them over one at a time.  The same code is tools/serial_link/link.      *)
(***************************************************************************)
EXTENDS Framing, Codec, SequencesExt

CONSTANT Settings   \* the reads, the traffic and the noise to choose from

ASSUME FramedLinkAssumption ==
  Settings \subseteq
    [messages : SUBSET Message, octets : SUBSET Octet,
     readSize : Nat \ {0}, lineCap : Nat \ {0},
     maxSends : Nat, maxNoise : Nat, noisePerFrame : Nat]

VARIABLES
  setting,   \* the one chosen; constant
  sends,     \* messages handed to send() so far
  out,       \* octets of the current frame the transport has not sent yet
  line,      \* octets on the way, oldest first
  closed,    \* the sending end is closed; the reader will see end of file
  noise,     \* disturbances so far
  hurt,      \* disturbances of the current frame
  intact,    \* frames that left whole and undisturbed
  chunk,     \* what read() returned and feed() has not consumed
  decoder,   \* decoder_ : buf_, in_frame_, esc_
  frames,    \* the vector feed() is filling
  inbox,     \* inbox_
  got,       \* what next() returned to the application
  ended      \* next() returned nullopt at end of file

senderVars == <<setting, sends, out>>
lineVars   == <<line, closed, noise, hurt, intact>>
readerVars == <<chunk, decoder, frames, inbox, got, ended>>
vars == <<senderVars, lineVars, readerVars>>

Messages      == setting.messages        \* messages the sending application may send
NoiseOctets   == setting.octets          \* what noise may put on the line
ReadSize      == setting.readSize        \* read_size: most octets one read returns
LineCap       == setting.lineCap         \* bound: octets sent and not yet read
MaxSends      == setting.maxSends        \* bound: messages sent
MaxNoise      == setting.maxNoise        \* bound: disturbances
NoisePerFrame == setting.noisePerFrame   \* bound: disturbances within one frame

(* Mutant: the FCS ignored.                                                *)
WrapUnchecked(frame) == Decode(frame.info)

(* wrap(): a frame with a bad FCS is reported, not decoded.                *)
Wrap(frame) == IF frame.fcs_ok THEN Decode(frame.info) ELSE Failed("bad FCS")

WrapEach(fs) == [i \in DOMAIN fs |-> Wrap(fs[i])]

Init ==
  /\ setting \in Settings /\ sends = 0 /\ out = <<>>
  /\ line = <<>> /\ closed = FALSE /\ noise = 0 /\ hurt = 0 /\ intact = 0
  /\ chunk = <<>> /\ decoder = NewDecoder /\ frames = <<>>
  /\ inbox = <<>> /\ got = <<>> /\ ended = FALSE

-----------------------------------------------------------------------------
(* The sending application.  The transport takes the frame octet by octet. *)
Send(m) ==
  /\ ~closed /\ out = <<>> /\ sends < MaxSends
  /\ out' = Encode(EncodeMessage(m))
  /\ sends' = sends + 1
  /\ hurt' = 0
  /\ UNCHANGED <<setting, line, closed, noise, intact, readerVars>>

(* close(), or the sending process ending in the middle of a frame.        *)
Close ==
  /\ ~closed /\ closed' = TRUE
  /\ out' = <<>>
  /\ UNCHANGED <<setting, sends, line, noise, hurt, intact, readerVars>>

-----------------------------------------------------------------------------
(* The line.                                                               *)
Carry ==
  /\ out # <<>> /\ Len(line) < LineCap
  /\ line' = Append(line, Head(out)) /\ out' = Tail(out)
  /\ intact' = IF Len(out) = 1 /\ hurt = 0 THEN intact + 1 ELSE intact
  /\ UNCHANGED <<setting, sends, closed, noise, hurt, readerVars>>

Noise ==
  /\ ~closed /\ noise < MaxNoise /\ noise' = noise + 1
  /\ IF out = <<>> THEN UNCHANGED hurt
     ELSE hurt < NoisePerFrame /\ hurt' = hurt + 1
  /\ UNCHANGED <<setting, sends, closed, intact, readerVars>>

Drop == Noise /\ out # <<>> /\ out' = Tail(out) /\ UNCHANGED line

Alter ==
  /\ Noise
  /\ out # <<>> /\ Len(line) < LineCap
  /\ \E b \in NoiseOctets \ {Head(out)} : line' = Append(line, b)
  /\ out' = Tail(out)

Insert ==
  /\ Noise
  /\ Len(line) < LineCap
  /\ \E b \in NoiseOctets : line' = Append(line, b)
  /\ UNCHANGED out

-----------------------------------------------------------------------------
(* The receiving application calls next() again and again.                 *)
Reading == inbox = <<>> /\ chunk = <<>> /\ frames = <<>> /\ ~ended

(* Mutant: read() waits for read_size octets.                              *)
ReadFull ==
  /\ Reading /\ Len(line) >= ReadSize
  /\ chunk' = SubSeq(line, 1, ReadSize)
  /\ line' = SubSeq(line, ReadSize + 1, Len(line))
  /\ UNCHANGED <<senderVars, closed, noise, hurt, intact, decoder, frames,
                 inbox, got, ended>>

Read ==
  LET n == IF Len(line) < ReadSize THEN Len(line) ELSE ReadSize
  IN  /\ Reading /\ line # <<>>
      /\ chunk' = SubSeq(line, 1, n)
      /\ line' = SubSeq(line, n + 1, Len(line))
      /\ UNCHANGED <<senderVars, closed, noise, hurt, intact, decoder, frames,
                     inbox, got, ended>>

(* One turn of the loop in feed().                                         *)
FeedOctet ==
  /\ chunk # <<>>
  /\ chunk' = Tail(chunk)
  /\ decoder' = DecoderAfter(decoder, Head(chunk))
  /\ frames' = frames \o FramesAfter(decoder, Head(chunk))
  /\ UNCHANGED <<senderVars, lineVars, inbox, got, ended>>

(* feed() is done: its frames go to the inbox, wrapped.                    *)
FillInbox ==
  /\ chunk = <<>> /\ frames # <<>>
  /\ inbox' = inbox \o WrapEach(frames)
  /\ frames' = <<>>
  /\ UNCHANGED <<senderVars, lineVars, chunk, decoder, got, ended>>

Return ==
  /\ inbox # <<>>
  /\ got' = Append(got, Head(inbox)) /\ inbox' = Tail(inbox)
  /\ UNCHANGED <<senderVars, lineVars, chunk, decoder, frames, ended>>

(* Mutant: end of file reported before the inbox is empty.                 *)
AtEofEager ==
  /\ chunk = <<>> /\ frames = <<>> /\ ~ended /\ line = <<>> /\ closed
  /\ ended' = TRUE
  /\ UNCHANGED <<senderVars, lineVars, chunk, decoder, frames, inbox, got>>

AtEof ==
  /\ Reading /\ line = <<>> /\ closed
  /\ ended' = TRUE
  /\ UNCHANGED <<senderVars, lineVars, chunk, decoder, frames, inbox, got>>

-----------------------------------------------------------------------------
Sender   == (\E m \in Messages : Send(m)) \/ Close
Line     == Carry \/ Drop \/ Alter \/ Insert
Receiver == Read \/ FeedOctet \/ FillInbox \/ Return \/ AtEof

Next == Sender \/ Line \/ Receiver

Spec == Init /\ [][Next]_vars

(* The receiving application is a loop around next().                      *)
FairSpec == Spec /\ WF_vars(Receiver)

-----------------------------------------------------------------------------
(* The messages among a run of results of next().                          *)
MessagesOf(results) ==
  LET good == SelectSeq(results, LAMBDA r : r.ok)
  IN  [i \in DOMAIN good |-> good[i].message]

(* What the receiver still has to hand over if the line stays clean and,   *)
(* while the sender lives, one more flag arrives, as the next frame's      *)
(* opening flag does: a frame whose closing flag was hit waits for it.     *)
Pending ==
  [fed \in Feeding |-> MessagesOf(inbox \o WrapEach(frames \o fed.frames))]
    [Feed(decoder, chunk \o line \o out \o IF closed THEN <<>> ELSE <<FLAG>>)]

Channel == INSTANCE FrameChannel
             WITH Messages <- UNION {s.messages : s \in Settings}, accepted <- sends, queue <- Pending,
                  delivered <- MessagesOf(got), damage <- noise

(* The link is the lossy FIFO FrameChannel promises: stuffing, re-synching,*)
(* split and merged reads and the inbox never forge, alter, repeat or      *)
(* reorder a message, and each disturbance costs one message at most, also *)
(* when it hits a flag two frames share.                                   *)
ImplementsChannel == Channel!Spec

(* How many results of next() are messages (ok), or bad frames.            *)
Count(results, ok) == Cardinality({i \in DOMAIN results : results[i].ok = ok})

(* Bad frames reported to the application are noise, not debris the        *)
(* de-framer makes of good frames: a disturbance splits at most one frame  *)
(* in two.                                                                 *)
BadFramesNeedNoise ==
  Count(got \o inbox \o WrapEach(frames), FALSE) <= 2 * noise

(* next() reports the end of the stream only after handing over every      *)
(* frame that left intact, those decoded together with the last octets     *)
(* included.                                                               *)
NothingLeftAtEof == ended => Count(got, TRUE) >= intact

(* Every frame that leaves intact is handed over in the end, with no help  *)
(* from a later frame or from the peer closing.                            *)
IntactArrives == <>[](Count(got, TRUE) >= intact)
=============================================================================

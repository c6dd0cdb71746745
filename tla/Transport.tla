------------------------------ MODULE Transport ------------------------------
(***************************************************************************)
(* One application on a terminal device: the master side of a pseudo-      *)
(* terminal (PtyTransport, non-blocking) or a serial port (SerialTransport,*)
(* blocking), in C++ (src/transport.cpp) or Python (transport/virtual.py,  *)
(* transport/cable.py).  The application sends frames with write() and     *)
(* otherwise runs the receive loop; the far end is opened, written, read   *)
(* and closed by somebody else.  Octets are numbered in the order send()   *)
(* was given them.  TcpTransport is part of C2Tcp.                         *)
(***************************************************************************)
EXTENDS Integers, Sequences

CONSTANTS
  Setups,      \* the devices and implementations to choose from
  FrameLen,    \* octets of a frame
  Capacity,    \* octets the system holds for the far end
  MaxFrames,   \* bound: frames sent
  MaxArrivals, \* bound: octets the far end writes
  MaxOpens     \* bound: times the far end is opened

ASSUME TransportAssumption ==
  /\ Setups \subseteq [device : {"pty", "serial"}, code : {"cpp", "python"}]
  /\ FrameLen \in Nat \ {0} /\ Capacity \in Nat \ {0}
  /\ MaxFrames \in Nat /\ MaxArrivals \in Nat /\ MaxOpens \in Nat

VARIABLES
  setup,      \* what the application runs on and is written in; constant
  process,    \* "running" | "ended" (receive loop at eof) | "failed" (exception)
  sent,       \* frames given to write()
  writing,    \* octets write() has still to hand over
  peer,       \* the far end: "absent" | "open" | "gone"
  out,        \* octets held for the far end
  in          \* how many octets wait to be read by the application

codeVars == <<setup, process, sent, writing>>
lineVars == <<peer, out, in>>

VARIABLES
  got,        \* history: octets the far end has read
  opens,      \* history: times the far end was opened
  closes,     \* history: times it was closed
  arrivals    \* history: octets it wrote

historyVars == <<got, opens, closes, arrivals>>
vars == <<codeVars, lineVars, historyVars>>

OnPty == setup.device = "pty"
InPython == setup.code = "python"

(* A serial port is opened with the line in place; the slave side of a     *)
(* pseudo-terminal is closed by the constructor.                           *)
Init ==
  /\ setup \in Setups
  /\ process = "running" /\ sent = 0 /\ writing = <<>>
  /\ peer = IF OnPty THEN "absent" ELSE "open"
  /\ out = <<>> /\ in = 0
  /\ got = <<>> /\ opens = 0 /\ closes = 0 /\ arrivals = 0

-----------------------------------------------------------------------------
(* The far end.                                                            *)
PeerOpen ==
  /\ OnPty /\ peer # "open" /\ opens < MaxOpens
  /\ peer' = "open" /\ opens' = opens + 1
  /\ UNCHANGED <<codeVars, out, in, got, closes, arrivals>>

(* Closing the slave side keeps some of what it had not read; a hang-up of *)
(* a serial port discards both directions.                                 *)
PeerClose ==
  /\ peer = "open" /\ peer' = "gone" /\ closes' = closes + 1
  /\ IF OnPty
     THEN (\E k \in 0..Len(out) : out' = SubSeq(out, 1, k)) /\ in' = in
     ELSE out' = <<>> /\ in' = 0
  /\ UNCHANGED <<codeVars, got, opens, arrivals>>

PeerWrite ==
  /\ peer = "open" /\ arrivals < MaxArrivals
  /\ in' = in + 1 /\ arrivals' = arrivals + 1
  /\ UNCHANGED <<codeVars, peer, out, got, opens, closes>>

PeerRead ==
  /\ peer = "open" /\ out # <<>>
  /\ got' = Append(got, Head(out)) /\ out' = Tail(out)
  /\ UNCHANGED <<codeVars, peer, in, opens, closes, arrivals>>

-----------------------------------------------------------------------------
(* Octets of the first k frames.                                           *)
Octets(k) == [i \in 1..(k * FrameLen) |-> i]

Send ==
  /\ process = "running" /\ writing = <<>> /\ sent < MaxFrames
  /\ sent' = sent + 1
  /\ writing' = [i \in 1..FrameLen |-> sent * FrameLen + i]
  /\ UNCHANGED <<setup, process, lineVars, historyVars>>

Room == Capacity - Len(out)
Handed(octets) == IF Len(octets) < Room THEN Len(octets) ELSE Room

(* write_all() calls again for the rest, as pyserial does; the Python      *)
(* pseudo-terminal calls os.write() once.                                  *)
Loops == ~(OnPty /\ InPython)

CanWrite == process = "running" /\ writing # <<>> /\ Room > 0 /\ (OnPty \/ peer = "open")

(* Mutant: every call passes the length of the whole frame.                *)
WriteSomeOverrun ==
  /\ CanWrite
  /\ LET whole == [i \in 1..FrameLen |-> Head(writing) + i - 1]
     IN  out' = out \o SubSeq(whole, 1, Handed(whole))
  /\ writing' = SubSeq(writing, Handed(writing) + 1, Len(writing))
  /\ UNCHANGED <<setup, process, sent, peer, in, historyVars>>

(* Mutant: one call, whatever it took.                                     *)
WriteSomeOnce ==
  /\ CanWrite
  /\ out' = out \o SubSeq(writing, 1, Handed(writing))
  /\ writing' = <<>>
  /\ UNCHANGED <<setup, process, sent, peer, in, historyVars>>

(* Mutant: the next call passes the frame from its first octet again.      *)
WriteSomeFromStart ==
  /\ CanWrite
  /\ LET frame == [i \in 1..FrameLen |-> (sent - 1) * FrameLen + i]
     IN  out' = out \o SubSeq(frame, 1, Handed(writing))
  /\ writing' = IF Loops THEN SubSeq(writing, Handed(writing) + 1, Len(writing)) ELSE <<>>
  /\ UNCHANGED <<setup, process, sent, peer, in, historyVars>>

WriteSome ==
  /\ CanWrite
  /\ out' = out \o SubSeq(writing, 1, Handed(writing))
  /\ writing' = IF Loops THEN SubSeq(writing, Handed(writing) + 1, Len(writing)) ELSE <<>>
  /\ UNCHANGED <<setup, process, sent, peer, in, historyVars>>

(* EAGAIN from the non-blocking master, EIO from a port that hung up.      *)
WriteFails ==
  /\ process = "running" /\ writing # <<>>
  /\ IF OnPty THEN Room = 0 ELSE peer = "gone"
  /\ process' = "failed"
  /\ UNCHANGED <<setup, sent, writing, lineVars, historyVars>>

-----------------------------------------------------------------------------
(* read() and what the receive loop makes of it.  With nothing to read and *)
(* the far end open, read() is empty and the loop goes round.              *)
Reading == process = "running" /\ writing = <<>>

ReadSome ==
  /\ Reading /\ \E k \in 1..in : in' = in - k
  /\ UNCHANGED <<codeVars, peer, out, historyVars>>

(* Mutant: the error is taken for no data.                                 *)
ReadEofIgnored == OnPty /\ Reading /\ in = 0 /\ peer # "open" /\ UNCHANGED vars

(* EIO from the master while no slave side is open sets eof; the system    *)
(* gives it once what the far end wrote has been read.                     *)
ReadEof ==
  /\ OnPty /\ Reading /\ in = 0 /\ peer # "open"
  /\ process' = "ended"
  /\ UNCHANGED <<setup, sent, writing, lineVars, historyVars>>

(* A port that hung up: pyserial raises; in C++ ::read() returns 0, an     *)
(* empty read without eof, and the loop goes round.                        *)
ReadFails ==
  /\ ~OnPty /\ InPython /\ Reading /\ peer = "gone"
  /\ process' = "failed"
  /\ UNCHANGED <<setup, sent, writing, lineVars, historyVars>>

Application == WriteSome \/ WriteFails \/ ReadSome \/ ReadEof \/ ReadFails

Next ==
  \/ PeerOpen \/ PeerClose \/ PeerWrite \/ PeerRead
  \/ Send \/ Application

Spec == Init /\ [][Next]_vars

(* A write() in progress and the receive loop go on.                       *)
FairSpec == Spec /\ WF_vars(Application)

-----------------------------------------------------------------------------
TypeOK ==
  /\ setup \in Setups
  /\ process \in {"running", "ended", "failed"} /\ peer \in {"absent", "open", "gone"}
  /\ sent \in 0..MaxFrames /\ arrivals \in 0..MaxArrivals /\ in \in 0..arrivals
  /\ opens \in 0..MaxOpens /\ closes \in 0..(opens + 1)
  /\ {writing, out, got} \subseteq Seq(1..(sent * FrameLen)) /\ Len(out) \in 0..Capacity

(* What the far end has read, what is held for it and what write() has     *)
(* left.                                                                   *)
Kept == got \o out \o writing

(* "Write all of `data`", where write() loops: until the far end closes,   *)
(* these are the frames sent, octet for octet, also when write() failed    *)
(* half-way.                                                               *)
WritesWhole == Loops /\ closes = 0 => Kept = Octets(sent)

(* The first octets of the frames sent.                                    *)
Firsts == {k * FrameLen + 1 : k \in 0..(sent - 1)}

(* What the Python pseudo-terminal's single os.write() can lose is the end *)
(* of a frame: none loses its beginning or a middle, is repeated or passes *)
(* another.                                                                *)
OnlyTailsLost ==
  closes = 0 =>
    /\ Firsts \subseteq {Kept[i] : i \in 1..Len(Kept)}
    /\ \A i \in 1..Len(Kept) :
         IF Kept[i] \in Firsts THEN i = 1 \/ Kept[i - 1] < Kept[i]
                              ELSE i > 1 /\ Kept[i - 1] = Kept[i] - 1

(* "eof reports that the far end has closed, so a receive loop can         *)
(* terminate instead of spinning": a far end that stays closed ends it, on *)
(* a pseudo-terminal or by an exception from pyserial.  The serial port of *)
(* C++ is excepted: ::read() returns 0 and the loop goes round for ever.   *)
StopsWithPeer ==
  peer = "gone" /\ (OnPty \/ InPython) ~> process # "running" \/ peer = "open"

(* "True once the peer has closed / the device is gone": the loop ends     *)
(* only after a peer that was there has closed.                            *)
EofMeansClosed == process = "ended" => closes > 0
=============================================================================

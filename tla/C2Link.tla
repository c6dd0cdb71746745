------------------------------- MODULE C2Link -------------------------------
(***************************************************************************)
(* Register command and control over one point-to-point line: a host that  *)
(* sends a request and takes the next frame as its reply                   *)
(* (FramedLink::request and apps/c2), and the device that serves requests  *)
(* (tools/apps/device_sim).  The line is the one FramedLink.tla models,    *)
(* seen by message: a frame arrives, arrives damaged or does not arrive,   *)
(* in order.  Every message carries the number of the request it belongs   *)
(* to, which the code does not have: correlation is by position only.      *)
(***************************************************************************)
EXTENDS Registers, SequencesExt

CONSTANTS
  Requests,      \* messages the host may send
  Strays,        \* messages another talker may put on the line to the device
  MaxRequests,   \* bound: requests issued
  MaxFaults      \* bound: frames lost, damaged or strayed

(* c2 sends the two requests only, and it alone does: the line has one     *)
(* host.  What else reaches the device are responses, telemetry, and what  *)
(* does not decode.                                                        *)
ASSUME C2LinkAssumption ==
  /\ MaxRequests \in Nat /\ MaxFaults \in Nat
  /\ Requests \subseteq [type : {"ReadRegister"}, addr : Nat, count : Nat]
                     \cup [type : {"WriteRegister"}, addr : Nat, value : Nat]
  /\ \A m \in Strays : m.type \notin {"ReadRegister", "WriteRegister"}

VARIABLES
  issued,     \* requests the host has sent; the last one's number
  waiting,    \* the host is inside request(), after its send
  request,    \* the last request sent
  results,    \* what request() returned and c2 made of it, oldest first
  timeouts,   \* how often the host gave up waiting
  toDevice,   \* frames on the way to the device
  toHost,     \* frames on the way to the host, its inbox_ included
  regs,       \* the device's register bank
  served,     \* numbers of the host's requests the device has acted on, in order
  errors,     \* serve()'s count of frames that were not ok
  faults      \* bound: what has happened on the line

hostVars   == <<issued, waiting, request, results, timeouts>>
deviceVars == <<regs, served, errors>>
vars == <<hostVars, deviceVars, toDevice, toHost, faults>>

(* A frame with a bad FCS.  Like a message of a type the catalogue does    *)
(* not have it comes out of next() with an error instead of a message.     *)
Garbled == [type |-> "garbled"]
Decodes(m) == m.type \in DOMAIN TypeId

Init ==
  /\ issued = 0 /\ waiting = FALSE /\ request = Garbled
  /\ results = <<>> /\ timeouts = 0
  /\ toDevice = <<>> /\ toHost = <<>>
  /\ regs = InitialRegs /\ served = <<>> /\ errors = 0
  /\ faults = 0

-----------------------------------------------------------------------------
(* The host.                                                               *)
(* Mutant: every request sent twice.                                       *)
IssueTwice(r) ==
  /\ ~waiting /\ issued < MaxRequests
  /\ issued' = issued + 1 /\ request' = r /\ waiting' = TRUE
  /\ LET frame == [id |-> issued + 1, msg |-> r]
     IN  toDevice' = toDevice \o <<frame, frame>>
  /\ UNCHANGED <<results, timeouts, deviceVars, toHost, faults>>

Issue(r) ==
  /\ ~waiting /\ issued < MaxRequests
  /\ issued' = issued + 1 /\ request' = r /\ waiting' = TRUE
  /\ toDevice' = Append(toDevice, [id |-> issued + 1, msg |-> r])
  /\ UNCHANGED <<results, timeouts, deviceVars, toHost, faults>>

(* How c2 classifies the frame request() returned.                         *)
Outcome(m) ==
  CASE ~Decodes(m) -> "error"
    [] m.type = "Nak" -> "nak"
    [] m.type \in {"ReadResponse", "WriteAck"} -> "ok"
    [] m.type \in {"ReadRegister", "WriteRegister", "AttitudeSample"} -> "other"

Conclude(outcome, id, reply) ==
  /\ waiting /\ waiting' = FALSE
  /\ results' = Append(results, [id |-> issued, request |-> request,
                                 outcome |-> outcome, of |-> id, reply |-> reply])
  /\ UNCHANGED <<issued, request, deviceVars, toDevice, faults>>

(* Mutant: front() without pop_front().                                    *)
ReceivePeek ==
  /\ toHost # <<>>
  /\ Conclude(Outcome(Head(toHost).msg), Head(toHost).id, Head(toHost).msg)
  /\ UNCHANGED <<timeouts, toHost>>

Receive ==
  /\ toHost # <<>>
  /\ toHost' = Tail(toHost)
  /\ Conclude(Outcome(Head(toHost).msg), Head(toHost).id, Head(toHost).msg)
  /\ UNCHANGED timeouts

(* The deadline passes; it may do so while a reply is on the way.          *)
Timeout ==
  /\ Conclude("timeout", issued, NoReply)
  /\ timeouts' = timeouts + 1
  /\ UNCHANGED toHost

(* The next c2 run opens the port anew: what had arrived is gone, what is  *)
(* still to come is not.                                                   *)
Reopen ==
  /\ ~waiting /\ toHost # <<>>
  /\ toHost' = <<>>
  /\ UNCHANGED <<hostVars, deviceVars, toDevice, faults>>

-----------------------------------------------------------------------------
(* The device: one turn of serve().                                        *)
Skip ==
  /\ toDevice # <<>> /\ ~Decodes(Head(toDevice).msg)
  /\ toDevice' = Tail(toDevice)
  /\ errors' = errors + 1
  /\ UNCHANGED <<hostVars, regs, served, toHost, faults>>

(* Mutant: the device repeats its reply.                                   *)
ServeRepeating ==
  /\ toDevice # <<>> /\ Decodes(Head(toDevice).msg)
  /\ LET frame == Head(toDevice)
         reply == Reply(regs, frame.msg)
     IN  /\ regs' = RegsAfter(regs, frame.msg)
         /\ toHost' = IF reply = NoReply THEN toHost
                      ELSE toHost \o [n \in 1..2 |-> [id |-> frame.id, msg |-> reply]]
         /\ served' = IF frame.id = 0 THEN served ELSE Append(served, frame.id)
  /\ toDevice' = Tail(toDevice)
  /\ UNCHANGED <<hostVars, errors, faults>>

Serve ==
  /\ toDevice # <<>> /\ Decodes(Head(toDevice).msg)
  /\ LET frame == Head(toDevice)
         reply == Reply(regs, frame.msg)
     IN  /\ regs' = RegsAfter(regs, frame.msg)
         /\ toHost' = IF reply = NoReply THEN toHost
                      ELSE Append(toHost, [id |-> frame.id, msg |-> reply])
         /\ served' = IF frame.id = 0 THEN served ELSE Append(served, frame.id)
  /\ toDevice' = Tail(toDevice)
  /\ UNCHANGED <<hostVars, errors, faults>>

-----------------------------------------------------------------------------
(* The line.                                                               *)
Fault == faults < MaxFaults /\ faults' = faults + 1

Hit(channel, i) ==
  {RemoveAt(channel, i), [channel EXCEPT ![i].msg = Garbled]}

DamageRequest ==
  /\ Fault
  /\ \E i \in DOMAIN toDevice : toDevice' \in Hit(toDevice, i)
  /\ UNCHANGED <<hostVars, deviceVars, toHost>>

DamageReply ==
  /\ Fault
  /\ \E i \in DOMAIN toHost : toHost' \in Hit(toHost, i)
  /\ UNCHANGED <<hostVars, deviceVars, toDevice>>

Stray(m) ==
  /\ Fault
  /\ toDevice' = Append(toDevice, [id |-> 0, msg |-> m])
  /\ UNCHANGED <<hostVars, deviceVars, toHost>>

Next ==
  \/ \E r \in Requests : Issue(r)
  \/ Receive \/ Timeout \/ Reopen
  \/ Skip \/ Serve
  \/ DamageRequest \/ DamageReply \/ \E m \in Strays : Stray(m)

Spec == Init /\ [][Next]_vars

-----------------------------------------------------------------------------
Frames(channel) == \A i \in DOMAIN channel : channel[i].id \in 0..issued

TypeOK ==
  /\ issued \in 0..MaxRequests /\ waiting \in BOOLEAN
  /\ request \in Requests \cup {Garbled}
  /\ timeouts \in 0..issued /\ faults \in 0..MaxFaults /\ errors \in Nat
  /\ Frames(toDevice) /\ Frames(toHost)
  /\ regs \in Bank
  /\ served \in Seq(0..issued)
  /\ Len(results) = issued - (IF waiting THEN 1 ELSE 0)
  /\ \A i \in DOMAIN results : results[i].id = i /\ results[i].of \in 0..i

Own(r) == r.of = r.id

(* A result that used up a request without one of its replies being taken: *)
(* the host gave up waiting, or took the device's answer to a stray frame. *)
Slip(r) == r.outcome = "timeout" \/ r.of = 0

(* Position is enough to correlate until the first slip: every frame that  *)
(* request() returned before belongs to that very request, whatever the    *)
(* line lost or damaged.                                                   *)
CorrelatedUntilSlip ==
  \A j \in DOMAIN results :
    (\A i \in 1..j : ~Slip(results[i])) => Own(results[j])

(* The host can tell: as long as request() timed out on nothing and        *)
(* returned neither a bad frame nor the one refusal that the device gives  *)
(* to no request (respond() answers telemetry with NAK_UNKNOWN_CMD), each  *)
(* reply was the request's own.                                            *)
Suspicious(r) ==
  \/ r.outcome \in {"timeout", "error"}
  \/ r.outcome = "nak" /\ r.reply.code = NAK_UNKNOWN_CMD

SlipsShow ==
  \A j \in DOMAIN results :
    (\A i \in 1..j : ~Suspicious(results[i])) => Own(results[j])

(* The reply to a request is taken once, in order, and is late by no more  *)
(* requests than have slipped before: request() draws from a FIFO inbox    *)
(* and the device answers in order.                                        *)
RepliesAdvance ==
  \A j \in DOMAIN results :
    ~Slip(results[j]) =>
      /\ \A i \in 1..(j - 1) : ~Slip(results[i]) => results[i].of < results[j].of
      /\ results[j].id - results[j].of <=
           Cardinality({i \in 1..(j - 1) : Slip(results[i])})

(* The device acts on a request once at most and in the order of issue,    *)
(* also on those the host has stopped waiting for.                         *)
ServedInOrder ==
  \A i, j \in DOMAIN served : i < j => served[i] < served[j]

(* What a read may return, by what the host itself has seen: the last write*)
(* whose acknowledgement it got, or one issued since of which it never     *)
(* learned the fate.                                                       *)
PossibleValues(j, a) ==
  LET writes == {i \in 1..(j - 1) : /\ results[i].request.type = "WriteRegister"
                                    /\ results[i].request.addr = a /\ Writable(a)}
      acked  == {i \in writes : Own(results[i]) /\ results[i].outcome = "ok"}
  IN  {U16(results[i].request.value) : i \in {w \in writes : \A k \in acked : w >= k}}
        \cup IF acked = {} THEN {InitialRegs[a]} ELSE {}

(* Reads are consistent with that, through timeouts, losses and late       *)
(* replies: an acknowledged write is never undone and no abandoned write   *)
(* surfaces after a later acknowledged one.                                *)
ConsistentReads ==
  \A j \in DOMAIN results :
    Own(results[j]) /\ results[j].reply.type = "ReadResponse" =>
      \A i \in DOMAIN results[j].reply.values :
        results[j].reply.values[i] \in PossibleValues(j, results[j].request.addr + i - 1)

(* Every request that reaches the device undamaged draws exactly one reply,*)
(* a refusal at least; a damaged frame draws none and changes no register, *)
(* so that its host times out.                                             *)
ServeStep == toDevice # <<>> /\ toDevice' = Tail(toDevice) /\ faults' = faults

EveryRequestAnswered ==
  [][ServeStep =>
       IF Head(toDevice).msg = Garbled THEN UNCHANGED <<toHost, regs>>
       ELSE Head(toDevice).id # 0 =>
              /\ Len(toHost') = Len(toHost) + 1
              /\ toHost'[Len(toHost')].id = Head(toDevice).id]_vars

(* What the interface document asks of the host: a frame taken for success *)
(* is the response to the request that was sent.                           *)
RepliesMatch ==
  \A i \in DOMAIN results :
    LET r == results[i]
    IN  r.outcome = "ok" =>
          /\ r.reply.addr = r.request.addr
          /\ r.request.type = "ReadRegister" =>
               r.reply.type = "ReadResponse" /\ Len(r.reply.values) = r.request.count
          /\ r.request.type = "WriteRegister" =>
               r.reply.type = "WriteAck" /\ r.reply.value = r.request.value
=============================================================================

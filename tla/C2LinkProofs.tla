----------------------------- MODULE C2LinkProofs -----------------------------
(***************************************************************************)
(* Register commands over one line, for any set of requests, any bank, any *)
(* number of requests and of faults.                                       *)
(***************************************************************************)
EXTENDS C2Link, DataFacts, FiniteSetTheorems

-----------------------------------------------------------------------------
(* A field of 16 bits, whatever number was put into it.                    *)
LEMMA U16Value == ASSUME NEW v \in Int PROVE U16(v) \in Value
<1> DEFINE m == 65536
<1>1. m \in Nat \ {0} OBVIOUS
<1>2. m - 1 = 65535 BY SMT
<1>3. U16(v) = v % m BY DEF U16
<1>4. Value = 0..(m - 1) BY <1>2 DEF Value
<1> HIDE DEF m
<1> QED BY <1>1, <1>3, <1>4, Division

(* The registers hold 16 bits each when the device starts, ...             *)
LEMMA InitialRegsBank == InitialRegs \in Bank
<1> SUFFICES ASSUME NEW a \in Address
             PROVE  (IF a \in DOMAIN Seed THEN U16(Seed[a]) ELSE 0) \in Value
  BY DEF InitialRegs, Bank
<1>1. CASE a \in DOMAIN Seed
  <2>1. Seed[a] \in Int BY <1>1, RegistersAssumption
  <2>2. U16(Seed[a]) \in Value BY <2>1, U16Value
  <2> QED BY <1>1, <2>2
<1>2. CASE a \notin DOMAIN Seed BY <1>2 DEF Value
<1> QED BY <1>1, <1>2

(* ... and whatever message it is sent.                                    *)
LEMMA RegsAfterBank ==
  ASSUME NEW r \in Bank, NEW m, m.type = "WriteRegister" => m.value \in Int
  PROVE  RegsAfter(r, m) \in Bank
<1>1. CASE m.type = "WriteRegister"
  <2>1. m.value \in Int BY <1>1
  <2>2. U16(m.value) \in Value BY <2>1, U16Value
  <2> QED BY <2>2 DEF RegsAfter, Bank
<1>2. CASE m.type # "WriteRegister" BY <1>2 DEF RegsAfter
<1> QED BY <1>1, <1>2
-----------------------------------------------------------------------------
(* What the parts of the state look like.                                  *)
(* The refusal that telemetry draws belongs to no request.                 *)
Unknown == [type |-> "Nak", code |-> NAK_UNKNOWN_CMD, addr |-> 0]
Answer == {Reply(b, r) : b \in Bank, r \in Requests} \cup {Unknown}

DeviceFrame == [id : 0..MaxRequests, msg : Requests \cup Strays \cup {Garbled}]
HostFrame == [id : 0..MaxRequests, msg : Answer \cup {Garbled}]
Result == [id : 1..MaxRequests, request : Requests, of : 0..MaxRequests,
           outcome : {"error", "nak", "ok", "timeout"},
           reply : Answer \cup {Garbled, NoReply}]

Types ==
  /\ TypeOK
  /\ issued > 0 => request \in Requests
  /\ toDevice \in Seq(DeviceFrame) /\ toHost \in Seq(HostFrame)
  /\ results \in Seq(Result) /\ timeouts <= Len(results)

(* The request that the host has sent as its n-th.                         *)
SentIn(concluded, last, n) == IF n <= Len(concluded) THEN concluded[n].request ELSE last
Sent(n) == SentIn(results, request, n)

(* The frames that the host has put on the line carry its requests, and    *)
(* the device has taken them in their order, as the host takes the replies.*)
Ours(channel) == {k \in DOMAIN channel : channel[k].id # 0}
Served(n) == \E i \in DOMAIN served : served[i] = n

Carried ==
  /\ \A k \in DOMAIN toDevice :
       toDevice[k].msg \in (IF toDevice[k].id # 0 THEN {Sent(toDevice[k].id)} ELSE Strays)
                             \cup {Garbled}
  /\ \A k \in DOMAIN toHost : toHost[k].id = 0 => toHost[k].msg \in {Unknown, Garbled}

(* The host sees what it has given up, and what it took of a stray.        *)
Concluded ==
  \A j \in DOMAIN results :
    /\ results[j].outcome = "timeout" => results[j].reply = NoReply
    /\ Slip(results[j]) => Suspicious(results[j])

Forth ==
  /\ ServedInOrder /\ ~Served(0)
  /\ \A k, l \in Ours(toDevice) : k < l => toDevice[k].id < toDevice[l].id
  /\ \A k \in Ours(toDevice) : \A i \in DOMAIN served : served[i] < toDevice[k].id

Taken == {j \in DOMAIN results : ~Slip(results[j])}

Back ==
  /\ \A k \in Ours(toHost) : Served(toHost[k].id)
  /\ \A k, l \in Ours(toHost) : k < l => toHost[k].id < toHost[l].id
  /\ \A j \in Taken : /\ Served(results[j].of)
                      /\ \A k \in Ours(toHost) : results[j].of < toHost[k].id
                      /\ \A i \in Taken : i < j => results[i].of < results[j].of

(* What is late, is late by no more requests than have slipped.            *)
OnTheLine ==
  {toDevice[k].id : k \in Ours(toDevice)} \cup {toHost[k].id : k \in Ours(toHost)}

GivenUp(n) == {i \in 1..n : Slip(results[i])}

Late ==
  /\ \A n \in OnTheLine : Len(results) + 1 - n <= Cardinality(GivenUp(Len(results)))
  /\ \A j \in Taken : j - results[j].of <= Cardinality(GivenUp(j - 1))

(* What register a held when the device came to request n: the value of    *)
(* the last write to it among the requests that the device served earlier. *)
Writes(n, a) ==
  {k \in 1..(n - 1) : /\ Served(k) /\ Sent(k).type = "WriteRegister"
                      /\ Sent(k).addr = a /\ Writable(a)}

Held(v, n, a) ==
  \/ Writes(n, a) = {} /\ v = InitialRegs[a]
  \/ \E k \in Writes(n, a) : /\ v = U16(Sent(k).value)
                             /\ \A l \in Writes(n, a) : l <= k

ReadAt(m, n) ==
  m.type = "ReadResponse" =>
    \A i \in DOMAIN m.values : /\ Sent(n).addr + i - 1 \in Address
                               /\ Held(m.values[i], n, Sent(n).addr + i - 1)

Values ==
  /\ \A a \in Address : Held(regs[a], issued + 1, a)
  /\ \A k \in Ours(toHost) : ReadAt(toHost[k].msg, toHost[k].id)
  /\ \A j \in Taken : ReadAt(results[j].reply, results[j].of)

IInv == Types /\ Carried /\ Concluded /\ Forth /\ Back /\ Late /\ Values

-----------------------------------------------------------------------------
(* What a fault leaves of a channel: some of its frames in their order,    *)
(* with their numbers, each as it was or garbled.                          *)
Thinned(t, s) ==
  \E at \in [DOMAIN t -> DOMAIN s] :
    /\ \A k, l \in DOMAIN t : k < l => at[k] < at[l]
    /\ \A k \in DOMAIN t :
         t[k].id = s[at[k]].id /\ (t[k].msg = s[at[k]].msg \/ t[k].msg = Garbled)

(* The same of the host's own frames, whatever becomes of those of strays. *)
Fewer(t, s) ==
  \E at \in [Ours(t) -> Ours(s)] :
    /\ \A k, l \in Ours(t) : k < l => at[k] < at[l]
    /\ \A k \in Ours(t) :
         t[k].id = s[at[k]].id /\ (t[k].msg = s[at[k]].msg \/ t[k].msg = Garbled)

(* A channel that was thinned has not more of the host's own frames.       *)
LEMMA ThinnedFewer == ASSUME NEW s, NEW t, Thinned(t, s) PROVE Fewer(t, s)
<1>1. PICK at \in [DOMAIN t -> DOMAIN s] :
        /\ \A k, l \in DOMAIN t : k < l => at[k] < at[l]
        /\ \A k \in DOMAIN t :
             t[k].id = s[at[k]].id /\ (t[k].msg = s[at[k]].msg \/ t[k].msg = Garbled)
  BY DEF Thinned
<1> DEFINE own == [k \in Ours(t) |-> at[k]]
<1>2. \A k \in Ours(t) : k \in DOMAIN t /\ at[k] \in Ours(s) BY <1>1 DEF Ours
<1>3. own \in [Ours(t) -> Ours(s)] /\ \A k \in Ours(t) : own[k] = at[k] BY <1>2
<1>4. \A k, l \in Ours(t) : k < l => own[k] < own[l] BY <1>1, <1>2, <1>3
<1>5. \A k \in Ours(t) :
        t[k].id = s[own[k]].id /\ (t[k].msg = s[own[k]].msg \/ t[k].msg = Garbled)
  BY <1>1, <1>2, <1>3
<1> HIDE DEF own
<1> QED BY <1>3, <1>4, <1>5 DEF Fewer

(* Nor has one that the answer to a stray joined.                          *)
LEMMA ForeignFewer ==
  ASSUME NEW S, NEW s \in Seq(S), NEW f \in S, f.id = 0
  PROVE  Fewer(Append(s, f), s)
<1>1. /\ DOMAIN s = 1..Len(s) /\ Len(s) \in Nat
      /\ DOMAIN Append(s, f) = 1..(Len(s) + 1)
      /\ \A k \in DOMAIN s : Append(s, f)[k] = s[k]
      /\ Append(s, f)[Len(s) + 1] = f
  BY AppendElements
<1> DEFINE t == Append(s, f)
<1>2. DOMAIN t = DOMAIN s \cup {Len(s) + 1} BY <1>1
<1>3. (\A k \in DOMAIN s : t[k] = s[k]) /\ t[Len(s) + 1] = f BY <1>1
<1> HIDE DEF t
<1>4. Ours(t) \subseteq Ours(s) /\ \A k \in Ours(t) : t[k] = s[k] BY <1>2, <1>3 DEF Ours
<1> DEFINE own == [k \in Ours(t) |-> k]
<1>5. own \in [Ours(t) -> Ours(s)] /\ \A k \in Ours(t) : own[k] = k BY <1>4
<1> HIDE DEF own
<1>6. Fewer(t, s) BY <1>4, <1>5 DEF Fewer
<1> QED BY <1>6 DEF t

(* A frame hit on the line is lost or garbled: the others stay in order.   *)
LEMMA HitThins ==
  ASSUME NEW M, Garbled \in M, NEW N, NEW s \in Seq([id : N, msg : M]),
         NEW i \in DOMAIN s, NEW t \in Hit(s, i)
  PROVE  t \in Seq([id : N, msg : M]) /\ Thinned(t, s)
<1> DEFINE F == [id : N, msg : M]
<1>1. Len(s) \in Nat /\ DOMAIN s = 1..Len(s) /\ \A k \in DOMAIN s : s[k] \in F
  BY SeqElements
<1>2. CASE t = RemoveAt(s, i)
  <2>1. /\ t \in Seq(F) /\ Len(t) = Len(s) - 1
        /\ \A k \in 1..(Len(s) - 1) : t[k] = IF k < i THEN s[k] ELSE s[k + 1]
    <3>1. s \in Seq(F) /\ i \in 1..Len(s) BY <1>1
    <3> HIDE DEF F
    <3>2. /\ RemoveAt(s, i) \in Seq(F) /\ Len(RemoveAt(s, i)) = Len(s) - 1
          /\ \A k \in 1..(Len(s) - 1) :
               RemoveAt(s, i)[k] = IF k < i THEN s[k] ELSE s[k + 1]
      BY <3>1, RemoveProperties
    <3> QED BY <1>2, <3>2
  <2>2. DOMAIN t = 1..(Len(s) - 1) BY <2>1, LenProperties
  <2> DEFINE at == [k \in DOMAIN t |-> IF k < i THEN k ELSE k + 1]
  <2>3. at \in [DOMAIN t -> DOMAIN s] BY <1>1, <2>2
  <2>4. \A k, l \in DOMAIN t : k < l => at[k] < at[l] BY <1>1, <2>2
  <2>5. \A k \in DOMAIN t : t[k] = s[at[k]] BY <2>1, <2>2
  <2> HIDE DEF at
  <2> QED BY <2>1, <2>3, <2>4, <2>5 DEF Thinned
<1>3. CASE t = [s EXCEPT ![i].msg = Garbled]
  <2> DEFINE at == [k \in DOMAIN s |-> k]
             g == [s[i] EXCEPT !.msg = Garbled]
  <2>1. t = [s EXCEPT ![i] = g] BY <1>3
  <2>2. g \in F /\ g.id = s[i].id /\ g.msg = Garbled
    <3>1. s[i] \in F BY <1>1
    <3>2. PICK x \in F : x = s[i] BY <3>1
    <3>3. g = [x EXCEPT !.msg = Garbled] BY <3>2
    <3> HIDE DEF g
    <3> QED BY <3>2, <3>3
  <2> HIDE DEF g
  <2>3. s \in [1..Len(s) -> F] BY LenProperties
  <2>4. /\ t \in [1..Len(s) -> F] /\ t[i] = g
        /\ \A k \in DOMAIN s : k # i => t[k] = s[k]
    BY <1>1, <2>1, <2>2, <2>3
  <2>5. t \in Seq(F) /\ DOMAIN t = DOMAIN s BY <1>1, <2>4, SeqDef
  <2>6. at \in [DOMAIN t -> DOMAIN s] /\ \A k, l \in DOMAIN t : k < l => at[k] < at[l]
    BY <1>1, <2>5
  <2>7. \A k \in DOMAIN t :
          t[k].id = s[at[k]].id /\ (t[k].msg = s[at[k]].msg \/ t[k].msg = Garbled)
    BY <2>2, <2>4, <2>5
  <2> HIDE DEF at
  <2> QED BY <2>5, <2>6, <2>7 DEF Thinned
<1> QED BY <1>2, <1>3 DEF Hit

-----------------------------------------------------------------------------
(* A request decodes, and the device answers it.                           *)
LEMMA RequestFacts ==
  ASSUME NEW r \in Requests
  PROVE  /\ r.type \in {"ReadRegister", "WriteRegister"} /\ r.addr \in Nat
         /\ r.type = "ReadRegister" => r.count \in Nat
         /\ r.type = "WriteRegister" => r.value \in Int
         /\ Decodes(r) /\ r # Garbled
<1>1. \/ r \in [type : {"ReadRegister"}, addr : Nat, count : Nat]
      \/ r \in [type : {"WriteRegister"}, addr : Nat, value : Nat]
  BY C2LinkAssumption
<1> QED BY <1>1 DEF Decodes, TypeId, Garbled

(* A request is answered, and never by silence.                            *)
LEMMA ReplyFacts ==
  ASSUME NEW b \in Bank, NEW r \in Requests
  PROVE  /\ Reply(b, r) \in Answer /\ RegsAfter(b, r) \in Bank
         /\ Reply(b, r).type \in {"ReadResponse", "WriteAck", "Nak"}
         /\ Reply(b, r) # NoReply
<1>1. Reply(b, r) \in Answer BY DEF Answer
<1>2. RegsAfter(b, r) \in Bank BY RequestFacts, RegsAfterBank
<1>3. Reply(b, r).type \in {"ReadResponse", "WriteAck", "Nak"}
  <2>1. CASE r.type = "ReadRegister" BY <2>1 DEF Reply
  <2>2. CASE r.type = "WriteRegister" BY <2>2 DEF Reply
  <2> QED BY <2>1, <2>2, RequestFacts
<1>4. NoReply.type = "none" BY DEF NoReply
<1> QED BY <1>1, <1>2, <1>3, <1>4

(* What is not a request changes no register and gets no reply, or the one *)
(* that telemetry gets.                                                    *)
LEMMA StrayFacts ==
  ASSUME NEW m \in Strays, Decodes(m)
  PROVE  \A b : Reply(b, m) \in {NoReply, Unknown} /\ RegsAfter(b, m) = b
<1>1. m.type \in {"ReadResponse", "WriteAck", "Nak", "AttitudeSample"}
  BY C2LinkAssumption DEF Decodes, TypeId
<1>2. CASE m.type \in {"ReadResponse", "WriteAck", "Nak"} BY <1>2 DEF Reply, RegsAfter
<1>3. CASE m.type = "AttitudeSample" BY <1>3 DEF Reply, RegsAfter, Unknown
<1> QED BY <1>1, <1>2, <1>3

(* A garbled frame does not decode; c2 reports it, and the refusal that    *)
(* telemetry draws.                                                        *)
LEMMA GarbledFacts ==
  /\ ~Decodes(Garbled) /\ Garbled.type = "garbled" /\ Outcome(Garbled) = "error"
  /\ Decodes(Unknown) /\ Unknown.type = "Nak" /\ Unknown.code = NAK_UNKNOWN_CMD
  /\ Outcome(Unknown) = "nak"
<1>1. ~Decodes(Garbled) /\ Garbled.type = "garbled" BY DEF Decodes, TypeId, Garbled
<1>2. Outcome(Garbled) = "error" BY <1>1 DEF Outcome
<1>3. Unknown.type = "Nak" /\ Unknown.code = NAK_UNKNOWN_CMD BY DEF Unknown
<1>4. Decodes(Unknown) BY <1>3 DEF Decodes, TypeId
<1>5. Outcome(Unknown) = "nak" BY <1>3, <1>4 DEF Outcome
<1> QED BY <1>1, <1>2, <1>3, <1>4, <1>5

(* Whatever reply c2 takes, it does not take it for a timeout.             *)
LEMMA OutcomeFacts ==
  ASSUME NEW m \in Answer \cup {Garbled}
  PROVE  Outcome(m) \in {"error", "nak", "ok"}
<1>1. CASE m = Garbled
  <2>1. Outcome(Garbled) = "error" BY GarbledFacts
  <2> QED BY <1>1, <2>1
<1>3. CASE m = Unknown
  <2>1. Outcome(Unknown) = "nak" BY GarbledFacts
  <2> QED BY <1>3, <2>1
<1>2. CASE m \in Answer /\ m # Unknown
  <2>0. PICK b \in Bank, r \in Requests : m = Reply(b, r) BY <1>2 DEF Answer
  <2>1. m.type \in {"ReadResponse", "WriteAck", "Nak"} BY <2>0, ReplyFacts
  <2>2. Decodes(m) BY <2>1 DEF Decodes, TypeId
  <2> QED BY <2>1, <2>2 DEF Outcome
<1> QED BY <1>1, <1>2, <1>3

(* The request of a number is a request, and stays the same.               *)
LEMMA SentFacts == Types => \A n \in 1..issued : Sent(n) \in Requests
<1> SUFFICES ASSUME Types, NEW n \in 1..issued PROVE Sent(n) \in Requests OBVIOUS
<1>1. issued \in Nat /\ request \in Requests BY C2LinkAssumption DEF Types, TypeOK
<1>2. CASE n <= Len(results)
  <2>1. results[n] \in Result BY <1>2, SeqElements DEF Types
  <2> QED BY <1>2, <2>1 DEF Sent, SentIn, Result
<1>3. CASE ~(n <= Len(results)) BY <1>1, <1>3 DEF Sent, SentIn
<1> QED BY <1>2, <1>3

(* What request() and c2 conclude from a reply or from having waited.      *)
LEMMA ConcludeFacts ==
  ASSUME NEW outcome, NEW id, NEW reply, Types, Conclude(outcome, id, reply),
         outcome \in {"error", "nak", "ok", "timeout"}, id \in 0..issued,
         reply \in Answer \cup {Garbled, NoReply}
  PROVE  /\ issued \in 1..MaxRequests /\ Len(results) = issued - 1
         /\ results' \in Seq(Result) /\ Len(results') = issued
         /\ DOMAIN results = 1..(issued - 1) /\ DOMAIN results' = 1..issued
         /\ \A j \in 1..(issued - 1) : results'[j] = results[j]
         /\ results'[issued] = [id |-> issued, request |-> request, outcome |-> outcome,
                               of |-> id, reply |-> reply]
<1> DEFINE new == [id |-> issued, request |-> request, outcome |-> outcome,
                   of |-> id, reply |-> reply]
<1>1. /\ issued \in 0..MaxRequests /\ MaxRequests \in Nat /\ results \in Seq(Result)
      /\ Len(results) = issued - 1
  BY C2LinkAssumption DEF Types, TypeOK, Conclude
<1>2. Len(results) \in Nat BY <1>1, SeqElements
<1>3. issued \in 1..MaxRequests BY <1>1, <1>2
<1>4. request \in Requests BY <1>3 DEF Types
<1>5. new \in Result
  <2>1. id \in 0..MaxRequests BY <1>1
  <2> QED BY <1>3, <1>4, <2>1 DEF Result
<1>6. results' = Append(results, new) BY DEF Conclude
<1> HIDE DEF new
<1>7. /\ Append(results, new) \in Seq(Result)
      /\ Len(results) \in Nat /\ Len(Append(results, new)) = Len(results) + 1
      /\ DOMAIN results = 1..Len(results)
      /\ DOMAIN Append(results, new) = 1..(Len(results) + 1)
      /\ \A k \in DOMAIN results : Append(results, new)[k] = results[k]
      /\ Append(results, new)[Len(results) + 1] = new
  BY <1>1, <1>5, AppendElements
<1> QED BY <1>1, <1>3, <1>6, <1>7 DEF new

(* What receiving a reply does to the state.                               *)
LEMMA ReceiveFacts ==
  ASSUME Types, Receive
  PROVE  LET m == toHost[1].msg
         IN  /\ toHost[1] \in HostFrame /\ toHost[1].id \in 0..issued
             /\ Outcome(m) \in {"error", "nak", "ok"} /\ m \in Answer \cup {Garbled}
             /\ Conclude(Outcome(m), toHost[1].id, m)
             /\ UNCHANGED <<timeouts, issued, request, deviceVars, toDevice, faults>>
<1>1. toHost \in Seq(HostFrame) /\ toHost # <<>> BY DEF Types, Receive
<1>2. Head(toHost) = toHost[1] /\ 1 \in DOMAIN toHost BY <1>1, TailElements
<1>3. toHost[1] \in HostFrame BY <1>1, <1>2, SeqElements
<1>4. toHost[1].msg \in Answer \cup {Garbled} BY <1>3 DEF HostFrame
<1>5. toHost[1].id \in 0..issued BY <1>2 DEF Types, TypeOK, Frames
<1>6. Outcome(toHost[1].msg) \in {"error", "nak", "ok"} BY <1>4, OutcomeFacts
<1> QED BY <1>2, <1>3, <1>4, <1>5, <1>6 DEF Receive, Conclude

(* What a timeout does to the state.                                       *)
LEMMA TimeoutFacts ==
  ASSUME Types, Timeout
  PROVE  /\ Conclude("timeout", issued, NoReply) /\ issued \in 0..issued
         /\ timeouts' = timeouts + 1
         /\ UNCHANGED <<toHost, issued, request, deviceVars, toDevice, faults>>
BY C2LinkAssumption DEF Types, TypeOK, Timeout, Conclude

(* The log of requests only grows: what was sent as number n stays so.     *)
LEMMA SentStays ==
  ASSUME Types, [Next]_vars
  PROVE  \A n \in 1..issued : SentIn(results', request', n) = Sent(n)
<1> USE DEF hostVars, deviceVars, SentIn
<1>1. issued \in Nat BY C2LinkAssumption DEF Types, TypeOK
<1>2. ASSUME NEW r \in Requests, Issue(r)
      PROVE  \A n \in 1..issued : SentIn(results', request', n) = Sent(n)
  BY <1>1, <1>2 DEF Issue, Types, TypeOK, Sent
<1>3. ASSUME NEW outcome, NEW id, NEW reply, Conclude(outcome, id, reply),
             outcome \in {"error", "nak", "ok", "timeout"}, id \in 0..issued,
             reply \in Answer \cup {Garbled, NoReply}
      PROVE  \A n \in 1..issued : SentIn(results', request', n) = Sent(n)
  <2>1. /\ issued \in 1..MaxRequests /\ Len(results) = issued - 1 /\ Len(results') = issued
        /\ \A j \in 1..(issued - 1) : results'[j] = results[j]
        /\ results'[issued] = [id |-> issued, request |-> request, outcome |-> outcome,
                              of |-> id, reply |-> reply]
    BY <1>3, ConcludeFacts
  <2>2. results'[issued].request = request BY <2>1
  <2> QED BY <1>1, <2>1, <2>2 DEF Sent
<1>4. CASE Receive BY <1>3, <1>4, ReceiveFacts
<1>5. CASE Timeout BY <1>3, <1>5, TimeoutFacts
<1>6. CASE UNCHANGED <<results, request>> BY <1>6 DEF Sent
<1>7. CASE Reopen \/ Skip \/ Serve \/ DamageRequest \/ DamageReply
  BY <1>6, <1>7 DEF Reopen, Skip, Serve, DamageRequest, DamageReply
<1>8. CASE UNCHANGED vars \/ \E m \in Strays : Stray(m) BY <1>6, <1>8 DEF Stray, vars
<1> QED BY <1>2, <1>4, <1>5, <1>7, <1>8 DEF Next

(* A turn of serve(): a stray goes by or is refused, or the request is     *)
(* answered.                                                               *)
LEMMA ServeFacts ==
  ASSUME Types, Carried, Serve
  PROVE  LET n == toDevice[1].id
             g == [id |-> 0, msg |-> Unknown]
         IN  \/ /\ n = 0 /\ UNCHANGED <<served, regs>>
                /\ toHost' = toHost \/ (toHost' = Append(toHost, g) /\ g \in HostFrame)
             \/ /\ n \in 1..issued /\ Sent(n) \in Requests
                /\ regs' = RegsAfter(regs, Sent(n))
                /\ toHost' = Append(toHost, [id |-> n, msg |-> Reply(regs, Sent(n))])
                /\ served' = Append(served, n)
                /\ [id |-> n, msg |-> Reply(regs, Sent(n))] \in HostFrame
<1> DEFINE n == toDevice[1].id
           m == toDevice[1].msg
<1>1. toDevice \in Seq(DeviceFrame) /\ toDevice # <<>> BY DEF Types, Serve
<1>2. Head(toDevice) = toDevice[1] /\ 1 \in DOMAIN toDevice BY <1>1, TailElements
<1>3. n \in 0..issued /\ issued \in 0..MaxRequests /\ MaxRequests \in Nat /\ regs \in Bank
  BY <1>2, C2LinkAssumption DEF Types, TypeOK, Frames
<1>4. Decodes(m) /\ m # Garbled BY <1>2, GarbledFacts DEF Serve
<1>5. m \in (IF n # 0 THEN {Sent(n)} ELSE Strays) \cup {Garbled} BY <1>2 DEF Carried
<1>6. /\ regs' = RegsAfter(regs, m)
      /\ toHost' = IF Reply(regs, m) = NoReply THEN toHost
                   ELSE Append(toHost, [id |-> n, msg |-> Reply(regs, m)])
      /\ served' = IF n = 0 THEN served ELSE Append(served, n)
  BY <1>2 DEF Serve
<1> HIDE DEF n, m
<1>7. CASE n = 0
  <2>1. Reply(regs, m) \in {NoReply, Unknown} /\ RegsAfter(regs, m) = regs
    BY <1>4, <1>5, <1>7, StrayFacts
  <2>2. [id |-> 0, msg |-> Unknown] \in HostFrame BY <1>3 DEF HostFrame, Answer
  <2> QED BY <1>6, <1>7, <2>1, <2>2 DEF n
<1>8. CASE n # 0
  <2>1. n \in 1..issued /\ m = Sent(n) BY <1>3, <1>4, <1>5, <1>8
  <2>2. Sent(n) \in Requests BY <2>1, SentFacts
  <2>3. Reply(regs, m) \in Answer /\ Reply(regs, m) # NoReply BY <1>3, <2>1, <2>2, ReplyFacts
  <2>4. [id |-> n, msg |-> Reply(regs, m)] \in HostFrame
    BY <1>3, <2>1, <2>3 DEF HostFrame
  <2> QED BY <1>6, <2>1, <2>2, <2>3, <2>4 DEF n
<1> QED BY <1>7, <1>8

(* Damage thins a queue of frames and does nothing else to it.             *)
LEMMA DamageFacts ==
  ASSUME Types
  PROVE  /\ DamageRequest => toDevice' \in Seq(DeviceFrame) /\ Thinned(toDevice', toDevice)
         /\ DamageReply => toHost' \in Seq(HostFrame) /\ Thinned(toHost', toHost)
<1>1. ASSUME DamageRequest
      PROVE  toDevice' \in Seq(DeviceFrame) /\ Thinned(toDevice', toDevice)
  <2>1. PICK i \in DOMAIN toDevice : toDevice' \in Hit(toDevice, i) BY <1>1 DEF DamageRequest
  <2>2. toDevice \in Seq([id : 0..MaxRequests, msg : Requests \cup Strays \cup {Garbled}])
    BY DEF Types, DeviceFrame
  <2> QED BY <2>1, <2>2, HitThins DEF DeviceFrame
<1>2. ASSUME DamageReply
      PROVE  toHost' \in Seq(HostFrame) /\ Thinned(toHost', toHost)
  <2>1. PICK i \in DOMAIN toHost : toHost' \in Hit(toHost, i) BY <1>2 DEF DamageReply
  <2>2. toHost \in Seq([id : 0..MaxRequests, msg : Answer \cup {Garbled}])
    BY DEF Types, HostFrame
  <2> QED BY <2>1, <2>2, HitThins DEF HostFrame
<1> QED BY <1>1, <1>2

-----------------------------------------------------------------------------
(* Every step keeps the types.                                             *)
LEMMA TypesStep == Types /\ Carried /\ [Next]_vars => Types'
<1> SUFFICES ASSUME Types, Carried, [Next]_vars PROVE Types' OBVIOUS
<1> USE DEF hostVars, deviceVars
<1>1. /\ issued \in 0..MaxRequests /\ MaxRequests \in Nat /\ MaxFaults \in Nat
      /\ toDevice \in Seq(DeviceFrame) /\ toHost \in Seq(HostFrame)
      /\ served \in Seq(0..issued) /\ results \in Seq(Result) /\ regs \in Bank
      /\ timeouts \in Nat /\ faults \in 0..MaxFaults /\ errors \in Nat
  BY C2LinkAssumption DEF Types, TypeOK
<1>2. /\ Frames(toDevice) /\ Frames(toHost)
      /\ \A k \in DOMAIN toDevice : toDevice[k] \in DeviceFrame
      /\ \A k \in DOMAIN toHost : toHost[k] \in HostFrame
  BY <1>1, SeqElements DEF Types, TypeOK
<1>3. ASSUME NEW r \in Requests, Issue(r) PROVE Types'
  <2> DEFINE f == [id |-> issued + 1, msg |-> r]
  <2>1. issued + 1 \in 1..MaxRequests BY <1>1, <1>3 DEF Issue
  <2>2. f \in DeviceFrame /\ f.id = issued + 1 BY <2>1 DEF DeviceFrame
  <2>3. toDevice' = Append(toDevice, f) BY <1>3 DEF Issue
  <2> HIDE DEF f
  <2>4. /\ Append(toDevice, f) \in Seq(DeviceFrame)
        /\ Len(toDevice) \in Nat /\ Len(Append(toDevice, f)) = Len(toDevice) + 1
        /\ DOMAIN toDevice = 1..Len(toDevice)
        /\ DOMAIN Append(toDevice, f) = 1..(Len(toDevice) + 1)
        /\ \A k \in DOMAIN toDevice : Append(toDevice, f)[k] = toDevice[k]
        /\ Append(toDevice, f)[Len(toDevice) + 1] = f
    BY <1>1, <2>2, AppendElements
  <2>5. ASSUME NEW k \in DOMAIN toDevice' PROVE toDevice'[k].id \in 0..(issued + 1)
    <3>1. CASE k \in DOMAIN toDevice
      <4>1. toDevice[k].id \in 0..issued BY <1>2, <3>1 DEF Frames
      <4> QED BY <1>1, <2>3, <2>4, <3>1, <4>1
    <3>2. CASE k = Len(toDevice) + 1 BY <2>1, <2>2, <2>3, <2>4, <3>2
    <3> QED BY <2>3, <2>4, <3>1, <3>2
  <2>6. \A k \in DOMAIN toHost : toHost[k].id \in 0..(issued + 1) BY <1>1, <1>2 DEF Frames
  <2>7. served' \in Seq(0..(issued + 1))
    <3>1. 0..issued \subseteq 0..(issued + 1) BY <1>1
    <3> QED BY <1>1, <1>3, <3>1, SeqMonotonic DEF Issue
  <2>8. issued' = issued + 1 /\ waiting' = TRUE /\ request' = r
        /\ UNCHANGED <<results, timeouts, regs, errors, toHost, faults>>
    BY <1>3 DEF Issue
  <2>9. timeouts' \in 0..issued' BY <1>1, <2>8 DEF Types, TypeOK
  <2>10. Frames(toDevice)' /\ Frames(toHost)' BY <2>5, <2>6, <2>8 DEF Frames
  <2>11. Len(results') = issued' - 1 BY <1>3, <1>1, <2>8 DEF Issue, Types, TypeOK
  <2>12. TypeOK'
    BY <1>1, <2>1, <2>7, <2>8, <2>9, <2>10, <2>11 DEF Types, TypeOK
  <2> QED BY <1>1, <2>3, <2>4, <2>8, <2>12 DEF Types
<1>4. ASSUME NEW outcome, NEW id, NEW reply, Conclude(outcome, id, reply),
             outcome \in {"error", "nak", "ok", "timeout"}, id \in 0..issued,
             reply \in Answer \cup {Garbled, NoReply},
             toHost' \in Seq(HostFrame), Frames(toHost)',
             timeouts' \in {timeouts, timeouts + 1}, UNCHANGED errors
      PROVE  Types'
  <2>1. /\ issued \in 1..MaxRequests /\ Len(results) = issued - 1
        /\ results' \in Seq(Result) /\ Len(results') = issued
        /\ DOMAIN results = 1..(issued - 1) /\ DOMAIN results' = 1..issued
        /\ \A j \in 1..(issued - 1) : results'[j] = results[j]
        /\ results'[issued] = [id |-> issued, request |-> request, outcome |-> outcome,
                              of |-> id, reply |-> reply]
    BY <1>4, ConcludeFacts
  <2>2. waiting' = FALSE /\ UNCHANGED <<issued, request, regs, served, toDevice, faults>>
    BY <1>4 DEF Conclude
  <2>3. timeouts' \in 0..issued /\ timeouts' <= Len(results')
    BY <1>1, <1>4, <2>1 DEF Types
  <2>4. \A j \in 1..issued : results'[j].id = j /\ results'[j].of \in 0..j
    <3> TAKE j \in 1..issued
    <3>1. CASE j = issued
      <4>1. results'[issued].id = issued /\ results'[issued].of = id BY <2>1
      <4> QED BY <1>4, <3>1, <4>1
    <3>2. CASE j \in 1..(issued - 1) BY <2>1, <3>2 DEF Types, TypeOK
    <3> QED BY <2>1, <3>1, <3>2
  <2>5. Frames(toDevice)' BY <1>2, <2>2 DEF Frames
  <2>6. waiting' \in BOOLEAN /\ Len(results') = issued' - (IF waiting' THEN 1 ELSE 0)
    <3>1. waiting' \in BOOLEAN /\ ~waiting' BY <2>2
    <3>2. (IF waiting' THEN 1 ELSE 0) = 0 BY <3>1
    <3>3. issued' = issued /\ Len(results') = issued' BY <2>1, <2>2
    <3> QED BY <1>1, <3>1, <3>2, <3>3
  <2>7. request' \in Requests \cup {Garbled} /\ errors' \in Nat /\ timeouts' \in 0..issued'
    BY <1>1, <1>4, <2>2, <2>3 DEF Types, TypeOK
  <2>8. \A j \in DOMAIN results' : results'[j].id = j /\ results'[j].of \in 0..j
    BY <2>1, <2>4
  <2>9. TypeOK'
    BY <1>1, <1>4, <2>2, <2>5, <2>6, <2>7, <2>8 DEF TypeOK
  <2> QED BY <1>1, <1>4, <2>1, <2>2, <2>3, <2>9 DEF Types
<1>5. ASSUME toHost # <<>> PROVE Tail(toHost) \in Seq(HostFrame) /\ Frames(Tail(toHost))
  BY <1>1, <1>2, <1>5, TailElements DEF Frames
<1>6. CASE Receive
  <2>1. toHost' \in Seq(HostFrame) /\ Frames(toHost)' /\ UNCHANGED <<timeouts, errors>>
    BY <1>5, <1>6 DEF Receive, Conclude, Frames
  <2> QED BY <1>4, <1>6, <2>1, ReceiveFacts
<1>7. CASE Timeout
  <2>1. UNCHANGED <<toHost, errors, issued>> BY <1>7, TimeoutFacts
  <2>2. Frames(toHost)' BY <1>2, <2>1 DEF Frames
  <2> QED BY <1>1, <1>4, <1>7, <2>1, <2>2, TimeoutFacts
<1>8. ASSUME toDevice' \in Seq(DeviceFrame), toHost' \in Seq(HostFrame),
             Frames(toDevice)', Frames(toHost)', UNCHANGED hostVars,
             regs' \in Bank, served' \in Seq(0..issued), errors' \in Nat,
             faults' \in 0..MaxFaults
      PROVE  Types'
  BY <1>8 DEF Types, TypeOK
<1>9. CASE Reopen
  <2>1. toHost' = <<>> BY <1>9 DEF Reopen
  <2>2. toHost' \in Seq(HostFrame) /\ Frames(toHost)' BY <2>1, EmptySeq DEF Frames
  <2>3. Frames(toDevice)' BY <1>2, <1>9 DEF Frames, Reopen
  <2> QED BY <1>1, <1>8, <1>9, <2>2, <2>3 DEF Reopen
<1>10. ASSUME toDevice # <<>>, issued' = issued
       PROVE  /\ Tail(toDevice) \in Seq(DeviceFrame)
              /\ toDevice' = Tail(toDevice) => Frames(toDevice)'
  <2>1. /\ Tail(toDevice) \in Seq(DeviceFrame)
        /\ \A k \in DOMAIN Tail(toDevice) :
             k + 1 \in DOMAIN toDevice /\ Tail(toDevice)[k] = toDevice[k + 1]
    BY <1>1, <1>10, TailElements
  <2>2. \A k \in DOMAIN Tail(toDevice) : Tail(toDevice)[k].id \in 0..issued
    BY <1>2, <2>1 DEF Frames
  <2> QED BY <1>10, <2>1, <2>2 DEF Frames
<1>11. CASE Skip
  <2>1. toDevice' \in Seq(DeviceFrame) /\ Frames(toDevice)' BY <1>10, <1>11 DEF Skip
  <2>2. Frames(toHost)' BY <1>2, <1>11 DEF Skip, Frames
  <2>3. errors' \in Nat /\ UNCHANGED <<hostVars, regs, served, toHost, faults>>
    BY <1>1, <1>11 DEF Skip
  <2> QED BY <1>1, <1>8, <2>1, <2>2, <2>3
<1>12. CASE Serve
  <2>1. toDevice' \in Seq(DeviceFrame) /\ Frames(toDevice)' BY <1>10, <1>12 DEF Serve
  <2>2. UNCHANGED <<hostVars, errors, faults>> BY <1>12 DEF Serve
  <2> DEFINE n == toDevice[1].id
             f == [id |-> n, msg |-> Reply(regs, Sent(n))]
             g == [id |-> 0, msg |-> Unknown]
  <2>3. CASE n = 0 /\ UNCHANGED <<served, regs>> /\ toHost' = toHost
    <3>1. Frames(toHost)' BY <1>2, <2>2, <2>3 DEF Frames
    <3> QED BY <1>1, <1>8, <2>1, <2>2, <2>3, <3>1
  <2>5. CASE n = 0 /\ UNCHANGED <<served, regs>> /\ toHost' = Append(toHost, g) /\ g \in HostFrame
    <3>1. g.id = 0 OBVIOUS
    <3> HIDE DEF g
    <3>2. /\ Append(toHost, g) \in Seq(HostFrame)
          /\ Len(toHost) \in Nat /\ DOMAIN toHost = 1..Len(toHost)
          /\ DOMAIN Append(toHost, g) = 1..(Len(toHost) + 1)
          /\ \A k \in DOMAIN toHost : Append(toHost, g)[k] = toHost[k]
          /\ Append(toHost, g)[Len(toHost) + 1] = g
      BY <1>1, <2>5, AppendElements
    <3>3. DOMAIN toHost' = DOMAIN toHost \cup {Len(toHost) + 1} BY <2>5, <3>2
    <3>4. \A k \in DOMAIN toHost' : toHost'[k].id \in 0..issued
      BY <1>1, <1>2, <2>5, <3>1, <3>2, <3>3 DEF Frames
    <3>5. Frames(toHost)' BY <2>2, <3>4 DEF Frames
    <3> QED BY <1>1, <1>8, <2>1, <2>2, <2>5, <3>2, <3>5
  <2>4. CASE /\ n \in 1..issued /\ Sent(n) \in Requests
             /\ regs' = RegsAfter(regs, Sent(n))
             /\ toHost' = Append(toHost, f) /\ served' = Append(served, n)
             /\ f \in HostFrame
    <3>1. regs' \in Bank BY <1>1, <2>4, ReplyFacts
    <3>2. n \in 0..issued /\ f.id = n BY <2>4
    <3> HIDE DEF n, f
    <3>3. served' \in Seq(0..issued) BY <1>1, <2>4, <3>2, AppendElements
    <3>4. /\ Append(toHost, f) \in Seq(HostFrame)
          /\ Len(toHost) \in Nat /\ DOMAIN toHost = 1..Len(toHost)
          /\ DOMAIN Append(toHost, f) = 1..(Len(toHost) + 1)
          /\ \A k \in DOMAIN toHost : Append(toHost, f)[k] = toHost[k]
          /\ Append(toHost, f)[Len(toHost) + 1] = f
      BY <1>1, <2>4, AppendElements
    <3>5. Frames(toHost)'
      <4>1. ASSUME NEW k \in DOMAIN toHost' PROVE toHost'[k].id \in 0..issued
        <5>1. CASE k \in DOMAIN toHost BY <1>2, <2>4, <3>4, <5>1 DEF Frames
        <5>2. CASE k = Len(toHost) + 1 BY <2>4, <3>2, <3>4, <5>2
        <5> QED BY <2>4, <3>4, <5>1, <5>2
      <4> QED BY <2>2, <4>1 DEF Frames
    <3> QED BY <1>1, <1>8, <2>1, <2>2, <2>4, <3>1, <3>3, <3>4, <3>5
  <2> QED BY <1>12, <2>3, <2>4, <2>5, ServeFacts
<1>13. CASE DamageRequest
  <2>1. toDevice' \in Seq(DeviceFrame) /\ Thinned(toDevice', toDevice)
    BY <1>13, DamageFacts
  <2>2. UNCHANGED <<hostVars, deviceVars, toHost>> /\ faults' \in 0..MaxFaults
    BY <1>1, <1>13 DEF DamageRequest, Fault
  <2>3. Frames(toDevice)' /\ Frames(toHost)' BY <1>2, <2>1, <2>2 DEF Frames, Thinned
  <2> QED BY <1>1, <1>8, <2>1, <2>2, <2>3
<1>14. CASE DamageReply
  <2>1. toHost' \in Seq(HostFrame) /\ Thinned(toHost', toHost)
    BY <1>14, DamageFacts
  <2>2. UNCHANGED <<hostVars, deviceVars, toDevice>> /\ faults' \in 0..MaxFaults
    BY <1>1, <1>14 DEF DamageReply, Fault
  <2>3. Frames(toDevice)' /\ Frames(toHost)' BY <1>2, <2>1, <2>2 DEF Frames, Thinned
  <2> QED BY <1>1, <1>8, <2>1, <2>2, <2>3
<1>15. ASSUME NEW m \in Strays, Stray(m) PROVE Types'
  <2> DEFINE f == [id |-> 0, msg |-> m]
  <2>1. f \in DeviceFrame /\ f.id = 0 BY <1>1 DEF DeviceFrame
  <2>2. toDevice' = Append(toDevice, f) BY <1>15 DEF Stray
  <2>3. UNCHANGED <<hostVars, deviceVars, toHost>> /\ faults' \in 0..MaxFaults
    BY <1>1, <1>15 DEF Stray, Fault
  <2> HIDE DEF f
  <2>4. /\ Append(toDevice, f) \in Seq(DeviceFrame)
        /\ Len(toDevice) \in Nat /\ DOMAIN toDevice = 1..Len(toDevice)
        /\ DOMAIN Append(toDevice, f) = 1..(Len(toDevice) + 1)
        /\ \A k \in DOMAIN toDevice : Append(toDevice, f)[k] = toDevice[k]
        /\ Append(toDevice, f)[Len(toDevice) + 1] = f
    BY <1>1, <2>1, AppendElements
  <2>5. Frames(toDevice)'
    <3>1. ASSUME NEW k \in DOMAIN toDevice' PROVE toDevice'[k].id \in 0..issued
      <4>1. CASE k \in DOMAIN toDevice BY <1>2, <2>2, <2>4, <4>1 DEF Frames
      <4>2. CASE k = Len(toDevice) + 1 BY <1>1, <2>1, <2>2, <2>4, <4>2
      <4> QED BY <2>2, <2>4, <4>1, <4>2
    <3> QED BY <2>3, <3>1 DEF Frames
  <2>6. Frames(toHost)' BY <1>2, <2>3 DEF Frames
  <2> QED BY <1>1, <1>8, <2>2, <2>3, <2>4, <2>5, <2>6
<1>16. CASE UNCHANGED vars
  <2>1. Frames(toDevice)' /\ Frames(toHost)' BY <1>2, <1>16 DEF vars, Frames
  <2> QED BY <1>1, <1>8, <1>16, <2>1 DEF vars
<1> QED
  BY <1>3, <1>6, <1>7, <1>9, <1>11, <1>12, <1>13, <1>14, <1>15, <1>16 DEF Next

-----------------------------------------------------------------------------
(* The frame that a request, or a stray, adds to the line to the device.   *)
LEMMA IssueFacts ==
  ASSUME Types, NEW r \in Requests, Issue(r)
  PROVE  /\ issued \in Nat /\ ~waiting /\ Len(results) = issued /\ Len(toDevice) \in Nat
         /\ DOMAIN toDevice = 1..Len(toDevice)
         /\ DOMAIN toDevice' = 1..(Len(toDevice) + 1)
         /\ DOMAIN toDevice' = DOMAIN toDevice \cup {Len(toDevice) + 1}
         /\ \A k \in DOMAIN toDevice : toDevice'[k] = toDevice[k]
         /\ toDevice'[Len(toDevice) + 1] = [id |-> issued + 1, msg |-> r]
         /\ issued' = issued + 1 /\ waiting' = TRUE 
         /\ SentIn(results', request', issued + 1) = r
         /\ UNCHANGED <<results, timeouts, deviceVars, toHost, faults>>
<1> DEFINE f == [id |-> issued + 1, msg |-> r]
<1>1. /\ issued \in 0..MaxRequests /\ issued < MaxRequests /\ MaxRequests \in Nat
      /\ toDevice \in Seq(DeviceFrame)
  BY C2LinkAssumption DEF Types, TypeOK, Issue
<1>2. f \in DeviceFrame BY <1>1 DEF DeviceFrame
<1>3. toDevice' = Append(toDevice, f) BY DEF Issue
<1> HIDE DEF f
<1>4. /\ Len(toDevice) \in Nat /\ DOMAIN toDevice = 1..Len(toDevice)
      /\ DOMAIN toDevice' = 1..(Len(toDevice) + 1)
      /\ \A k \in DOMAIN toDevice : toDevice'[k] = toDevice[k]
      /\ toDevice'[Len(toDevice) + 1] = f
  BY <1>1, <1>2, <1>3, AppendElements
<1>5. /\ issued' = issued + 1 /\ waiting' = TRUE /\ request' = r
      /\ UNCHANGED <<results, timeouts, deviceVars, toHost, faults>>
  BY DEF Issue
<1>6. ~waiting /\ Len(results) = issued
  <2>1. ~waiting BY DEF Issue
  <2> QED BY <1>1, <2>1 DEF Types, TypeOK
<1>7. SentIn(results', request', issued + 1) = r
  <2>1. ~(issued + 1 <= Len(results')) BY <1>1, <1>5, <1>6
  <2> QED BY <1>5, <2>1 DEF SentIn
<1> QED BY <1>1, <1>4, <1>5, <1>6, <1>7 DEF f

(* A stray frame joins the end of the line to the device.                  *)
LEMMA StrayAdds ==
  ASSUME Types, NEW m \in Strays, Stray(m)
  PROVE  /\ Len(toDevice) \in Nat /\ DOMAIN toDevice = 1..Len(toDevice)
         /\ DOMAIN toDevice' = 1..(Len(toDevice) + 1)
         /\ DOMAIN toDevice' = DOMAIN toDevice \cup {Len(toDevice) + 1}
         /\ \A k \in DOMAIN toDevice : toDevice'[k] = toDevice[k]
         /\ toDevice'[Len(toDevice) + 1] = [id |-> 0, msg |-> m]
         /\ UNCHANGED <<hostVars, deviceVars, toHost>>
<1> DEFINE f == [id |-> 0, msg |-> m]
<1>1. MaxRequests \in Nat /\ toDevice \in Seq(DeviceFrame) BY C2LinkAssumption DEF Types
<1>2. f \in DeviceFrame BY <1>1 DEF DeviceFrame
<1>3. toDevice' = Append(toDevice, f) BY DEF Stray
<1> HIDE DEF f
<1>4. /\ Len(toDevice) \in Nat /\ DOMAIN toDevice = 1..Len(toDevice)
      /\ DOMAIN toDevice' = 1..(Len(toDevice) + 1)
      /\ \A k \in DOMAIN toDevice : toDevice'[k] = toDevice[k]
      /\ toDevice'[Len(toDevice) + 1] = f
  BY <1>1, <1>2, <1>3, AppendElements
<1> QED BY <1>4 DEF f, Stray

(* What any other step leaves of a channel that it does not add to are some*)
(* of its frames, with their numbers, as they were or garbled.             *)
LEMMA TailThins ==
  ASSUME NEW S, NEW s \in Seq(S), s # <<>>
  PROVE  Thinned(Tail(s), s)
<1>1. /\ Len(s) \in Nat /\ DOMAIN s = 1..Len(s) /\ DOMAIN Tail(s) = 1..(Len(s) - 1)
      /\ \A k \in DOMAIN Tail(s) : k + 1 \in DOMAIN s /\ Tail(s)[k] = s[k + 1]
  BY TailElements
<1> DEFINE at == [k \in DOMAIN Tail(s) |-> k + 1]
<1>2. at \in [DOMAIN Tail(s) -> DOMAIN s] BY <1>1
<1>3. \A k, l \in DOMAIN Tail(s) : k < l => at[k] < at[l] BY <1>1
<1>4. \A k \in DOMAIN Tail(s) : Tail(s)[k] = s[at[k]] BY <1>1
<1> HIDE DEF at
<1> QED BY <1>2, <1>3, <1>4 DEF Thinned

(* A queue left alone is thinned of nothing.                               *)
LEMMA SameThins == ASSUME NEW S, NEW s \in Seq(S) PROVE Thinned(s, s)
<1> DEFINE at == [k \in DOMAIN s |-> k]
<1>1. at \in [DOMAIN s -> DOMAIN s] OBVIOUS
<1>2. \A k \in DOMAIN s : at[k] = k OBVIOUS
<1> HIDE DEF at
<1> QED BY <1>1, <1>2 DEF Thinned

(* Only issuing a request or a stray adds to the line to the device.       *)
LEMMA DeviceThins ==
  ASSUME Types, [Next]_vars,
         \A r \in Requests : ~Issue(r), \A m \in Strays : ~Stray(m)
  PROVE  Thinned(toDevice', toDevice)
<1>1. toDevice \in Seq(DeviceFrame) BY DEF Types
<1>2. CASE Skip \/ Serve BY <1>1, <1>2, TailThins DEF Skip, Serve
<1>3. CASE DamageRequest BY <1>3, DamageFacts
<1>4. CASE Receive \/ Timeout \/ Reopen \/ DamageReply \/ UNCHANGED vars
  <2>1. toDevice' = toDevice BY <1>4 DEF Receive, Timeout, Conclude, Reopen, DamageReply, vars
  <2> QED BY <1>1, <2>1, SameThins
<1> QED BY <1>2, <1>3, <1>4 DEF Next

(* Only the device adds to the line to the host.                           *)
LEMMA HostThins ==
  ASSUME Types, [Next]_vars, ~Serve
  PROVE  Thinned(toHost', toHost)
<1>1. toHost \in Seq(HostFrame) BY DEF Types
<1>2. CASE Receive BY <1>1, <1>2, TailThins DEF Receive
<1>3. CASE DamageReply BY <1>3, DamageFacts
<1>4. CASE Reopen
  <2>1. toHost' = <<>> /\ DOMAIN <<>> = {} BY <1>4 DEF Reopen
  <2>2. [k \in {} |-> 1] \in [{} -> DOMAIN toHost] OBVIOUS
  <2> QED BY <2>1, <2>2 DEF Thinned
<1>5. ASSUME toHost' = toHost PROVE Thinned(toHost', toHost) BY <1>1, <1>5, SameThins
<1>6. CASE Timeout \/ Skip \/ DamageRequest \/ UNCHANGED vars
  BY <1>5, <1>6 DEF Timeout, Skip, DamageRequest, vars
<1>7. CASE (\E r \in Requests : Issue(r)) \/ (\E m \in Strays : Stray(m))
  BY <1>5, <1>7 DEF Issue, Stray
<1> QED BY <1>2, <1>3, <1>4, <1>6, <1>7 DEF Next

-----------------------------------------------------------------------------
(* What strays drew stays what it is: refusals, or garbled.                *)
LEMMA ForeignStep ==
  ASSUME Types, Carried, [Next]_vars, NEW k \in DOMAIN toHost', toHost'[k].id = 0
  PROVE  toHost'[k].msg \in {Unknown, Garbled}
<1>1. toHost \in Seq(HostFrame) BY DEF Types
<1>2. CASE ~Serve
  <2>1. PICK l \in DOMAIN toHost :
          /\ toHost'[k].id = toHost[l].id
          /\ toHost'[k].msg = toHost[l].msg \/ toHost'[k].msg = Garbled
    BY <1>2, HostThins DEF Thinned
  <2> QED BY <2>1 DEF Carried
<1>3. ASSUME NEW f \in HostFrame, toHost' = Append(toHost, f), f.id = 0 => f.msg = Unknown
      PROVE  toHost'[k].msg \in {Unknown, Garbled}
  <2>1. /\ Len(toHost) \in Nat /\ DOMAIN toHost = 1..Len(toHost)
        /\ DOMAIN Append(toHost, f) = 1..(Len(toHost) + 1)
        /\ \A l \in DOMAIN toHost : Append(toHost, f)[l] = toHost[l]
        /\ Append(toHost, f)[Len(toHost) + 1] = f
    BY <1>1, AppendElements
  <2>2. k \in DOMAIN toHost \/ k = Len(toHost) + 1 BY <1>3, <2>1
  <2>3. CASE k \in DOMAIN toHost BY <1>3, <2>1, <2>3 DEF Carried
  <2>4. CASE k = Len(toHost) + 1 BY <1>3, <2>1, <2>4
  <2> QED BY <2>2, <2>3, <2>4
<1>4. CASE Serve
  <2> DEFINE n == toDevice[1].id
             f == [id |-> n, msg |-> Reply(regs, Sent(n))]
             g == [id |-> 0, msg |-> Unknown]
  <2>1. CASE toHost' = toHost BY <2>1 DEF Carried
  <2>2. CASE toHost' = Append(toHost, g) /\ g \in HostFrame
    <3>1. g.msg = Unknown OBVIOUS
    <3> HIDE DEF g
    <3> QED BY <1>3, <2>2, <3>1
  <2>3. CASE toHost' = Append(toHost, f) /\ f \in HostFrame /\ n \in 1..issued
    <3>1. f.id # 0 BY <2>3
    <3> HIDE DEF f
    <3> QED BY <1>3, <2>3, <3>1
  <2> HIDE DEF f, g, n
  <2> QED BY <1>4, <2>1, <2>2, <2>3, ServeFacts DEF f, g, n
<1> QED BY <1>2, <1>4

(* Every step keeps the host's frames the requests that it has sent.       *)
LEMMA CarriedStep == Types /\ Carried /\ [Next]_vars => Carried'
<1> SUFFICES ASSUME Types, Carried, [Next]_vars PROVE Carried' OBVIOUS
<1> DEFINE Fit(f) ==
             f.msg \in (IF f.id # 0 THEN {SentIn(results', request', f.id)} ELSE Strays)
                         \cup {Garbled}
<1>1. \A k \in DOMAIN toDevice : toDevice[k].id \in 0..issued /\ issued \in Nat
  BY C2LinkAssumption DEF Types, TypeOK, Frames
<1>2. ASSUME NEW k \in DOMAIN toDevice PROVE Fit(toDevice[k])
  <2>1. CASE toDevice[k].id = 0 BY <2>1 DEF Carried
  <2>2. CASE toDevice[k].id # 0
    <3>1. toDevice[k].id \in 1..issued BY <1>1, <2>2
    <3>2. SentIn(results', request', toDevice[k].id) = Sent(toDevice[k].id) BY <3>1, SentStays
    <3> QED BY <2>2, <3>2 DEF Carried
  <2> QED BY <2>1, <2>2
<1>3. ASSUME \A k \in DOMAIN toDevice' : Fit(toDevice'[k]) PROVE Carried'
  <2>1. \A k \in DOMAIN toHost' : toHost'[k].id = 0 => toHost'[k].msg \in {Unknown, Garbled}
    BY ForeignStep
  <2> QED BY <1>3, <2>1 DEF Carried, Sent
<1>4. ASSUME NEW r \in Requests, Issue(r) PROVE Carried'
  <2> DEFINE f == [id |-> issued + 1, msg |-> r]
  <2>1. f.id = issued + 1 /\ f.msg = r OBVIOUS
  <2>2. /\ DOMAIN toDevice' = DOMAIN toDevice \cup {Len(toDevice) + 1}
        /\ \A k \in DOMAIN toDevice : toDevice'[k] = toDevice[k]
        /\ toDevice'[Len(toDevice) + 1] = f
        /\ SentIn(results', request', issued + 1) = r /\ issued \in Nat
    BY <1>4, IssueFacts
  <2> HIDE DEF f
  <2>3. Fit(f) BY <2>1, <2>2
  <2> QED BY <1>2, <1>3, <2>2, <2>3
<1>5. ASSUME NEW m \in Strays, Stray(m) PROVE Carried'
  <2> DEFINE f == [id |-> 0, msg |-> m]
  <2>1. f.id = 0 /\ f.msg = m OBVIOUS
  <2>2. /\ DOMAIN toDevice' = DOMAIN toDevice \cup {Len(toDevice) + 1}
        /\ \A k \in DOMAIN toDevice : toDevice'[k] = toDevice[k]
        /\ toDevice'[Len(toDevice) + 1] = f
    BY <1>5, StrayAdds
  <2> HIDE DEF f
  <2>3. Fit(f) BY <2>1
  <2> QED BY <1>2, <1>3, <2>2, <2>3
<1>6. ASSUME Thinned(toDevice', toDevice) PROVE Carried'
  <2>1. \A k \in DOMAIN toDevice' : Fit(toDevice'[k]) BY <1>2, <1>6 DEF Thinned
  <2> QED BY <1>3, <2>1
<1> QED BY <1>4, <1>5, <1>6, DeviceThins

(* What an answer to a request adds, and what it leaves on the line.       *)
LEMMA AnswerAdds ==
  ASSUME Types, Carried, Serve, toDevice[1].id # 0
  PROVE  LET n == toDevice[1].id
             f == [id |-> n, msg |-> Reply(regs, Sent(n))]
         IN  /\ n \in 1..issued /\ issued \in Nat
             /\ DOMAIN toDevice = 1..Len(toDevice) /\ Len(toDevice) \in Nat /\ 1 \in DOMAIN toDevice
             /\ DOMAIN toDevice' = 1..(Len(toDevice) - 1)
             /\ \A k \in DOMAIN toDevice' : k + 1 \in DOMAIN toDevice /\ toDevice'[k] = toDevice[k + 1]
             /\ DOMAIN served = 1..Len(served) /\ Len(served) \in Nat
             /\ DOMAIN served' = DOMAIN served \cup {Len(served) + 1}
             /\ \A i \in DOMAIN served : served'[i] = served[i] /\ served[i] \in 0..issued
             /\ served'[Len(served) + 1] = n
             /\ DOMAIN toHost = 1..Len(toHost) /\ Len(toHost) \in Nat
             /\ DOMAIN toHost' = DOMAIN toHost \cup {Len(toHost) + 1}
             /\ \A k \in DOMAIN toHost : toHost'[k] = toHost[k]
             /\ toHost'[Len(toHost) + 1] = f
             /\ regs' = RegsAfter(regs, Sent(n)) /\ Sent(n) \in Requests /\ regs \in Bank
             /\ UNCHANGED <<hostVars, faults>>
<1> DEFINE n == toDevice[1].id
           f == [id |-> n, msg |-> Reply(regs, Sent(n))]
<1>1. /\ n \in 1..issued /\ Sent(n) \in Requests /\ regs' = RegsAfter(regs, Sent(n))
      /\ toHost' = Append(toHost, f) /\ served' = Append(served, n) /\ f \in HostFrame
  BY ServeFacts
<1>2. /\ toDevice \in Seq(DeviceFrame) /\ toHost \in Seq(HostFrame) /\ served \in Seq(0..issued)
      /\ issued \in Nat /\ toDevice # <<>> /\ toDevice' = Tail(toDevice) /\ regs \in Bank
      /\ UNCHANGED <<hostVars, faults>>
  BY C2LinkAssumption DEF Types, TypeOK, Serve
<1>3. n \in 0..issued BY <1>1, <1>2
<1> HIDE DEF n, f
<1>4. /\ DOMAIN toDevice = 1..Len(toDevice) /\ Len(toDevice) \in Nat /\ 1 \in DOMAIN toDevice
      /\ DOMAIN toDevice' = 1..(Len(toDevice) - 1)
      /\ \A k \in DOMAIN toDevice' : k + 1 \in DOMAIN toDevice /\ toDevice'[k] = toDevice[k + 1]
  BY <1>2, TailElements
<1>5. /\ DOMAIN served = 1..Len(served) /\ Len(served) \in Nat
      /\ DOMAIN served' = 1..(Len(served) + 1)
      /\ \A i \in DOMAIN served : served'[i] = served[i]
      /\ served'[Len(served) + 1] = n
  BY <1>1, <1>2, <1>3, AppendElements
<1>6. \A i \in DOMAIN served : served[i] \in 0..issued BY <1>2, SeqElements
<1>7. /\ DOMAIN toHost = 1..Len(toHost) /\ Len(toHost) \in Nat
      /\ DOMAIN toHost' = 1..(Len(toHost) + 1)
      /\ \A k \in DOMAIN toHost : toHost'[k] = toHost[k]
      /\ toHost'[Len(toHost) + 1] = f
  BY <1>1, <1>2, AppendElements
<1>8. DOMAIN served' = DOMAIN served \cup {Len(served) + 1} BY <1>5
<1>9. DOMAIN toHost' = DOMAIN toHost \cup {Len(toHost) + 1} BY <1>7
<1> QED BY <1>1, <1>2, <1>4, <1>5, <1>6, <1>7, <1>8, <1>9 DEF n, f

(* The other steps leave what has been served.                             *)
LEMMA ServedStays ==
  ASSUME Types, Carried, [Next]_vars, ~(Serve /\ toDevice[1].id # 0)
  PROVE  served' = served /\ regs' = regs /\ Fewer(toHost', toHost)
<1> USE DEF deviceVars
<1>1. CASE Serve
  <2> DEFINE g == [id |-> 0, msg |-> Unknown]
  <2>1. /\ UNCHANGED <<served, regs>>
        /\ toHost' = toHost \/ (toHost' = Append(toHost, g) /\ g \in HostFrame)
    BY <1>1, ServeFacts
  <2>2. toHost \in Seq(HostFrame) BY DEF Types
  <2>3. g.id = 0 OBVIOUS
  <2> HIDE DEF g
  <2>4. CASE toHost' = toHost BY <2>1, <2>2, <2>4, SameThins, ThinnedFewer
  <2>5. CASE toHost' = Append(toHost, g) /\ g \in HostFrame BY <2>1, <2>2, <2>3, <2>5, ForeignFewer
  <2> QED BY <2>1, <2>4, <2>5
<1>2. CASE ~Serve
  <2>1. Fewer(toHost', toHost) BY <1>2, HostThins, ThinnedFewer
  <2>2. CASE \/ Receive \/ Timeout \/ Reopen \/ Skip \/ DamageRequest \/ DamageReply
             \/ UNCHANGED vars
    BY <2>1, <2>2 DEF Receive, Timeout, Conclude, Reopen, Skip, DamageRequest, DamageReply, vars
  <2>3. CASE (\E r \in Requests : Issue(r)) \/ (\E m \in Strays : Stray(m))
    BY <2>1, <2>3 DEF Issue, Stray
  <2> QED BY <1>2, <2>2, <2>3 DEF Next
<1> QED BY <1>1, <1>2

(* Every step keeps the requests in their order, on the line and after.    *)
LEMMA ForthStep == Types /\ Carried /\ Forth /\ [Next]_vars => Forth'
<1> SUFFICES ASSUME Types, Carried, Forth, [Next]_vars PROVE Forth' OBVIOUS
<1>1. /\ issued \in Nat /\ toDevice \in Seq(DeviceFrame)
      /\ \A k \in DOMAIN toDevice : toDevice[k].id \in 0..issued
      /\ \A i \in DOMAIN served : served[i] \in 0..issued
  BY C2LinkAssumption, SeqElements DEF Types, TypeOK, Frames
<1>2. Len(toDevice) \in Nat /\ DOMAIN toDevice = 1..Len(toDevice) BY <1>1, SeqElements
<1>3. CASE Serve /\ toDevice[1].id # 0
  <2> DEFINE n == toDevice[1].id
  <2>1. /\ n \in 1..issued /\ 1 \in DOMAIN toDevice
        /\ DOMAIN toDevice' = 1..(Len(toDevice) - 1)
        /\ \A k \in DOMAIN toDevice' : k + 1 \in DOMAIN toDevice /\ toDevice'[k] = toDevice[k + 1]
        /\ DOMAIN served = 1..Len(served) /\ Len(served) \in Nat
        /\ DOMAIN served' = DOMAIN served \cup {Len(served) + 1}
        /\ \A i \in DOMAIN served : served'[i] = served[i]
        /\ served'[Len(served) + 1] = n
    BY <1>3, AnswerAdds
  <2>2. 1 \in Ours(toDevice) /\ toDevice[1].id = n BY <1>3, <2>1 DEF Ours
  <2>3. \A i \in DOMAIN served : served[i] < n BY <2>2 DEF Forth
  <2>4. ASSUME NEW k \in Ours(toDevice')
        PROVE  k + 1 \in Ours(toDevice) /\ toDevice'[k].id = toDevice[k + 1].id
               /\ k \in Nat /\ n < toDevice'[k].id
    <3>1. k + 1 \in Ours(toDevice) /\ toDevice'[k].id = toDevice[k + 1].id /\ k \in Nat /\ 1 < k + 1
      BY <1>2, <2>1, <2>4 DEF Ours
    <3> QED BY <2>2, <3>1 DEF Forth
  <2> HIDE DEF n
  <2>5. ASSUME NEW i \in DOMAIN served', NEW j \in DOMAIN served', i < j
        PROVE  served'[i] < served'[j]
    <3>1. i \in DOMAIN served BY <2>1, <2>5
    <3>2. CASE j \in DOMAIN served BY <2>1, <2>5, <3>1, <3>2 DEF Forth, ServedInOrder
    <3>3. CASE j = Len(served) + 1 BY <2>1, <2>3, <3>1, <3>3
    <3> QED BY <2>1, <3>2, <3>3
  <2>6. \A i \in DOMAIN served' : served'[i] # 0
    <3>1. \A i \in DOMAIN served : served[i] # 0 BY DEF Forth, Served
    <3> QED BY <2>1, <3>1
  <2>7. ASSUME NEW k \in Ours(toDevice'), NEW l \in Ours(toDevice'), k < l
        PROVE  toDevice'[k].id < toDevice'[l].id
    <3>1. k + 1 < l + 1 BY <2>4, <2>7
    <3> QED BY <2>4, <3>1 DEF Forth
  <2>8. ASSUME NEW k \in Ours(toDevice'), NEW i \in DOMAIN served'
        PROVE  served'[i] < toDevice'[k].id
    <3>1. CASE i \in DOMAIN served
      <4>1. served'[i] = served[i] /\ served[i] < toDevice[k + 1].id
        BY <2>1, <2>4, <3>1 DEF Forth
      <4> QED BY <2>4, <4>1
    <3>2. CASE i = Len(served) + 1 BY <2>1, <2>4, <3>2
    <3> QED BY <2>1, <3>1, <3>2
  <2> QED BY <2>5, <2>6, <2>7, <2>8 DEF Forth, ServedInOrder, Served, Ours
<1>4. ASSUME served' = served, Thinned(toDevice', toDevice) PROVE Forth'
  <2>1. PICK at \in [DOMAIN toDevice' -> DOMAIN toDevice] :
          /\ \A k, l \in DOMAIN toDevice' : k < l => at[k] < at[l]
          /\ \A k \in DOMAIN toDevice' : toDevice'[k].id = toDevice[at[k]].id
    BY <1>4 DEF Thinned
  <2>2. \A k \in Ours(toDevice') : at[k] \in Ours(toDevice) BY <2>1 DEF Ours
  <2>3. \A k, l \in Ours(toDevice') : k < l => toDevice'[k].id < toDevice'[l].id
    BY <2>1, <2>2 DEF Ours, Forth
  <2>4. \A k \in Ours(toDevice') : \A i \in DOMAIN served : served[i] < toDevice'[k].id
    BY <2>1, <2>2 DEF Ours, Forth
  <2> QED BY <1>4, <2>3, <2>4 DEF Forth, ServedInOrder, Served, Ours
<1>5. ASSUME NEW r \in Requests, Issue(r) PROVE Forth'
  <2> DEFINE f == [id |-> issued + 1, msg |-> r]
             N == Len(toDevice) + 1
  <2>1. /\ DOMAIN toDevice' = DOMAIN toDevice \cup {N} /\ toDevice'[N] = f
        /\ \A k \in DOMAIN toDevice : toDevice'[k] = toDevice[k]
        /\ UNCHANGED served
    BY <1>5, IssueFacts DEF deviceVars
  <2>2. f.id = issued + 1 OBVIOUS
  <2>3. N \in Nat /\ \A k \in DOMAIN toDevice : k < N BY <1>2
  <2> HIDE DEF f, N
  <2>4. ASSUME NEW k \in Ours(toDevice'), NEW l \in Ours(toDevice'), k < l
        PROVE  toDevice'[k].id < toDevice'[l].id
    <3>1. k \in Ours(toDevice) /\ toDevice'[k] = toDevice[k] BY <1>2, <2>1, <2>3, <2>4 DEF Ours
    <3>2. CASE l \in DOMAIN toDevice BY <2>1, <2>4, <3>1, <3>2 DEF Ours, Forth
    <3>3. CASE l = N
      <4>1. toDevice[k].id \in 0..issued BY <1>1, <3>1 DEF Ours
      <4> QED BY <1>1, <2>1, <2>2, <3>1, <3>3, <4>1
    <3> QED BY <2>1, <3>2, <3>3 DEF Ours
  <2>5. ASSUME NEW k \in Ours(toDevice'), NEW i \in DOMAIN served
        PROVE  served[i] < toDevice'[k].id
    <3>1. CASE k \in DOMAIN toDevice BY <2>1, <3>1 DEF Ours, Forth
    <3>2. CASE k = N BY <1>1, <2>1, <2>2, <3>2
    <3> QED BY <2>1, <3>1, <3>2 DEF Ours
  <2> QED BY <2>1, <2>4, <2>5 DEF Forth, ServedInOrder, Served, Ours
<1>6. ASSUME NEW m \in Strays, Stray(m) PROVE Forth'
  <2> DEFINE f == [id |-> 0, msg |-> m]
             N == Len(toDevice) + 1
  <2>1. /\ DOMAIN toDevice' = DOMAIN toDevice \cup {N} /\ toDevice'[N] = f
        /\ \A k \in DOMAIN toDevice : toDevice'[k] = toDevice[k]
        /\ UNCHANGED served
    BY <1>2, <1>6, StrayAdds DEF deviceVars
  <2>2. f.id = 0 OBVIOUS
  <2> HIDE DEF f, N
  <2>3. \A k \in Ours(toDevice') : k \in Ours(toDevice) /\ toDevice'[k] = toDevice[k]
    BY <2>1, <2>2 DEF Ours
  <2> QED BY <2>1, <2>3 DEF Forth, ServedInOrder, Served, Ours
<1> QED BY <1>3, <1>4, <1>5, <1>6, DeviceThins, ServedStays

(* What the host has concluded stays, but for what a reply or a timeout    *)
(* adds to it.                                                             *)
LEMMA ResultsStay ==
  ASSUME [Next]_vars, ~Receive, ~Timeout
  PROVE  UNCHANGED <<results, timeouts>>
<1> USE DEF hostVars
<1>1. CASE Reopen \/ Skip \/ Serve \/ DamageRequest \/ DamageReply \/ UNCHANGED vars
  BY <1>1 DEF Reopen, Skip, Serve, DamageRequest, DamageReply, vars
<1>2. CASE (\E r \in Requests : Issue(r)) \/ (\E m \in Strays : Stray(m))
  BY <1>2 DEF Issue, Stray
<1> QED BY <1>1, <1>2 DEF Next

(* A reply concludes the request that waits, with the oldest frame to the  *)
(* host.                                                                   *)
LEMMA ReceiveAdds ==
  ASSUME Types, Receive
  PROVE  /\ waiting /\ waiting' = FALSE
         /\ issued \in Nat /\ issued > 0 /\ Len(results) = issued - 1 /\ Len(results') = issued
         /\ DOMAIN results = 1..(issued - 1) /\ DOMAIN results' = 1..issued
         /\ DOMAIN results' = DOMAIN results \cup {issued}
         /\ \A j \in DOMAIN results : results'[j] = results[j]
         /\ results'[issued].id = issued /\ results'[issued].of = toHost[1].id
         /\ results'[issued].outcome # "timeout" /\ results'[issued].reply = toHost[1].msg
         /\ results'[issued].outcome = Outcome(toHost[1].msg)
         /\ DOMAIN toHost = 1..Len(toHost) /\ Len(toHost) \in Nat /\ 1 \in DOMAIN toHost
         /\ DOMAIN toHost' = 1..(Len(toHost) - 1)
         /\ \A k \in DOMAIN toHost' : k + 1 \in DOMAIN toHost /\ toHost'[k] = toHost[k + 1]
         /\ UNCHANGED <<timeouts, issued, request, deviceVars, toDevice, faults>>
<1> DEFINE m == toHost[1].msg
<1>1. /\ toHost[1].id \in 0..issued /\ Outcome(m) \in {"error", "nak", "ok"}
      /\ m \in Answer \cup {Garbled} /\ Conclude(Outcome(m), toHost[1].id, m)
      /\ UNCHANGED <<timeouts, issued, request, deviceVars, toDevice, faults>>
  BY ReceiveFacts
<1>2. /\ issued \in 1..MaxRequests /\ Len(results) = issued - 1 /\ Len(results') = issued
      /\ DOMAIN results = 1..(issued - 1) /\ DOMAIN results' = 1..issued
      /\ \A j \in 1..(issued - 1) : results'[j] = results[j]
      /\ results'[issued] = [id |-> issued, request |-> request, outcome |-> Outcome(m),
                            of |-> toHost[1].id, reply |-> m]
  BY <1>1, ConcludeFacts
<1>3. waiting /\ waiting' = FALSE BY <1>1 DEF Conclude
<1>4. toHost \in Seq(HostFrame) /\ toHost # <<>> /\ toHost' = Tail(toHost)
  BY DEF Types, Receive
<1>5. /\ DOMAIN toHost = 1..Len(toHost) /\ Len(toHost) \in Nat /\ 1 \in DOMAIN toHost
      /\ DOMAIN toHost' = 1..(Len(toHost) - 1)
      /\ \A k \in DOMAIN toHost' : k + 1 \in DOMAIN toHost /\ toHost'[k] = toHost[k + 1]
  BY <1>4, TailElements
<1>6. /\ results'[issued].id = issued /\ results'[issued].of = toHost[1].id
      /\ results'[issued].outcome = Outcome(m) /\ results'[issued].reply = m
      /\ results'[issued].outcome # "timeout"
  BY <1>1, <1>2
<1>7. issued \in Nat /\ issued > 0 /\ DOMAIN results' = DOMAIN results \cup {issued} BY <1>2
<1> HIDE DEF m
<1> QED BY <1>1, <1>2, <1>3, <1>5, <1>6, <1>7 DEF m

(* A timeout concludes the request that waits, with no reply.              *)
LEMMA TimeoutAdds ==
  ASSUME Types, Timeout
  PROVE  /\ waiting /\ waiting' = FALSE
         /\ issued \in Nat /\ issued > 0 /\ Len(results) = issued - 1 /\ Len(results') = issued
         /\ DOMAIN results = 1..(issued - 1) /\ DOMAIN results' = 1..issued
         /\ DOMAIN results' = DOMAIN results \cup {issued}
         /\ \A j \in DOMAIN results : results'[j] = results[j]
         /\ results'[issued].id = issued /\ results'[issued].of = issued
         /\ results'[issued].outcome = "timeout" /\ results'[issued].reply = NoReply
         /\ timeouts \in Nat /\ timeouts' = timeouts + 1
         /\ UNCHANGED <<toHost, issued, request, deviceVars, toDevice, faults>>
<1>1. /\ Conclude("timeout", issued, NoReply) /\ issued \in 0..issued /\ timeouts' = timeouts + 1
      /\ UNCHANGED <<toHost, issued, request, deviceVars, toDevice, faults>>
  BY TimeoutFacts
<1>2. /\ issued \in 1..MaxRequests /\ Len(results) = issued - 1 /\ Len(results') = issued
      /\ DOMAIN results = 1..(issued - 1) /\ DOMAIN results' = 1..issued
      /\ \A j \in 1..(issued - 1) : results'[j] = results[j]
      /\ results'[issued] = [id |-> issued, request |-> request, outcome |-> "timeout",
                            of |-> issued, reply |-> NoReply]
  BY <1>1, ConcludeFacts
<1>3. waiting /\ waiting' = FALSE BY <1>1 DEF Conclude
<1>4. /\ results'[issued].id = issued /\ results'[issued].of = issued
      /\ results'[issued].outcome = "timeout" /\ results'[issued].reply = NoReply
  BY <1>2
<1>5. issued \in Nat /\ issued > 0 /\ DOMAIN results' = DOMAIN results \cup {issued} BY <1>2
<1>6. timeouts \in Nat BY C2LinkAssumption DEF Types, TypeOK
<1> QED BY <1>1, <1>2, <1>3, <1>4, <1>5, <1>6

(* Every step keeps what the host can see of its slips.                    *)
LEMMA ConcludedStep == Types /\ Carried /\ Concluded /\ [Next]_vars => Concluded'
<1> SUFFICES ASSUME Types, Carried, Concluded, [Next]_vars PROVE Concluded' OBVIOUS
<1>1. CASE Receive
  <2>1. /\ DOMAIN results' = DOMAIN results \cup {issued}
        /\ \A j \in DOMAIN results : results'[j] = results[j]
        /\ results'[issued].of = toHost[1].id /\ results'[issued].outcome # "timeout"
        /\ results'[issued].reply = toHost[1].msg /\ 1 \in DOMAIN toHost
        /\ results'[issued].outcome = Outcome(toHost[1].msg)
    BY <1>1, ReceiveAdds
  <2>2. Slip(results'[issued]) => Suspicious(results'[issued])
    <3> SUFFICES ASSUME toHost[1].id = 0 PROVE Suspicious(results'[issued]) BY <2>1 DEF Slip
    <3>1. toHost[1].msg \in {Unknown, Garbled} BY <2>1 DEF Carried
    <3> QED BY <2>1, <3>1, GarbledFacts DEF Suspicious
  <2> QED BY <2>1, <2>2 DEF Concluded
<1>2. CASE Timeout
  <2>1. /\ DOMAIN results' = DOMAIN results \cup {issued}
        /\ \A j \in DOMAIN results : results'[j] = results[j]
        /\ results'[issued].outcome = "timeout" /\ results'[issued].reply = NoReply
    BY <1>2, TimeoutAdds
  <2> QED BY <2>1 DEF Concluded, Suspicious
<1>3. CASE ~Receive /\ ~Timeout
  <2>1. results' = results BY <1>3, ResultsStay
  <2> QED BY <2>1 DEF Concluded
<1> QED BY <1>1, <1>2, <1>3

(* Every step but a reply that the host takes keeps the results of those.  *)
LEMMA TakenStays ==
  ASSUME Types, [Next]_vars, ~(Receive /\ toHost[1].id # 0)
  PROVE  Taken' = Taken /\ \A j \in Taken : results'[j] = results[j]
<1>1. CASE Receive /\ toHost[1].id = 0
  <2>1. /\ DOMAIN results' = DOMAIN results \cup {issued} /\ issued \notin DOMAIN results
        /\ \A j \in DOMAIN results : results'[j] = results[j]
        /\ results'[issued].of = toHost[1].id
    BY <1>1, ReceiveAdds
  <2>2. Slip(results'[issued]) BY <1>1, <2>1 DEF Slip
  <2> QED BY <2>1, <2>2 DEF Taken
<1>2. CASE Timeout
  <2>1. /\ DOMAIN results' = DOMAIN results \cup {issued} /\ issued \notin DOMAIN results
        /\ \A j \in DOMAIN results : results'[j] = results[j]
        /\ results'[issued].outcome = "timeout"
    BY <1>2, TimeoutAdds
  <2>2. Slip(results'[issued]) BY <2>1 DEF Slip
  <2> QED BY <2>1, <2>2 DEF Taken
<1>3. CASE ~Receive /\ ~Timeout
  <2>1. results' = results BY <1>3, ResultsStay
  <2> QED BY <2>1 DEF Taken
<1> QED BY <1>1, <1>2, <1>3

(* Every step keeps the replies in their order, on the line and after.     *)
LEMMA BackStep == Types /\ Carried /\ Forth /\ Back /\ [Next]_vars => Back'
<1> SUFFICES ASSUME Types, Carried, Forth, Back, [Next]_vars PROVE Back' OBVIOUS
<1> USE DEF deviceVars
<1>1. CASE Serve /\ toDevice[1].id # 0
  <2> DEFINE n == toDevice[1].id
             f == [id |-> n, msg |-> Reply(regs, Sent(n))]
             N == Len(toHost) + 1
  <2>1. /\ 1 \in DOMAIN toDevice
        /\ DOMAIN toHost = 1..Len(toHost) /\ Len(toHost) \in Nat
        /\ DOMAIN toHost' = DOMAIN toHost \cup {N}
        /\ \A k \in DOMAIN toHost : toHost'[k] = toHost[k]
        /\ toHost'[N] = f
        /\ DOMAIN served' = DOMAIN served \cup {Len(served) + 1}
        /\ \A i \in DOMAIN served : served'[i] = served[i]
        /\ served'[Len(served) + 1] = n /\ results' = results
    BY <1>1, AnswerAdds DEF hostVars
  <2>2. 1 \in Ours(toDevice) /\ toDevice[1].id = n BY <1>1, <2>1 DEF Ours
  <2>3. \A i \in DOMAIN served : served[i] < n BY <2>2 DEF Forth
  <2>4. f.id = n OBVIOUS
  <2>5. N \in Nat /\ \A k \in DOMAIN toHost : k < N /\ k \in Nat BY <2>1
  <2> HIDE DEF n, f, N
  <2>6. ASSUME NEW x, Served(x) PROVE x < n /\ \E i \in DOMAIN served' : served'[i] = x
    BY <2>1, <2>3, <2>6 DEF Served
  <2>11. \A k \in Ours(toHost') : k \in Ours(toHost) \/ k = N BY <2>1 DEF Ours
  <2>12. \A k \in Ours(toHost) : k \in DOMAIN toHost /\ toHost'[k] = toHost[k] BY <2>1 DEF Ours
  <2>7. ASSUME NEW k \in Ours(toHost') PROVE \E i \in DOMAIN served' : served'[i] = toHost'[k].id
    <3>1. CASE k \in Ours(toHost) BY <2>6, <2>12, <3>1 DEF Back
    <3>2. CASE k = N BY <2>1, <2>4, <3>2
    <3> QED BY <2>11, <3>1, <3>2
  <2>8. ASSUME NEW k \in Ours(toHost'), NEW l \in Ours(toHost'), k < l
        PROVE  toHost'[k].id < toHost'[l].id
    <3>1. l \in DOMAIN toHost \cup {N} BY <2>1 DEF Ours
    <3>2. k \in Ours(toHost)
      <4>1. \A i \in DOMAIN toHost \cup {N} : ~(N < i) BY <2>5
      <4> QED BY <2>8, <2>11, <3>1, <4>1
    <3>3. CASE l \in Ours(toHost) BY <2>8, <2>12, <3>2, <3>3 DEF Back
    <3>4. CASE l = N BY <2>1, <2>4, <2>6, <2>12, <3>2, <3>4 DEF Back
    <3> QED BY <2>11, <3>3, <3>4
  <2>9. Taken' = Taken BY <2>1 DEF Taken
  <2>10. ASSUME NEW j \in Taken
         PROVE  /\ \E i \in DOMAIN served' : served'[i] = results[j].of
                /\ \A k \in Ours(toHost') : results[j].of < toHost'[k].id
    <3>1. Served(results[j].of) BY DEF Back
    <3>2. ASSUME NEW k \in Ours(toHost') PROVE results[j].of < toHost'[k].id
      <4>1. CASE k \in Ours(toHost) BY <2>12, <4>1 DEF Back
      <4>2. CASE k = N BY <2>1, <2>4, <2>6, <3>1, <4>2
      <4> QED BY <2>11, <4>1, <4>2
    <3> QED BY <2>6, <3>1, <3>2
  <2> QED BY <2>1, <2>7, <2>8, <2>9, <2>10 DEF Back, Served, Ours
<1>2. CASE Receive /\ toHost[1].id # 0
  <2>1. /\ issued \in Nat
        /\ DOMAIN results = 1..(issued - 1) /\ DOMAIN results' = DOMAIN results \cup {issued}
        /\ \A j \in DOMAIN results : results'[j] = results[j]
        /\ results'[issued].of = toHost[1].id /\ results'[issued].outcome # "timeout"
        /\ DOMAIN toHost = 1..Len(toHost) /\ Len(toHost) \in Nat /\ 1 \in DOMAIN toHost
        /\ DOMAIN toHost' = 1..(Len(toHost) - 1)
        /\ \A k \in DOMAIN toHost' : k + 1 \in DOMAIN toHost /\ toHost'[k] = toHost[k + 1]
        /\ served' = served
    BY <1>2, ReceiveAdds
  <2>14. 1 \in Ours(toHost) BY <1>2, <2>1 DEF Ours
  <2>15. \A k \in Ours(toHost') : /\ k + 1 \in Ours(toHost) /\ toHost'[k] = toHost[k + 1]
                                  /\ k \in Nat /\ 1 < k + 1
    BY <2>1 DEF Ours
  <2>2. Taken' = Taken \cup {issued} BY <1>2, <2>1 DEF Taken, Slip
  <2>3. \A j \in Taken : j \in DOMAIN results /\ j < issued BY <2>1 DEF Taken
  <2>4. \A k \in Ours(toHost') : Served(toHost'[k].id) /\ toHost[1].id < toHost'[k].id
    BY <2>14, <2>15 DEF Back
  <2>5. ASSUME NEW k \in Ours(toHost'), NEW l \in Ours(toHost'), k < l
        PROVE  toHost'[k].id < toHost'[l].id
    <3>1. k + 1 < l + 1 BY <2>5, <2>15
    <3> QED BY <2>15, <3>1 DEF Back
  <2>6. \A j \in Taken : \A k \in Ours(toHost') : results'[j].of < toHost'[k].id
    BY <2>1, <2>3, <2>15 DEF Back
  <2>7. \A i \in Taken : results'[i].of < toHost[1].id BY <2>1, <2>3, <2>14 DEF Back
  <2>8. Served(toHost[1].id) /\ \A j \in Taken : Served(results'[j].of)
    BY <2>1, <2>3, <2>14 DEF Back
  <2>9. \A i, j \in Taken : i < j => results'[i].of < results'[j].of
    BY <2>1, <2>3 DEF Back
  <2>10. ASSUME NEW i \in Taken', NEW j \in Taken', i < j
         PROVE  results'[i].of < results'[j].of
    <3>1. i \in Taken BY <2>1, <2>2, <2>3, <2>10
    <3> QED BY <2>1, <2>2, <2>7, <2>9, <2>10, <3>1
  <2>11. \A x : Served(x) => \E i \in DOMAIN served' : served'[i] = x BY <2>1 DEF Served
  <2>13. \A j \in Taken' : /\ Served(results'[j].of)
                           /\ \A k \in Ours(toHost') : results'[j].of < toHost'[k].id
    BY <2>1, <2>2, <2>4, <2>6, <2>8
  <2> QED BY <2>4, <2>5, <2>10, <2>11, <2>13 DEF Back, Served, Ours
<1>3. CASE ~(Receive /\ toHost[1].id # 0) /\ ~(Serve /\ toDevice[1].id # 0)
  <2>1. served' = served /\ Fewer(toHost', toHost) BY <1>3, ServedStays
  <2>2. PICK at \in [Ours(toHost') -> Ours(toHost)] :
          /\ \A k, l \in Ours(toHost') : k < l => at[k] < at[l]
          /\ \A k \in Ours(toHost') : toHost'[k].id = toHost[at[k]].id
    BY <2>1 DEF Fewer
  <2>3. Taken' = Taken /\ \A j \in Taken : results'[j] = results[j] BY <1>3, TakenStays
  <2>4. \A k \in Ours(toHost') : Served(toHost'[k].id) BY <2>2 DEF Back
  <2>5. \A k, l \in Ours(toHost') : k < l => toHost'[k].id < toHost'[l].id
    BY <2>2 DEF Back
  <2>6. \A j \in Taken : \A k \in Ours(toHost') : results[j].of < toHost'[k].id
    BY <2>2 DEF Back
  <2> QED BY <2>1, <2>3, <2>4, <2>5, <2>6 DEF Back, Served, Ours
<1> QED BY <1>1, <1>2, <1>3

-----------------------------------------------------------------------------
(* What is on the line comes of a request, goes on with the device's answer*)
(* and ends, with all before it, in the host.                              *)
LEMMA LineFacts == Types => \A n \in OnTheLine : n \in 1..issued /\ issued \in Nat
<1> SUFFICES ASSUME Types, NEW n \in OnTheLine PROVE n \in 1..issued /\ issued \in Nat OBVIOUS
<1>1. issued \in Nat /\ Frames(toDevice) /\ Frames(toHost)
  BY C2LinkAssumption DEF Types, TypeOK
<1>2. n \in 0..issued /\ n # 0 BY <1>1 DEF Frames, OnTheLine, Ours
<1> QED BY <1>1, <1>2

(* No number comes back on the line: the numbers of the next state were    *)
(* there before, or are new with Issue; Receive takes the oldest.          *)
LEMMA LineStep ==
  ASSUME Types, Carried, Forth, Back, [Next]_vars
  PROVE  \A n \in OnTheLine' :
           \/ n \in OnTheLine /\ (Receive => toHost[1].id < n)
           \/ n = issued + 1 /\ \E r \in Requests : Issue(r)
<1> USE DEF deviceVars
<1>1. CASE Serve /\ toDevice[1].id # 0
  <2> DEFINE n == toDevice[1].id
             f == [id |-> n, msg |-> Reply(regs, Sent(n))]
             N == Len(toHost) + 1
  <2>1. /\ 1 \in DOMAIN toDevice
        /\ \A k \in DOMAIN toDevice' : k + 1 \in DOMAIN toDevice /\ toDevice'[k] = toDevice[k + 1]
        /\ DOMAIN toHost' = DOMAIN toHost \cup {N}
        /\ \A k \in DOMAIN toHost : toHost'[k] = toHost[k]
        /\ toHost'[N] = f
    BY <1>1, AnswerAdds
  <2>2. f.id = n OBVIOUS
  <2>3. n \in OnTheLine BY <1>1, <2>1 DEF OnTheLine, Ours
  <2> HIDE DEF n, f, N
  <2>4. \A k \in Ours(toDevice') : toDevice'[k].id \in OnTheLine
    BY <2>1 DEF OnTheLine, Ours
  <2>5. \A k \in Ours(toHost') : toHost'[k].id \in OnTheLine
    BY <2>1, <2>2, <2>3 DEF OnTheLine, Ours
  <2>6. ~Receive
    <3>1. Receive => served' = served BY DEF Receive, Conclude
    <3>2. Len(served) + 1 \in DOMAIN served' /\ Len(served) + 1 \notin DOMAIN served
      BY <1>1, AnswerAdds
    <3> QED BY <3>1, <3>2
  <2> QED BY <2>4, <2>5, <2>6 DEF OnTheLine, Ours
<1>2. CASE Receive
  <2>1. /\ DOMAIN toHost' = 1..(Len(toHost) - 1) /\ 1 \in DOMAIN toHost
        /\ \A k \in DOMAIN toHost' : k + 1 \in DOMAIN toHost /\ toHost'[k] = toHost[k + 1]
        /\ toDevice' = toDevice /\ Len(toHost) \in Nat
    BY <1>2, ReceiveAdds
  <2>2. \A k \in Ours(toHost') : k + 1 \in Ours(toHost) /\ toHost'[k] = toHost[k + 1] /\ 1 < k + 1
    BY <2>1 DEF Ours
  <2>3. \A n \in OnTheLine' : n \in OnTheLine BY <2>1, <2>2 DEF OnTheLine, Ours
  <2>4. CASE toHost[1].id = 0 BY <2>3, <2>4, LineFacts
  <2>5. CASE toHost[1].id # 0
    <3>1. 1 \in Ours(toHost) BY <2>1, <2>5 DEF Ours
    <3>2. \A k \in Ours(toHost') : toHost[1].id < toHost'[k].id BY <2>2, <3>1 DEF Back
    <3>3. Served(toHost[1].id) BY <3>1 DEF Back
    <3>4. \A k \in Ours(toDevice) : toHost[1].id < toDevice[k].id BY <3>3 DEF Forth, Served
    <3> QED BY <2>1, <2>3, <3>2, <3>4 DEF OnTheLine, Ours
  <2> QED BY <2>4, <2>5
<1>3. CASE ~Receive /\ ~(Serve /\ toDevice[1].id # 0)
  <2>1. \A k \in Ours(toHost') : toHost'[k].id \in OnTheLine
    BY <1>3, ServedStays DEF Fewer, OnTheLine
  <2>2. ASSUME NEW k \in Ours(toDevice')
        PROVE  \/ toDevice'[k].id \in OnTheLine
               \/ toDevice'[k].id = issued + 1 /\ \E r \in Requests : Issue(r)
    <3>1. ASSUME NEW r \in Requests, Issue(r)
          PROVE  toDevice'[k].id \in OnTheLine \cup {issued + 1}
      <4> DEFINE f == [id |-> issued + 1, msg |-> r]
                 N == Len(toDevice) + 1
      <4>1. /\ DOMAIN toDevice' = DOMAIN toDevice \cup {N} /\ toDevice'[N] = f
            /\ \A i \in DOMAIN toDevice : toDevice'[i] = toDevice[i]
        BY <3>1, IssueFacts
      <4>2. f.id = issued + 1 OBVIOUS
      <4> HIDE DEF f, N
      <4> QED BY <4>1, <4>2 DEF OnTheLine, Ours
    <3>2. ASSUME NEW m \in Strays, Stray(m) PROVE toDevice'[k].id \in OnTheLine
      <4> DEFINE f == [id |-> 0, msg |-> m]
                 N == Len(toDevice) + 1
      <4>1. /\ DOMAIN toDevice' = DOMAIN toDevice \cup {N} /\ toDevice'[N] = f
            /\ \A i \in DOMAIN toDevice : toDevice'[i] = toDevice[i]
        BY <3>2, StrayAdds
      <4>2. f.id = 0 OBVIOUS
      <4> HIDE DEF f, N
      <4> QED BY <4>1, <4>2 DEF OnTheLine, Ours
    <3>3. ASSUME Thinned(toDevice', toDevice) PROVE toDevice'[k].id \in OnTheLine
      BY <3>3 DEF Thinned, OnTheLine, Ours
    <3> QED BY <3>1, <3>2, <3>3, DeviceThins
  <2> QED BY <1>3, <2>1, <2>2 DEF OnTheLine, Ours
<1> QED BY <1>1, <1>2, <1>3

(* The host's variables change by its own three actions only.              *)
LEMMA HostStays ==
  ASSUME [Next]_vars, ~Receive, ~Timeout, \A r \in Requests : ~Issue(r)
  PROVE  UNCHANGED hostVars
<1>1. CASE Reopen \/ Skip \/ Serve \/ DamageRequest \/ DamageReply \/ UNCHANGED vars
  BY <1>1 DEF Reopen, Skip, Serve, DamageRequest, DamageReply, vars
<1>2. CASE \E m \in Strays : Stray(m) BY <1>2 DEF Stray
<1> QED BY <1>1, <1>2 DEF Next

(* What was given up can be counted.                                       *)
LEMMA GivenUpFinite ==
  ASSUME NEW n \in Nat
  PROVE  /\ IsFiniteSet(GivenUp(n)) /\ GivenUp(n) \subseteq 1..n
         /\ Cardinality(GivenUp(n)) \in Nat
<1>1. IsFiniteSet(1..n) BY FS_Interval
<1>2. GivenUp(n) \subseteq 1..n BY DEF GivenUp
<1>3. IsFiniteSet(GivenUp(n)) BY <1>1, <1>2, FS_Subset
<1> QED BY <1>2, <1>3, FS_CardinalityType

(* A request served or answered is behind the host by no more requests     *)
(* than have slipped: every step keeps that.                               *)
LEMMA LateStep == Types /\ Carried /\ Forth /\ Back /\ Late /\ [Next]_vars => Late'
<1> SUFFICES ASSUME Types, Carried, Forth, Back, Late, [Next]_vars PROVE Late' OBVIOUS
<1> DEFINE After(n) == {i \in 1..n : Slip(results'[i])}
           G == Cardinality(GivenUp(Len(results)))
<1>1. /\ issued \in Nat /\ Len(results) \in Nat
      /\ DOMAIN results = 1..Len(results)
  BY C2LinkAssumption, SeqElements DEF Types, TypeOK
<1>0. G \in Nat BY <1>1, GivenUpFinite
<1>2. SUFFICES /\ \A n \in OnTheLine' : Len(results') + 1 - n <= Cardinality(After(Len(results')))
               /\ \A j \in Taken' : j - results'[j].of <= Cardinality(After(j - 1))
  BY DEF Late, GivenUp
<1>3. /\ \A n \in OnTheLine : Len(results) + 1 - n <= G /\ n \in 1..issued
      /\ \A j \in Taken : j - results[j].of <= Cardinality(GivenUp(j - 1))
  BY LineFacts DEF Late
<1>4. ASSUME DOMAIN results' = DOMAIN results \cup {issued}, Len(results) = issued - 1,
             \A j \in DOMAIN results : results'[j] = results[j]
      PROVE  /\ \A j \in Taken : /\ j \in Taken' /\ After(j - 1) = GivenUp(j - 1)
                                /\ results'[j] = results[j]
             /\ After(issued - 1) = GivenUp(Len(results))
             /\ Taken' \subseteq Taken \cup {issued}
  <2>1. Taken' \subseteq Taken \cup {issued} BY <1>4 DEF Taken
  <2>2. \A j \in Taken : j \in Taken' /\ results'[j] = results[j] BY <1>4 DEF Taken
  <2>3. After(issued - 1) = GivenUp(Len(results)) BY <1>1, <1>4 DEF GivenUp
  <2>4. ASSUME NEW j \in Taken PROVE After(j - 1) = GivenUp(j - 1)
    <3>1. \A i \in 1..(j - 1) : i \in DOMAIN results BY <1>1 DEF Taken
    <3> QED BY <1>4, <3>1 DEF GivenUp
  <2> QED BY <2>1, <2>2, <2>3, <2>4
<1>5. CASE Receive /\ toHost[1].id # 0
  <2> DEFINE h == toHost[1].id
  <2>1. /\ DOMAIN results' = DOMAIN results \cup {issued} /\ Len(results) = issued - 1
        /\ \A j \in DOMAIN results : results'[j] = results[j]
        /\ Len(results') = issued /\ issued > 0
        /\ results'[issued].of = h /\ results'[issued].outcome # "timeout"
        /\ 1 \in DOMAIN toHost /\ UNCHANGED <<timeouts, issued>>
    BY <1>5, ReceiveAdds
  <2>2. h \in OnTheLine BY <1>5, <2>1 DEF OnTheLine, Ours
  <2>3. ~ \E r \in Requests : Issue(r)
    <3>1. waiting BY <1>5, ReceiveAdds
    <3> QED BY <3>1, IssueFacts
  <2>4. \A n \in OnTheLine' : n \in OnTheLine /\ h < n BY <1>5, <2>3, LineStep
  <2>12. ~Slip(results'[issued]) BY <1>5, <2>1 DEF Slip
  <2> HIDE DEF h, G
  <2>5. issued - h <= G /\ h \in 1..issued BY <1>3, <2>1, <2>2
  <2>7. After(issued) = After(issued - 1) BY <1>1, <2>1, <2>12
  <2>8. After(issued - 1) = GivenUp(Len(results)) BY <1>4, <2>1
  <2>9. Cardinality(After(Len(results'))) = G BY <2>1, <2>7, <2>8 DEF G
  <2> HIDE DEF After
  <2>6. \A n \in OnTheLine' : Len(results') + 1 - n <= Cardinality(After(Len(results')))
    <3> TAKE n \in OnTheLine'
    <3>1. n \in 1..issued /\ h < n BY <1>3, <2>4
    <3>2. Len(results') + 1 - n <= G BY <1>0, <1>1, <2>1, <2>5, <3>1
    <3> QED BY <2>9, <3>2
  <2>10. issued - results'[issued].of <= Cardinality(After(issued - 1))
    BY <2>1, <2>5, <2>8 DEF G
  <2>11. \A j \in Taken' : j - results'[j].of <= Cardinality(After(j - 1))
    <3> TAKE j \in Taken'
    <3>1. CASE j = issued BY <2>10, <3>1
    <3>2. CASE j \in Taken
      <4>1. After(j - 1) = GivenUp(j - 1) /\ results'[j] = results[j] BY <1>4, <2>1, <3>2 DEF After
      <4> QED BY <1>3, <3>2, <4>1
    <3> QED BY <1>4, <2>1, <3>1, <3>2
  <2> QED BY <2>6, <2>11 DEF After
<1>6. CASE Timeout \/ (Receive /\ toHost[1].id = 0)
  <2>1. /\ DOMAIN results' = DOMAIN results \cup {issued} /\ Len(results) = issued - 1
        /\ \A j \in DOMAIN results : results'[j] = results[j]
        /\ Len(results') = issued /\ issued > 0 /\ waiting
    BY <1>6, TimeoutAdds, ReceiveAdds
  <2>9. Slip(results'[issued])
    <3>1. CASE Timeout BY <3>1, TimeoutAdds DEF Slip
    <3>2. CASE Receive /\ toHost[1].id = 0 BY <3>2, ReceiveAdds DEF Slip
    <3> QED BY <1>6, <3>1, <3>2
  <2>2. \A n \in OnTheLine' : n \in OnTheLine
    <3>1. ~ \E r \in Requests : Issue(r) BY <2>1, IssueFacts
    <3> QED BY <3>1, LineStep
  <2>4. After(issued - 1) = GivenUp(Len(results)) BY <1>4, <2>1
  <2>5. After(issued) = GivenUp(Len(results)) \cup {issued}
    <3>1. After(issued) = After(issued - 1) \cup {issued} BY <1>1, <2>1, <2>9
    <3> QED BY <2>4, <3>1
  <2>6. IsFiniteSet(GivenUp(Len(results))) /\ issued \notin GivenUp(Len(results))
    BY <1>1, <2>1, GivenUpFinite
  <2>7. Cardinality(GivenUp(Len(results)) \cup {issued}) = G + 1 BY <2>6, FS_AddElement
  <2>8. \A j \in Taken' : j - results'[j].of <= Cardinality(After(j - 1))
    <3> TAKE j \in Taken'
    <3>1. j \in Taken BY <1>4, <2>1, <2>9 DEF Taken
    <3>2. After(j - 1) = GivenUp(j - 1) /\ results'[j] = results[j] BY <1>4, <2>1, <3>1
    <3> HIDE DEF After
    <3> QED BY <1>3, <3>1, <3>2
  <2>10. Cardinality(After(Len(results'))) = G + 1 BY <2>1, <2>5, <2>7
  <2> HIDE DEF After, G
  <2>3. \A n \in OnTheLine' : Len(results') + 1 - n <= Cardinality(After(Len(results')))
    <3> TAKE n \in OnTheLine'
    <3>1. Len(results) + 1 - n <= G /\ n \in 1..issued BY <1>3, <2>2
    <3>2. Len(results') + 1 - n <= G + 1 BY <1>0, <1>1, <2>1, <3>1
    <3> QED BY <2>10, <3>2
  <2> QED BY <2>3, <2>8 DEF After
<1>7. CASE ~Receive /\ ~Timeout
  <2>1. results' = results BY <1>7, ResultsStay
  <2>2. \A n : After(n) = GivenUp(n) BY <2>1 DEF GivenUp
  <2>3. Taken' = Taken BY <2>1 DEF Taken
  <2> HIDE DEF After
  <2>4. \A n \in OnTheLine' : Len(results') + 1 - n <= G
    <3> TAKE n \in OnTheLine'
    <3>1. CASE n \in OnTheLine BY <1>3, <2>1, <3>1
    <3>2. CASE n = issued + 1 /\ \E r \in Requests : Issue(r)
      <4>1. Len(results) = issued BY <3>2, IssueFacts
      <4> HIDE DEF G
      <4> QED BY <1>0, <1>1, <2>1, <3>2, <4>1
    <3> QED BY <3>1, <3>2, LineStep
  <2>5. Cardinality(After(Len(results'))) = G BY <2>1, <2>2
  <2> QED BY <1>3, <2>1, <2>2, <2>3, <2>4, <2>5 DEF After
<1> QED BY <1>5, <1>6, <1>7

-----------------------------------------------------------------------------
(* A read is answered with what the registers hold.                        *)
LEMMA ReadFacts ==
  ASSUME NEW b, NEW r \in Requests, Reply(b, r).type = "ReadResponse"
  PROVE  \A i \in DOMAIN Reply(b, r).values :
           r.addr + i - 1 \in Address /\ Reply(b, r).values[i] = b[r.addr + i - 1]
<1>1. r.type = "ReadRegister"
  <2>1. CASE r.type = "WriteRegister" BY <2>1 DEF Reply
  <2> QED BY <2>1, RequestFacts
<1>2. r.addr \in Nat /\ r.count \in Nat /\ Size \in Nat BY <1>1, RequestFacts, RegistersAssumption
<1>3. Readable(r.addr, r.count) BY <1>1 DEF Reply
<1>4. Reply(b, r).values = [i \in 1..r.count |-> b[r.addr + i - 1]] BY <1>1, <1>3 DEF Reply
<1>5. r.addr + r.count <= Size BY <1>3 DEF Readable
<1>6. \A i \in 1..r.count : r.addr + i - 1 \in Address BY <1>2, <1>5 DEF Address
<1> QED BY <1>4, <1>6

(* A write changes the register that it is for, if it may.                 *)
LEMMA WriteFacts ==
  ASSUME NEW b \in Bank, NEW r \in Requests, NEW a \in Address
  PROVE  RegsAfter(b, r)[a] =
           IF r.type = "WriteRegister" /\ r.addr = a /\ Writable(a) THEN U16(r.value) ELSE b[a]
<1>1. DOMAIN b = Address BY DEF Bank
<1>2. CASE r.type = "WriteRegister" /\ Writable(r.addr)
  BY <1>1, <1>2 DEF RegsAfter
<1>3. CASE ~(r.type = "WriteRegister" /\ Writable(r.addr)) BY <1>3 DEF RegsAfter
<1> QED BY <1>2, <1>3

(* Every step keeps the registers, and the reads on their way, what the    *)
(* writes served before have made of them.                                 *)
LEMMA ValuesStep ==
  Types /\ Carried /\ Forth /\ Back /\ Values /\ [Next]_vars => Values'
<1> SUFFICES ASSUME Types, Carried, Forth, Back, Values, [Next]_vars PROVE Values' OBVIOUS
<1> USE DEF deviceVars
<1> DEFINE SentAfter(n) == SentIn(results', request', n)
           WritesAfter(n, a) ==
             {k \in 1..(n - 1) : /\ \E i \in DOMAIN served' : served'[i] = k
                                 /\ SentAfter(k).type = "WriteRegister"
                                 /\ SentAfter(k).addr = a /\ Writable(a)}
           HeldAfter(v, n, a) ==
             \/ WritesAfter(n, a) = {} /\ v = InitialRegs[a]
             \/ \E k \in WritesAfter(n, a) : /\ v = U16(SentAfter(k).value)
                                           /\ \A l \in WritesAfter(n, a) : l <= k
           ReadAfter(m, n) ==
             m.type = "ReadResponse" =>
               \A i \in DOMAIN m.values : /\ SentAfter(n).addr + i - 1 \in Address
                                          /\ HeldAfter(m.values[i], n, SentAfter(n).addr + i - 1)
<1>1. SUFFICES /\ \A a \in Address : HeldAfter(regs'[a], issued' + 1, a)
               /\ \A k \in Ours(toHost') : ReadAfter(toHost'[k].msg, toHost'[k].id)
               /\ \A j \in Taken' : ReadAfter(results'[j].reply, results'[j].of)
  BY DEF Values, ReadAt, Held, Writes, Served, Sent, Ours
<1>2. /\ issued \in Nat /\ \A n : Served(n) => n \in 1..issued
  <2>1. served \in Seq(0..issued) /\ issued \in Nat BY C2LinkAssumption DEF Types, TypeOK
  <2>2. \A i \in DOMAIN served : served[i] \in 0..issued BY <2>1, SeqElements
  <2>3. ~Served(0) BY DEF Forth
  <2> QED BY <2>1, <2>2, <2>3 DEF Served
<1>3. \A n \in 1..issued : SentAfter(n) = Sent(n) BY SentStays
<1>4. /\ \A a \in Address : Held(regs[a], issued + 1, a)
      /\ \A k \in Ours(toHost) : /\ ReadAt(toHost[k].msg, toHost[k].id)
                                /\ Served(toHost[k].id)
      /\ \A j \in Taken : ReadAt(results[j].reply, results[j].of) /\ Served(results[j].of)
  BY DEF Values, Back
<1> HIDE DEF SentAfter
<1>5. ASSUME NEW n \in 1..issued, NEW m, ReadAt(m, n), \A a : WritesAfter(n, a) = Writes(n, a)
      PROVE  ReadAfter(m, n)
  <2>1. \A k \in 1..(n - 1) : SentAfter(k) = Sent(k) BY <1>2, <1>3
  <2>2. SentAfter(n) = Sent(n) BY <1>3
  <2>3. \A a : Writes(n, a) \subseteq 1..(n - 1) BY DEF Writes
  <2> HIDE DEF WritesAfter
  <2>4. ASSUME NEW v, NEW a, Held(v, n, a) PROVE HeldAfter(v, n, a)
    BY <1>5, <2>1, <2>3, <2>4 DEF Held
  <2> HIDE DEF HeldAfter
  <2> QED BY <1>5, <2>2, <2>4 DEF ReadAt
<1>6. CASE ~(Serve /\ toDevice[1].id # 0)
  <2>1. served' = served /\ regs' = regs /\ Fewer(toHost', toHost) BY <1>6, ServedStays
  <2>2. \A n, a : WritesAfter(n, a) = Writes(n, a)
    BY <1>2, <1>3, <2>1 DEF Writes, Served
  <2>3. ASSUME NEW a, NEW n \in Nat, n >= issued + 1
        PROVE  Writes(n, a) = Writes(issued + 1, a)
    BY <1>2, <2>3 DEF Writes
  <2>4. issued' \in Nat /\ issued' >= issued
    <3>1. CASE \E r \in Requests : Issue(r)
      <4>1. issued' = issued + 1 BY <3>1, IssueFacts
      <4> QED BY <1>2, <4>1
    <3>2. CASE Receive BY <1>2, <3>2, ReceiveAdds
    <3>3. CASE Timeout BY <1>2, <3>3, TimeoutAdds
    <3>4. CASE issued' = issued BY <1>2, <3>4
    <3> QED BY <3>1, <3>2, <3>3, <3>4, HostStays DEF hostVars
  <2>5. \A a : Writes(issued' + 1, a) = Writes(issued + 1, a) BY <1>2, <2>3, <2>4
  <2>6. \A a : Writes(issued + 1, a) \subseteq 1..issued BY <1>2 DEF Writes
  <2> HIDE DEF WritesAfter
  <2>7. ASSUME NEW a \in Address PROVE HeldAfter(regs'[a], issued' + 1, a)
    <3>1. Held(regs[a], issued + 1, a) BY <1>4
    <3>2. WritesAfter(issued' + 1, a) = Writes(issued + 1, a) BY <2>2, <2>5
    <3> QED BY <1>3, <2>1, <2>6, <3>1, <3>2 DEF Held
  <2> HIDE DEF HeldAfter
  <2>8. \A m, n : Served(n) /\ ReadAt(m, n) => ReadAfter(m, n) BY <1>2, <1>5, <2>2
  <2> HIDE DEF ReadAfter
  <2>9. ASSUME NEW k \in Ours(toHost') PROVE ReadAfter(toHost'[k].msg, toHost'[k].id)
    <3>1. PICK l \in Ours(toHost) : /\ toHost'[k].id = toHost[l].id
                                    /\ toHost'[k].msg = toHost[l].msg \/ toHost'[k].msg = Garbled
      BY <2>1 DEF Fewer
    <3>2. CASE toHost'[k].msg = toHost[l].msg BY <1>4, <2>8, <3>1, <3>2
    <3>3. CASE toHost'[k].msg = Garbled BY <3>3, GarbledFacts DEF ReadAfter
    <3> QED BY <3>1, <3>2, <3>3
  <2>10. ASSUME NEW j \in Taken' PROVE ReadAfter(results'[j].reply, results'[j].of)
    <3>1. CASE Receive /\ toHost[1].id # 0
      <4>1. /\ DOMAIN results' = DOMAIN results \cup {issued}
            /\ \A i \in DOMAIN results : results'[i] = results[i]
            /\ results'[issued].of = toHost[1].id /\ results'[issued].reply = toHost[1].msg
            /\ 1 \in DOMAIN toHost
        BY <3>1, ReceiveAdds
      <4>4. 1 \in Ours(toHost) BY <3>1, <4>1 DEF Ours
      <4>2. CASE j = issued BY <1>4, <2>8, <4>1, <4>2, <4>4
      <4>3. CASE j \in DOMAIN results
        <5>1. j \in Taken /\ results'[j] = results[j] BY <4>1, <4>3 DEF Taken
        <5> QED BY <1>4, <2>8, <5>1
      <4> QED BY <4>1, <4>2, <4>3 DEF Taken
    <3>2. CASE ~(Receive /\ toHost[1].id # 0)
      <4>1. j \in Taken /\ results'[j] = results[j] BY <3>2, TakenStays
      <4> QED BY <1>4, <2>8, <4>1
    <3> QED BY <3>1, <3>2
  <2> QED BY <2>7, <2>9, <2>10
<1>7. CASE Serve /\ toDevice[1].id # 0
  <2> DEFINE n == toDevice[1].id
             r == Sent(n)
             f == [id |-> n, msg |-> Reply(regs, r)]
             N == Len(toHost) + 1
  <2>1. /\ n \in 1..issued /\ 1 \in DOMAIN toDevice
        /\ DOMAIN served' = DOMAIN served \cup {Len(served) + 1}
        /\ \A i \in DOMAIN served : served'[i] = served[i]
        /\ served'[Len(served) + 1] = n
        /\ DOMAIN toHost' = DOMAIN toHost \cup {N}
        /\ \A k \in DOMAIN toHost : toHost'[k] = toHost[k]
        /\ toHost'[N] = f
        /\ regs' = RegsAfter(regs, r) /\ r \in Requests /\ regs \in Bank
        /\ results' = results /\ issued' = issued
    BY <1>7, AnswerAdds DEF hostVars
  <2>2. 1 \in Ours(toDevice) BY <1>7, <2>1 DEF Ours
  <2>3. \A k : Served(k) => k < n BY <2>2 DEF Forth, Served
  <2>4. f.id = n /\ f.msg = Reply(regs, r) OBVIOUS
  <2>5. SentAfter(n) = r BY <1>3, <2>1
  <2>6. \A k : (\E i \in DOMAIN served' : served'[i] = k) <=> Served(k) \/ k = n
    BY <2>1 DEF Served
  <2> HIDE DEF n, r, f, N
  <2>7. ASSUME NEW p \in 1..issued, p <= n, NEW a PROVE WritesAfter(p, a) = Writes(p, a)
    BY <1>2, <1>3, <2>1, <2>6, <2>7 DEF Writes
  <2>8. \A a : Writes(n, a) = Writes(issued + 1, a) BY <1>2, <2>1, <2>3 DEF Writes
  <2>9. \A a : Writes(n, a) \subseteq 1..(n - 1) BY DEF Writes
  <2>10. ASSUME NEW a
         PROVE  WritesAfter(issued + 1, a) =
                  Writes(n, a) \cup (IF r.type = "WriteRegister" /\ r.addr = a /\ Writable(a)
                                    THEN {n} ELSE {})
    <3>1. \A k \in 1..issued : SentAfter(k) = Sent(k) BY <1>3
    <3>2. \A k : k \in WritesAfter(issued + 1, a) <=>
             /\ k \in 1..issued /\ (Served(k) \/ k = n)
             /\ SentAfter(k).type = "WriteRegister" /\ SentAfter(k).addr = a /\ Writable(a)
      <4> TAKE k
      <4>1. 1..(issued + 1 - 1) = 1..issued BY <1>2
      <4>2. k \in WritesAfter(issued + 1, a) <=>
              /\ k \in 1..issued /\ \E i \in DOMAIN served' : served'[i] = k
              /\ SentAfter(k).type = "WriteRegister" /\ SentAfter(k).addr = a /\ Writable(a)
        <5>1. \A p : k \in WritesAfter(p, a) <=>
                /\ k \in 1..(p - 1) /\ \E i \in DOMAIN served' : served'[i] = k
                /\ SentAfter(k).type = "WriteRegister" /\ SentAfter(k).addr = a /\ Writable(a)
          OBVIOUS
        <5> HIDE DEF WritesAfter
        <5> QED BY <1>2, <5>1
      <4> HIDE DEF WritesAfter
      <4> QED BY <2>6, <4>2
    <3>3. \A k : k \in Writes(n, a) <=>
             /\ k \in 1..issued /\ Served(k)
             /\ Sent(k).type = "WriteRegister" /\ Sent(k).addr = a /\ Writable(a)
      <4>1. \A k : k \in Writes(issued + 1, a) <=>
              /\ k \in 1..issued /\ Served(k)
              /\ Sent(k).type = "WriteRegister" /\ Sent(k).addr = a /\ Writable(a)
        BY <1>2 DEF Writes
      <4> QED BY <2>8, <4>1
    <3> HIDE DEF WritesAfter
    <3> QED BY <2>1, <2>5, <3>1, <3>2, <3>3
  <2> HIDE DEF WritesAfter
  <2>11. ASSUME NEW v, NEW a, Held(v, issued + 1, a), WritesAfter(issued + 1, a) = Writes(n, a)
         PROVE  HeldAfter(v, issued + 1, a)
    BY <1>2, <1>3, <2>1, <2>8, <2>9, <2>11 DEF Held
  <2>12. ASSUME NEW v, NEW a, Held(v, issued + 1, a) PROVE HeldAfter(v, n, a)
    <3>1. WritesAfter(n, a) = Writes(issued + 1, a)
      <4>1. n <= n BY <2>1, <1>2
      <4> QED BY <2>1, <2>7, <2>8, <4>1
    <3>2. \A k \in Writes(issued + 1, a) : SentAfter(k) = Sent(k)
      BY <1>2, <1>3, <2>1, <2>8, <2>9
    <3> QED BY <2>12, <3>1, <3>2 DEF Held
  <2>13. ASSUME NEW a \in Address PROVE HeldAfter(regs'[a], issued' + 1, a)
    <3>1. CASE r.type = "WriteRegister" /\ r.addr = a /\ Writable(a)
      <4>1. regs'[a] = U16(r.value) BY <2>1, <3>1, WriteFacts
      <4>2. WritesAfter(issued + 1, a) = Writes(n, a) \cup {n} BY <2>10, <3>1
      <4>3. \A l \in WritesAfter(issued + 1, a) : l <= n BY <1>2, <2>1, <2>9, <4>2
      <4> QED BY <2>1, <2>5, <4>1, <4>2, <4>3
    <3>2. CASE ~(r.type = "WriteRegister" /\ r.addr = a /\ Writable(a))
      <4>1. regs'[a] = regs[a] BY <2>1, <3>2, WriteFacts
      <4>2. WritesAfter(issued + 1, a) = Writes(n, a) BY <2>10, <3>2
      <4>3. Held(regs[a], issued + 1, a) BY <1>4
      <4>4. HeldAfter(regs[a], issued + 1, a) BY <2>11, <4>2, <4>3
      <4> HIDE DEF HeldAfter
      <4> QED BY <2>1, <4>1, <4>4
    <3> QED BY <3>1, <3>2
  <2> HIDE DEF HeldAfter
  <2>14. ReadAfter(f.msg, n)
    <3> SUFFICES ASSUME Reply(regs, r).type = "ReadResponse", NEW i \in DOMAIN Reply(regs, r).values
                 PROVE  /\ r.addr + i - 1 \in Address
                        /\ HeldAfter(Reply(regs, r).values[i], n, r.addr + i - 1)
      BY <2>4, <2>5
    <3>1. /\ r.addr + i - 1 \in Address
          /\ Reply(regs, r).values[i] = regs[r.addr + i - 1]
      BY <2>1, ReadFacts
    <3>2. Held(regs[r.addr + i - 1], issued + 1, r.addr + i - 1) BY <1>4, <3>1
    <3> QED BY <2>12, <3>1, <3>2
  <2>15. ASSUME NEW p, NEW m, Served(p), ReadAt(m, p) PROVE ReadAfter(m, p)
    <3>1. p \in 1..issued /\ p <= n BY <1>2, <2>1, <2>3, <2>15
    <3>2. \A a : WritesAfter(p, a) = Writes(p, a) BY <2>7, <3>1
    <3> QED BY <1>5, <2>15, <3>1, <3>2
  <2> HIDE DEF ReadAfter
  <2>16. ASSUME NEW k \in Ours(toHost') PROVE ReadAfter(toHost'[k].msg, toHost'[k].id)
    <3>1. CASE k \in Ours(toHost)
      <4>1. toHost'[k] = toHost[k] BY <2>1, <3>1 DEF Ours
      <4> QED BY <1>4, <2>15, <3>1, <4>1
    <3>2. CASE k = N BY <2>1, <2>4, <2>14, <3>2
    <3>3. k \in Ours(toHost) \/ k = N BY <2>1 DEF Ours
    <3> QED BY <3>1, <3>2, <3>3
  <2>17. ASSUME NEW j \in Taken' PROVE ReadAfter(results'[j].reply, results'[j].of)
    <3>1. j \in Taken BY <2>1 DEF Taken
    <3> QED BY <1>4, <2>1, <2>15, <3>1
  <2> QED BY <2>13, <2>16, <2>17
<1> QED BY <1>6, <1>7

-----------------------------------------------------------------------------
(* The invariant holds on an idle line.                                    *)
LEMMA Starts == Init => IInv
<1> SUFFICES ASSUME Init PROVE IInv OBVIOUS
<1>1. /\ issued = 0 /\ waiting = FALSE /\ request = Garbled /\ results = <<>> /\ timeouts = 0
      /\ toDevice = <<>> /\ toHost = <<>> /\ regs = InitialRegs /\ served = <<>>
      /\ errors = 0 /\ faults = 0
  BY DEF Init
<1>2. DOMAIN <<>> = {} /\ Len(<<>>) = 0 OBVIOUS
<1>3. Types
  <2>1. regs \in Bank BY <1>1, InitialRegsBank
  <2>2. waiting \in BOOLEAN /\ Len(results) = issued - (IF waiting THEN 1 ELSE 0)
    <3>1. (IF waiting THEN 1 ELSE 0) = 0 BY <1>1
    <3>2. Len(results) = issued - 0 BY <1>1, <1>2
    <3> QED BY <1>1, <3>1, <3>2
  <2>3. Frames(toDevice) /\ Frames(toHost) /\ served \in Seq(0..issued)
    BY <1>1, <1>2, EmptySeq DEF Frames
  <2>4. TypeOK BY <1>1, <1>2, <2>1, <2>2, <2>3, C2LinkAssumption DEF TypeOK
  <2> QED BY <1>1, <1>2, <2>4, EmptySeq DEF Types
<1>4. Carried BY <1>1, <1>2 DEF Carried
<1>5. \A n : ~Served(n) BY <1>1, <1>2 DEF Served
<1>6. Ours(toDevice) = {} /\ Ours(toHost) = {} /\ Taken = {} BY <1>1, <1>2 DEF Ours, Taken
<1>7. Forth BY <1>1, <1>2, <1>5, <1>6 DEF Forth, ServedInOrder
<1>8. Back BY <1>1, <1>2, <1>6 DEF Back
<1>9. OnTheLine = {} BY <1>1, <1>2, <1>6 DEF OnTheLine
<1>10. Concluded BY <1>1, <1>2 DEF Concluded
<1>11. Late
  <2>1. GivenUp(0) = {} BY DEF GivenUp
  <2>2. Cardinality({}) = 0 BY FS_EmptySet
  <2> QED BY <1>1, <1>2, <1>6, <1>9, <2>1, <2>2 DEF Late
<1>12. Values
  <2>1. \A n, a : Writes(n, a) = {} BY <1>5 DEF Writes
  <2> QED BY <1>1, <1>2, <1>6, <2>1 DEF Values, Held
<1> QED BY <1>3, <1>4, <1>7, <1>8, <1>10, <1>11, <1>12 DEF IInv

(* Every step keeps it.                                                    *)
LEMMA Steps == IInv /\ [Next]_vars => IInv'
BY TypesStep, CarriedStep, ConcludedStep, ForthStep, BackStep, LateStep, ValuesStep DEF IInv

(* The inductive invariant: whose the frames on the line are, in which     *)
(* order they can still arrive, and what the registers have been through,  *)
(* for everything that request(), serve() and the line do.                 *)
THEOREM C2LinkInvariant == Spec => []IInv
BY Starts, Steps, PTL DEF Spec

(* The types of C2Link: results are numbered as the requests they conclude,*)
(* none is of a later request, and the registers hold 16 bits each.        *)
THEOREM C2LinkTypes == Spec => []TypeOK
<1>1. IInv => TypeOK BY DEF IInv, Types
<1> QED BY <1>1, C2LinkInvariant, PTL

(* For any number of requests, of lost, damaged and stray frames: until the*)
(* host first gave up on a reply or took what a stray drew, every frame    *)
(* that request() returned belongs to the request that it was sent for.    *)
THEOREM PositionCorrelates == Spec => []CorrelatedUntilSlip
<1>1. ASSUME IInv, NEW j \in DOMAIN results, \A i \in 1..j : ~Slip(results[i])
      PROVE  Own(results[j])
  <2>1. DOMAIN results = 1..Len(results) /\ Len(results) \in Nat
    BY <1>1, SeqElements DEF IInv, Types
  <2>2. j \in Nat /\ j \in 1..j BY <2>1
  <2>3. j \in Taken BY <1>1, <2>2 DEF Taken
  <2>4. results[j].id = j /\ results[j].of \in 0..j BY <1>1 DEF IInv, Types, TypeOK
  <2>5. GivenUp(j - 1) = {} BY <1>1, <2>2 DEF GivenUp
  <2>6. j - results[j].of <= 0
    <3>1. Cardinality({}) = 0 BY FS_EmptySet
    <3>2. j - results[j].of <= Cardinality(GivenUp(j - 1)) BY <1>1, <2>3 DEF IInv, Late
    <3> QED BY <2>5, <3>1, <3>2
  <2>7. results[j].of = j BY <2>2, <2>4, <2>6
  <2> QED BY <2>4, <2>7 DEF Own
<1>2. IInv => CorrelatedUntilSlip BY <1>1 DEF CorrelatedUntilSlip
<1> QED BY <1>2, C2LinkInvariant, PTL

(* The host can tell that correlation may be lost: before, it saw a        *)
(* timeout, a bad frame or the refusal that no request gets, from          *)
(* respond()'s answer to telemetry.                                        *)
THEOREM SlipsDoShow == Spec => []SlipsShow
<1>1. ASSUME IInv PROVE \A j \in DOMAIN results : Slip(results[j]) => Suspicious(results[j])
  BY <1>1 DEF IInv, Concluded
<1>2. ASSUME IInv, CorrelatedUntilSlip PROVE SlipsShow
  <2> SUFFICES ASSUME NEW j \in DOMAIN results, \A i \in 1..j : ~Suspicious(results[i])
               PROVE  Own(results[j])
    BY DEF SlipsShow
  <2>1. DOMAIN results = 1..Len(results) /\ Len(results) \in Nat
    BY <1>2, SeqElements DEF IInv, Types
  <2>2. \A i \in 1..j : i \in DOMAIN results BY <2>1
  <2> QED BY <1>1, <1>2, <2>2 DEF CorrelatedUntilSlip
<1> QED BY <1>2, C2LinkInvariant, PositionCorrelates, PTL

(* Replies to requests are taken once and in order, each late by no more   *)
(* requests than have slipped before: of request()'s FIFO inbox and the    *)
(* device's answering in order.                                            *)
THEOREM RepliesDoAdvance == Spec => []RepliesAdvance
<1>1. ASSUME IInv, NEW j \in DOMAIN results, ~Slip(results[j])
      PROVE  /\ \A i \in 1..(j - 1) : ~Slip(results[i]) => results[i].of < results[j].of
             /\ results[j].id - results[j].of <= Cardinality({i \in 1..(j - 1) : Slip(results[i])})
  <2>1. DOMAIN results = 1..Len(results) /\ Len(results) \in Nat
    BY <1>1, SeqElements DEF IInv, Types
  <2>2. j \in Taken BY <1>1 DEF Taken
  <2>3. results[j].id = j BY <1>1 DEF IInv, Types, TypeOK
  <2>4. ASSUME NEW i \in 1..(j - 1), ~Slip(results[i])
        PROVE  results[i].of < results[j].of
    <3>1. i \in Taken /\ i < j BY <2>1, <2>4 DEF Taken
    <3> QED BY <1>1, <2>2, <3>1 DEF IInv, Back
  <2>5. results[j].id - results[j].of <= Cardinality(GivenUp(j - 1))
    BY <1>1, <2>2, <2>3 DEF IInv, Late
  <2> QED BY <2>4, <2>5 DEF GivenUp
<1>2. IInv => RepliesAdvance BY <1>1 DEF RepliesAdvance
<1> QED BY <1>2, C2LinkInvariant, PTL

(* The device acts on a request once at most and in the order of issue,    *)
(* also on those that the host no longer waits for.                        *)
THEOREM ServedOnce == Spec => []ServedInOrder
<1>1. IInv => ServedInOrder BY DEF IInv, Forth
<1> QED BY <1>1, C2LinkInvariant, PTL

(* A read that the host takes for its own is consistent with what it has   *)
(* seen of its writes: the last one that was acknowledged to it, or one    *)
(* issued since of which it never learned the fate.                        *)
THEOREM ReadsAreConsistent == Spec => []ConsistentReads
<1>1. ASSUME IInv, NEW j \in DOMAIN results, Own(results[j]),
             results[j].reply.type = "ReadResponse", NEW i \in DOMAIN results[j].reply.values
      PROVE  results[j].reply.values[i] \in PossibleValues(j, results[j].request.addr + i - 1)
  <2> DEFINE a == results[j].request.addr + i - 1
             v == results[j].reply.values[i]
             writes == {k \in 1..(j - 1) : /\ results[k].request.type = "WriteRegister"
                                           /\ results[k].request.addr = a /\ Writable(a)}
             acked == {k \in writes : Own(results[k]) /\ results[k].outcome = "ok"}
  <2>1. DOMAIN results = 1..Len(results) /\ Len(results) \in Nat
    BY <1>1, SeqElements DEF IInv, Types
  <2>2. \A k \in DOMAIN results : results[k].id = k BY <1>1 DEF IInv, Types, TypeOK
  <2>3. \A k \in 1..j : Sent(k) = results[k].request BY <2>1 DEF Sent, SentIn
  <2>5. results[j].of = j /\ j # 0 BY <1>1, <2>1, <2>2 DEF Own
  <2>4. j \in Taken
    <3>1. NoReply.type # "ReadResponse" BY DEF NoReply
    <3> QED BY <1>1, <2>5, <3>1 DEF IInv, Concluded, Taken, Slip
  <2>6. Held(v, j, a)
    <3>1. ReadAt(results[j].reply, j) BY <1>1, <2>4, <2>5 DEF IInv, Values
    <3>2. Sent(j) = results[j].request BY <2>1, <2>3
    <3> QED BY <1>1, <3>1, <3>2 DEF ReadAt
  <2>7. Writes(j, a) = {k \in writes : Served(k)} BY <2>1, <2>3 DEF Writes
  <2>8. \A k \in acked : Served(k)
    <3> TAKE k \in acked
    <3>1. k \in DOMAIN results /\ results[k].of = k /\ k # 0 BY <2>1, <2>2 DEF Own
    <3>2. k \in Taken BY <3>1 DEF Taken, Slip
    <3> QED BY <1>1, <3>1, <3>2 DEF IInv, Back
  <2>9. v \in {U16(results[k].request.value) : k \in {w \in writes : \A l \in acked : w >= l}}
               \cup IF acked = {} THEN {InitialRegs[a]} ELSE {}
    <3>1. acked \subseteq Writes(j, a) BY <2>7, <2>8
    <3>2. \A k \in writes : k \in 1..j /\ k \in Nat BY <2>1
    <3>3. \A k \in Writes(j, a) : k \in writes /\ Sent(k) = results[k].request
      BY <2>3, <2>7, <3>2
    <3> HIDE DEF writes, acked, v, a
    <3>4. CASE Writes(j, a) = {} /\ v = InitialRegs[a] BY <3>1, <3>4
    <3>5. ASSUME NEW k \in Writes(j, a), v = U16(Sent(k).value), \A l \in Writes(j, a) : l <= k
          PROVE  v \in {U16(results[w].request.value) : w \in {w \in writes : \A l \in acked : w >= l}}
      <4>1. k \in writes /\ v = U16(results[k].request.value) BY <3>3, <3>5
      <4>2. \A l \in acked : k >= l BY <3>1, <3>2, <3>3, <3>5
      <4> QED BY <4>1, <4>2
    <3> QED BY <2>6, <3>4, <3>5 DEF Held
  <2> QED BY <2>9 DEF PossibleValues
<1>2. IInv => ConsistentReads BY <1>1 DEF ConsistentReads
<1> QED BY <1>2, C2LinkInvariant, PTL

(* Every request that reaches the device undamaged draws exactly one reply,*)
(* with its number: serve() answers whatever c2 can send, and lets go by   *)
(* what does not decode.                                                   *)
LEMMA ServeSteps ==
  ASSUME IInv, [Next]_vars, ServeStep
  PROVE  Skip \/ Serve
<1>1. toDevice \in Seq(DeviceFrame) /\ toDevice # <<>> /\ toDevice' = Tail(toDevice)
  BY DEF IInv, Types, ServeStep
<1>2. /\ Len(toDevice) \in Nat /\ Len(toDevice') = Len(toDevice) - 1
      /\ DOMAIN toDevice' = 1..(Len(toDevice) - 1)
  BY <1>1, TailElements
<1>3. toDevice' # toDevice BY <1>2
<1>4. ~(Receive \/ Timeout \/ Reopen \/ DamageReply \/ UNCHANGED vars)
  BY <1>3 DEF Receive, Timeout, Conclude, Reopen, DamageReply, vars
<1>5. ~DamageRequest
  <2>1. faults' = faults /\ faults \in Nat
    BY C2LinkAssumption DEF ServeStep, IInv, Types, TypeOK
  <2> QED BY <2>1 DEF DamageRequest, Fault
<1>6. ASSUME NEW r \in Requests, Issue(r) PROVE FALSE
  <2>1. Len(toDevice) + 1 \in DOMAIN toDevice' BY <1>6, IssueFacts DEF IInv
  <2> QED BY <1>2, <2>1
<1>7. ASSUME NEW m \in Strays, Stray(m) PROVE FALSE
  <2>1. Len(toDevice) + 1 \in DOMAIN toDevice' BY <1>7, StrayAdds DEF IInv
  <2> QED BY <1>2, <2>1
<1> QED BY <1>4, <1>5, <1>6, <1>7 DEF Next

THEOREM RequestsAreAnswered == Spec => EveryRequestAnswered
<1>1. ASSUME IInv, [Next]_vars, ServeStep, Head(toDevice).id # 0, Head(toDevice).msg # Garbled
      PROVE  /\ Len(toHost') = Len(toHost) + 1
             /\ toHost'[Len(toHost')].id = Head(toDevice).id
  <2>1. /\ toDevice \in Seq(DeviceFrame) /\ toDevice # <<>>
        /\ toHost \in Seq(HostFrame) /\ issued \in Nat
    BY <1>1, C2LinkAssumption DEF IInv, Types, TypeOK, ServeStep
  <2>2. Head(toDevice) = toDevice[1] /\ 1 \in DOMAIN toDevice BY <2>1, TailElements
  <2>4. toDevice[1].msg \in Requests
    <3>1. toDevice[1].msg = Sent(toDevice[1].id) BY <1>1, <2>2 DEF IInv, Carried
    <3>2. toDevice[1].id \in 1..issued
      <4>1. toDevice[1].id \in 0..issued BY <1>1, <2>2 DEF IInv, Types, TypeOK, Frames
      <4>2. toDevice[1].id # 0 BY <1>1, <2>2
      <4> QED BY <2>1, <4>1, <4>2
    <3> QED BY <1>1, <3>1, <3>2, SentFacts DEF IInv
  <2>5. Serve
    <3>1. ~Skip BY <2>2, <2>4, RequestFacts DEF Skip
    <3> QED BY <1>1, <3>1, ServeSteps
  <2> DEFINE n == toDevice[1].id
             f == [id |-> n, msg |-> Reply(regs, Sent(n))]
  <2>6. toHost' = Append(toHost, f) /\ f \in HostFrame
    BY <1>1, <2>2, <2>5, ServeFacts DEF IInv
  <2>7. f.id = n OBVIOUS
  <2> HIDE DEF n, f
  <2>8. Len(toHost') = Len(toHost) + 1 /\ toHost'[Len(toHost) + 1] = f
    BY <2>1, <2>6, AppendElements
  <2>9. toHost'[Len(toHost')].id = n BY <2>7, <2>8
  <2> QED BY <2>2, <2>8, <2>9 DEF n
<1>2. ASSUME IInv, [Next]_vars, ServeStep, Head(toDevice).msg = Garbled
      PROVE  UNCHANGED <<toHost, regs>>
  <2>1. ~Serve BY <1>2, GarbledFacts DEF Serve
  <2>2. Skip BY <1>2, <2>1, ServeSteps
  <2> QED BY <2>2 DEF Skip
<1>3. IInv /\ [Next]_vars =>
        [ServeStep =>
           IF Head(toDevice).msg = Garbled THEN UNCHANGED <<toHost, regs>>
           ELSE Head(toDevice).id # 0 =>
                  /\ Len(toHost') = Len(toHost) + 1
                  /\ toHost'[Len(toHost')].id = Head(toDevice).id]_vars
  BY <1>1, <1>2
<1> QED BY <1>3, C2LinkInvariant, PTL DEF Spec, EveryRequestAnswered
=============================================================================

---------------------------- MODULE AttitudeProofs ----------------------------
(***************************************************************************)
(* The monitor's drop count is right for every range of sequence numbers,  *)
(* any number of samples and whatever the line loses or damages, as long   *)
(* as the sensor does not restart; and its recording, restarts or not, can *)
(* be replayed to another monitor with the same counts.                    *)
(***************************************************************************)
EXTENDS AttitudeStream, DataFacts

-----------------------------------------------------------------------------
(* A multiple of the modulus and the whole ranges of another number add up *)
(* to a multiple.                                                          *)
LEMMA WholeRangesAdd ==
  ASSUME NEW M \in Nat \ {0}, NEW a \in Int, NEW b \in Int, a % M = 0
  PROVE  (a + b - (b % M)) % M = 0
<1> DEFINE v == b % M
           q == a \div M
           p == b \div M
<1>1. q \in Int /\ a = M * q BY Division
<1>2. v \in Int /\ p \in Int /\ b = M * p + v BY Division
<1> HIDE DEF v, q, p
<1>3. a + b - v = M * (q + p) + 0
  <2>1. M * (q + p) = M * q + M * p BY <1>1, <1>2
  <2>2. M * q \in Int /\ M * p \in Int BY <1>1, <1>2
  <2> QED BY <1>1, <1>2, <2>1, <2>2
<1>4. q + p \in Int /\ 0 \in 0..(M - 1) BY <1>1, <1>2
<1>5. (a + b - v) % M = 0 BY <1>3, <1>4, RemainderIs
<1> QED BY <1>5 DEF v

-----------------------------------------------------------------------------
(* Types: TypeOK says what the fields of a frame and of the counters are,  *)
(* the proof also needs which fields there are.                            *)
Frame == [ok : BOOLEAN, seq : 0..(Modulus - 1), index : Nat \ {0}]

Counters == [count : Nat, drops : Nat, errors : Nat,
             expected : 0..(Modulus - 1) \cup {None}]

Logged == [LogColumns \ {"rx_unix"} -> Nat]

Types == TypeOK /\ line \in Seq(Frame) /\ monitor \in Counters /\ log \in Seq(Logged)

(* Frames arrive in the order in which they were sent, none twice, ...     *)
InOrder ==
  /\ last <= total
  /\ \A i \in 1..Len(line) : last < line[i].index
  /\ \A i, j \in 1..Len(line) : i < j => line[i].index < line[j].index

(* ... with the numbers a sensor gives them that did not restart, ...      *)
Numbered ==
  restarts = 0 =>
    /\ n = total
    /\ \A i \in 1..Len(line) : line[i].seq = (line[i].index - 1) % Modulus

(* ... and the monitor expects the number of the sample after its latest.  *)
Watching ==
  /\ monitor.count = 0 => monitor.expected = None /\ monitor.drops = 0 /\ last = 0
  /\ monitor.count > 0 =>
       /\ first \in 1..last
       /\ restarts = 0 => monitor.expected = last % Modulus

IInv == Types /\ InOrder /\ Numbered /\ Watching /\ DropsExact /\ DropsModulo

(* The sensor's and the monitor's initial states satisfy it, ...           *)
LEMMA StreamInit == Init => IInv
<1> SUFFICES ASSUME Init PROVE IInv OBVIOUS
<1>1. Len(line) = 0 /\ line \in Seq(Frame) /\ Len(log) = 0 /\ log \in Seq(Logged)
  BY EmptySeq DEF Init
<1>2. DOMAIN line = {} BY <1>1, LenProperties
<1>3. monitor \in Counters BY DEF Init, NewMonitor, Counters
<1>4. /\ monitor.count = 0 /\ monitor.drops = 0 /\ monitor.errors = 0
      /\ monitor.expected = None
  BY DEF Init, NewMonitor
<1>5. TypeOK
  <2>1. \A i \in DOMAIN line : line[i].seq \in 0..(Modulus - 1) /\ line[i].index \in 1..total
    BY <1>2
  <2>2. Len(log) = monitor.count BY <1>1, <1>4
  <2>3. /\ n = 0 /\ closed = FALSE /\ stopped = Running /\ total = 0 /\ restarts = 0
        /\ first = 0 /\ last = 0 /\ longest = 0
    BY DEF Init
  <2>4. /\ n \in 0..total /\ total \in 0..MaxSent /\ restarts \in 0..MaxRestarts
    BY <2>3, AttitudeStreamAssumption
  <2>5. {monitor.count, monitor.drops, monitor.errors, first, last, longest} \subseteq Nat
    BY <1>4, <2>3
  <2>6. closed \in BOOLEAN /\ stopped \in {Running, AtEof, Interrupted}
        /\ monitor.expected \in 0..(Modulus - 1) \cup {None}
    BY <1>4, <2>3
  <2> QED BY <2>1, <2>2, <2>4, <2>5, <2>6 DEF TypeOK
<1> QED BY <1>1, <1>3, <1>4, <1>5
         DEF Init, IInv, Types, InOrder, Numbered, Watching, DropsExact, DropsModulo

(* What a good frame does to the counters, and a bad one.                  *)
LEMMA ObserveProperties ==
  ASSUME NEW m \in Counters, NEW f \in Frame
  PROVE  /\ Observe(m, f) \in Counters
         /\ f.ok => /\ Observe(m, f).count = m.count + 1
                    /\ Observe(m, f).drops = m.drops + Missed(m.expected, f.seq)
                    /\ Observe(m, f).expected = (f.seq + 1) % Modulus
         /\ ~f.ok => /\ Observe(m, f).count = m.count
                     /\ Observe(m, f).drops = m.drops
                     /\ Observe(m, f).expected = m.expected
         /\ Missed(m.expected, f.seq) \in 0..(Modulus - 1)
<1>1. f.seq \in 0..(Modulus - 1) /\ m.expected \in 0..(Modulus - 1) \cup {None}
  BY DEF Frame, Counters
<1>2. Missed(m.expected, f.seq) \in 0..(Modulus - 1)
  <2>1. CASE m.expected = None BY <2>1, RecordingAssumption DEF Missed
  <2>2. CASE m.expected # None
    <3>1. f.seq - m.expected \in Int BY <1>1, <2>2
    <3> QED BY <2>2, <3>1, Division, RecordingAssumption DEF Missed
  <2> QED BY <2>1, <2>2
<1>3. (f.seq + 1) % Modulus \in 0..(Modulus - 1)
  <2>1. f.seq + 1 \in Int BY <1>1
  <2> QED BY <2>1, Division, RecordingAssumption
<1>4. m.count + 1 \in Nat /\ m.errors + 1 \in Nat
      /\ m.drops + Missed(m.expected, f.seq) \in Nat
  BY <1>2 DEF Counters
<1>5. CASE f.ok BY <1>2, <1>3, <1>4, <1>5 DEF Observe, Counters
<1>6. CASE ~f.ok BY <1>2, <1>4, <1>6 DEF Observe, Counters
<1> QED BY <1>5, <1>6

-----------------------------------------------------------------------------
(* A monitor that is shown only numbers: one step of it, and all of them.  *)
Numbers == 0..(Modulus - 1)

Seen(k) == [ok |-> TRUE, seq |-> k]

(* One sample on the counters: one more counted, the gap before it added   *)
(* to the drops, and the next number expected.                             *)
LEMMA SeenProperties ==
  ASSUME NEW m \in Counters, NEW k \in Numbers
  PROVE  /\ Observe(m, Seen(k)) \in Counters
         /\ Observe(m, Seen(k)).count = m.count + 1
         /\ Observe(m, Seen(k)).drops = m.drops + Missed(m.expected, k)
         /\ Observe(m, Seen(k)).expected = (k + 1) % Modulus
<1> DEFINE f == [ok |-> TRUE, seq |-> k, index |-> 1]
<1>1. f \in Frame /\ f.ok /\ f.seq = k BY DEF Frame, Numbers
<1>2. Observe(m, f) = Observe(m, Seen(k)) BY DEF Observe, Seen
<1> HIDE DEF f
<1> QED BY <1>1, <1>2, ObserveProperties

Watches(numbers) ==
  [i \in 1..Len(numbers) |-> [m \in Counters |-> Observe(m, Seen(numbers[i]))]]

(* The fold over a run of numbers is a loop that observes them one by one. *)
LEMMA WatchedRuns ==
  ASSUME NEW numbers \in Seq(Numbers)
  PROVE  \E h : /\ Loop(h, NewMonitor, Watches(numbers), Len(numbers), Counters)
                /\ Watched(numbers) = h[Len(numbers)]
<1> DEFINE len == Len(numbers)
           step == Watches(numbers)
           Solves(w) ==
             w = [s \in SUBSET DOMAIN numbers |->
                    IF s = {} THEN NewMonitor
                    ELSE Observe(w[s \ {Max(s)}], [ok |-> TRUE, seq |-> numbers[Max(s)]])]
           w == CHOOSE w : Solves(w)
<1>1. len \in Nat /\ DOMAIN numbers = 1..len /\ \A i \in 1..len : numbers[i] \in Numbers
  BY SeqElements
<1>2. NewMonitor \in Counters BY DEF NewMonitor, Counters
<1>3. step \in [1..len -> [Counters -> Counters]]
  BY <1>1, SeenProperties DEF Watches
<1>4. Watched(numbers) = w[DOMAIN numbers]
  BY Zenon DEF Watched, FoldLeft, MapThenFoldSet
<1>5. ASSUME NEW s \in SUBSET (1..len), s # {} PROVE Max(s) \in 1..len
  BY <1>1, <1>5, MaxIs
<1>6. \A i \in 1..len : \A m \in Counters :
        step[i][m] = Observe(m, [ok |-> TRUE, seq |-> numbers[i]])
  BY DEF Watches, Seen
<1>7. PICK g : FoldSolves(g, NewMonitor, step, len, Counters)
  BY <1>1, <1>2, <1>3, FoldExists
<1>8. \E g1 : Solves(g1)
  <2>1. ASSUME NEW s \in SUBSET (1..len), s # {}
        PROVE  g[s] = Observe(g[s \ {Max(s)}], [ok |-> TRUE, seq |-> numbers[Max(s)]])
    <3>1. s \ {Max(s)} \in SUBSET (1..len) OBVIOUS
    <3>2. g[s \ {Max(s)}] \in Counters /\ g[s] = step[Max(s)][g[s \ {Max(s)}]]
      BY <1>7, <2>1, <3>1 DEF FoldSolves
    <3> QED BY <1>5, <1>6, <2>1, <3>2
  <2>2. g \in [SUBSET (1..len) -> Counters] /\ g[{}] = NewMonitor BY <1>7 DEF FoldSolves
  <2>3. Solves(g) BY <1>1, <2>1, <2>2
  <2> QED BY <2>3
<1>9. Solves(w) BY <1>8, Zenon
<1> HIDE DEF w, step
<1>10. FoldEquation(w, NewMonitor, step, len, Counters)
  <2>1. /\ w = [s \in SUBSET (1..len) |-> w[s]]
        /\ w[{}] = NewMonitor
        /\ \A s \in (SUBSET (1..len)) \ {{}} :
             w[s] = Observe(w[s \ {Max(s)}], [ok |-> TRUE, seq |-> numbers[Max(s)]])
    <3>1. \A s \in (SUBSET (1..len)) \ {{}} :
            w[s] = Observe(w[s \ {Max(s)}], [ok |-> TRUE, seq |-> numbers[Max(s)]])
      BY <1>1, <1>9
    <3>2. w[{}] = NewMonitor BY <1>1, <1>9
    <3>3. w = [s \in SUBSET (1..len) |-> w[s]] BY <1>1, <1>9
    <3> QED BY <3>1, <3>2, <3>3
  <2>2. \A s \in (SUBSET (1..len)) \ {{}} : w[s \ {Max(s)}] \in Counters =>
          w[s] = step[Max(s)][w[s \ {Max(s)}]]
    <3> TAKE s \in (SUBSET (1..len)) \ {{}}
    <3>1. Max(s) \in 1..len BY <1>5
    <3>2. w[s] = Observe(w[s \ {Max(s)}], [ok |-> TRUE, seq |-> numbers[Max(s)]])
      BY <2>1, Zenon
    <3> QED BY <1>6, <3>1, <3>2
  <2> QED BY <2>1, <2>2, Zenon DEF FoldEquation
<1>11. \E h : Loop(h, NewMonitor, step, len, Counters) /\ h[len] = w[1..len]
  BY <1>1, <1>2, <1>3, <1>10, FoldRuns
<1> QED BY <1>1, <1>4, <1>11 DEF step

(* None at all, and one more.                                              *)
LEMMA WatchedNone == Watched(<<>>) = NewMonitor
<1>1. <<>> \in Seq(Numbers) /\ Len(<<>>) = 0 BY EmptySeq
<1>2. PICK h : /\ Loop(h, NewMonitor, Watches(<<>>), Len(<<>>), Counters)
               /\ Watched(<<>>) = h[Len(<<>>)]
  BY <1>1, WatchedRuns
<1> QED BY <1>1, <1>2 DEF Loop

(* Watching one number more is one more call of observe().                 *)
LEMMA WatchedNext ==
  ASSUME NEW numbers \in Seq(Numbers), NEW k \in Numbers
  PROVE  /\ Watched(numbers) \in Counters
         /\ Watched(Append(numbers, k)) = Observe(Watched(numbers), Seen(k))
<1> DEFINE len  == Len(numbers)
           more == Append(numbers, k)
<1>1. /\ more \in Seq(Numbers) /\ len \in Nat /\ Len(more) = len + 1
      /\ \A i \in 1..len : more[i] = numbers[i]
      /\ more[len + 1] = k
  BY AppendElements
<1> HIDE DEF len, more
<1>2. PICK h : /\ Loop(h, NewMonitor, Watches(numbers), len, Counters)
               /\ Watched(numbers) = h[len]
  BY WatchedRuns DEF len
<1>3. PICK g : /\ Loop(g, NewMonitor, Watches(more), len + 1, Counters)
               /\ Watched(more) = g[len + 1]
  BY <1>1, WatchedRuns
<1>4. ASSUME NEW i \in 1..len PROVE Watches(numbers)[i] = Watches(more)[i]
  BY <1>1 DEF Watches, len
<1>5. h[len] \in Counters /\ g[len + 1] = Watches(more)[len + 1][h[len]]
  BY <1>1, <1>2, <1>3, <1>4, LoopNext
<1>6. Watches(more)[len + 1] = [m \in Counters |-> Observe(m, Seen(k))]
  <2>1. len + 1 \in 1..Len(more) BY <1>1
  <2> QED BY <1>1, <2>1 DEF Watches
<1> QED BY <1>2, <1>3, <1>5, <1>6 DEF more

(* A monitor that is shown 0, 1, 2, ... modulo the range counts no drops,  *)
(* however far they go.                                                    *)
CountUpTo(k) == [i \in 1..k |-> (i - 1) % Modulus]

(* A publisher numbering its samples from 0, wrapping, drops none.         *)
LEMMA CountingDropsNone ==
  ASSUME NEW k \in Nat
  PROVE  Watched(CountUpTo(k)).drops = 0
<1> DEFINE Fine(j) == /\ CountUpTo(j) \in Seq(Numbers) /\ Len(CountUpTo(j)) = j
                      /\ Watched(CountUpTo(j)) \in Counters
                      /\ Watched(CountUpTo(j)).drops = 0
                      /\ Watched(CountUpTo(j)).expected = IF j = 0 THEN None ELSE j % Modulus
           T == {j \in Nat : Fine(j)}
<1>1. ASSUME NEW j \in Nat
      PROVE  CountUpTo(j) \in Seq(Numbers) /\ Len(CountUpTo(j)) = j
  <2>1. ASSUME NEW i \in 1..j PROVE (i - 1) % Modulus \in Numbers
    <3>1. i - 1 \in Int OBVIOUS
    <3> QED BY <3>1, Division, RecordingAssumption DEF Numbers
  <2>2. CountUpTo(j) \in [1..j -> Numbers] BY <2>1 DEF CountUpTo
  <2> QED BY <2>2, FunctionIsSeq
<1>2. Fine(0)
  <2>1. Len(CountUpTo(0)) = 0 /\ CountUpTo(0) \in Seq(Numbers) BY <1>1
  <2>2. CountUpTo(0) = <<>> BY <2>1, EmptySeq
  <2>3. NewMonitor \in Counters /\ NewMonitor.drops = 0 /\ NewMonitor.expected = None
    BY DEF NewMonitor, Counters
  <2> QED BY <2>1, <2>2, <2>3, WatchedNone
<1>3. ASSUME NEW j \in Nat, Fine(j) PROVE Fine(j + 1)
  <2> DEFINE s == CountUpTo(j)
             r == j % Modulus
  <2>1. s \in Seq(Numbers) /\ Len(s) = j /\ j + 1 \in Nat BY <1>1
  <2>2. r \in Numbers
    BY Division, RecordingAssumption DEF Numbers
  <2>3. CountUpTo(j + 1) = Append(s, r)
    <3>1. /\ Append(s, r) \in Seq(Numbers) /\ Len(Append(s, r)) = j + 1
          /\ \A i \in 1..j : Append(s, r)[i] = s[i]
          /\ Append(s, r)[j + 1] = r
      <4> HIDE DEF s, r
      <4> QED BY <2>1, <2>2, AppendElements
    <3>2. CountUpTo(j + 1) \in Seq(Numbers) /\ Len(CountUpTo(j + 1)) = j + 1
      BY <1>1, <2>1
    <3>3. ASSUME NEW i \in 1..(j + 1) PROVE CountUpTo(j + 1)[i] = Append(s, r)[i]
      <4>1. CountUpTo(j + 1)[i] = (i - 1) % Modulus BY DEF CountUpTo
      <4>2. CASE i \in 1..j
        <5>1. s[i] = (i - 1) % Modulus BY <4>2 DEF CountUpTo
        <5> HIDE DEF s, r
        <5> QED BY <3>1, <4>1, <4>2, <5>1
      <4>3. CASE i = j + 1
        <5>1. (i - 1) % Modulus = r BY <4>3
        <5> HIDE DEF s, r
        <5> QED BY <3>1, <4>1, <4>3, <5>1
      <4>4. i \in 1..j \/ i = j + 1 OBVIOUS
      <4> QED BY <4>2, <4>3, <4>4, Zenon
    <3> HIDE DEF s, r
    <3> QED BY <3>1, <3>2, <3>3, SeqEqual
  <2> DEFINE m == Watched(s)
  <2>4. /\ m \in Counters /\ m.drops = 0 /\ m.expected = IF j = 0 THEN None ELSE r
    BY <1>3
  <2> HIDE DEF s
  <2>5. Watched(CountUpTo(j + 1)) = Observe(m, Seen(r)) BY <2>1, <2>2, <2>3, WatchedNext
  <2>6. /\ Observe(m, Seen(r)) \in Counters
        /\ Observe(m, Seen(r)).drops = m.drops + Missed(m.expected, r)
        /\ Observe(m, Seen(r)).expected = (r + 1) % Modulus
    <3> HIDE DEF m, r
    <3> QED BY <2>2, <2>4, SeenProperties
  <2>7. Missed(m.expected, r) = 0
    <3>1. r # None /\ r - r = 0 BY <2>2, RecordingAssumption DEF Numbers
    <3>2. 0 % Modulus = 0
      <4>1. 0 \in Nat /\ 0 < Modulus BY RecordingAssumption
      <4> QED BY <4>1, RemainderOfNat, RecordingAssumption
    <3> HIDE DEF r, m
    <3> QED BY <2>4, <3>1, <3>2 DEF Missed
  <2>8. (r + 1) % Modulus = (j + 1) % Modulus
    <3>1. j \in Int OBVIOUS
    <3> QED BY <3>1, RemainderOfNext, RecordingAssumption, Zenon
  <2> HIDE DEF r, m
  <2> QED BY <1>1, <2>1, <2>4, <2>5, <2>6, <2>7, <2>8
<1> HIDE DEF Fine
<1>4. 0 \in T /\ \A j \in Nat : j \in T => j + 1 \in T BY <1>2, <1>3
<1> HIDE DEF T
<1>5. k \in T BY <1>4, Induction
<1>6. Fine(k) BY <1>5 DEF T
<1> QED BY <1>6 DEF Fine

-----------------------------------------------------------------------------
(* The sensor sends a sample.                                              *)
LEMMA StreamKeeps == IInv /\ Stream => IInv'
<1> SUFFICES ASSUME IInv, Stream PROVE IInv' OBVIOUS
<1> DEFINE f == [ok |-> TRUE, seq |-> n % Modulus, index |-> total + 1]
<1>1. line' = Append(line, f) /\ n' = n + 1 /\ total' = total + 1 /\ total < MaxSent
      /\ UNCHANGED <<closed, monitor, log, stopped, restarts, first, last, longest>>
  BY DEF Stream
<1>2. TypeOK /\ line \in Seq(Frame) /\ n \in Nat /\ total \in Nat /\ last \in Nat
  BY DEF IInv, Types, TypeOK
<1>3. f \in Frame
  <2>1. n % Modulus \in 0..(Modulus - 1) BY <1>2, Division, RecordingAssumption
  <2> QED BY <1>2, <2>1 DEF Frame
<1>4. /\ line' \in Seq(Frame) /\ Len(line') = Len(line) + 1 /\ Len(line) \in Nat
      /\ \A i \in 1..Len(line) : line'[i] = line[i]
      /\ line'[Len(line) + 1] = f
  BY <1>1, <1>2, <1>3, AppendProperties, LenProperties
<1>5. DOMAIN line = 1..Len(line) /\ DOMAIN line' = 1..Len(line')
  BY <1>2, <1>4, LenProperties
<1>6. \A i \in 1..Len(line) : line[i] \in Frame BY <1>2, ElementOfSeq
<1> HIDE DEF f
<1>7. f.index = total + 1 /\ f.seq = n % Modulus BY DEF f
<1>8. Types'
  <2>1. TypeOK'
    <3>1. \A i \in DOMAIN line' : line'[i].seq \in 0..(Modulus - 1)
                                  /\ line'[i].index \in 1..(total + 1)
      <4> TAKE i \in DOMAIN line'
      <4>1. CASE i \in 1..Len(line)
        <5>1. line'[i] = line[i] BY <1>4, <4>1
        <5>2. line[i].seq \in 0..(Modulus - 1) /\ line[i].index \in 1..total
          BY <1>2, <1>5, <4>1 DEF TypeOK
        <5> QED BY <1>2, <5>1, <5>2
      <4>2. CASE i = Len(line) + 1
        <5>1. f.seq \in 0..(Modulus - 1) BY <1>3 DEF Frame
        <5>2. line'[i] = f BY <1>4, <4>2
        <5> QED BY <1>2, <1>7, <5>1, <5>2
      <4> QED BY <1>4, <1>5, <4>1, <4>2
    <3>2. n + 1 \in 0..(total + 1) /\ total + 1 \in 0..MaxSent
      BY <1>1, <1>2, AttitudeStreamAssumption DEF TypeOK
    <3> QED BY <1>1, <1>2, <3>1, <3>2 DEF TypeOK
  <2> QED BY <1>1, <1>4, <2>1 DEF IInv, Types
<1>9. InOrder'
  <2>1. /\ last <= total
        /\ \A i \in 1..Len(line) : last < line[i].index
        /\ \A i, j \in 1..Len(line) : i < j => line[i].index < line[j].index
    BY DEF IInv, InOrder
  <2>2. \A i \in 1..Len(line) : line[i].index \in 1..total BY <1>2, <1>5 DEF TypeOK
  <2>3. \A i \in 1..Len(line') : last < line'[i].index BY <1>2, <1>4, <1>7, <2>1
  <2>4. ASSUME NEW i \in 1..Len(line'), NEW j \in 1..Len(line'), i < j
        PROVE  line'[i].index < line'[j].index
    <3>1. i \in 1..Len(line) BY <1>4, <2>4
    <3>2. CASE j \in 1..Len(line) BY <1>4, <2>1, <2>4, <3>1, <3>2
    <3>3. CASE j = Len(line) + 1 BY <1>2, <1>4, <1>7, <2>2, <3>1, <3>3
    <3> QED BY <1>4, <3>2, <3>3
  <2>5. last <= total + 1 BY <1>2, <2>1
  <2> QED BY <1>1, <2>3, <2>4, <2>5 DEF InOrder
<1>10. Numbered'
  <2> SUFFICES ASSUME restarts = 0
               PROVE  n' = total' /\ \A i \in 1..Len(line') :
                                       line'[i].seq = (line'[i].index - 1) % Modulus
    BY <1>1 DEF Numbered
  <2>1. n = total /\ \A i \in 1..Len(line) : line[i].seq = (line[i].index - 1) % Modulus
    BY DEF IInv, Numbered
  <2>2. f.seq = (f.index - 1) % Modulus BY <1>2, <1>7, <2>1
  <2> QED BY <1>1, <1>4, <2>1, <2>2
<1>11. Watching' /\ DropsExact' /\ DropsModulo'
  BY <1>1 DEF IInv, Watching, DropsExact, DropsModulo, Span
<1> QED BY <1>8, <1>9, <1>10, <1>11 DEF IInv

(* Restarts and the line: a frame lost or damaged, ...                     *)
LEMMA RestartKeeps == IInv /\ Restart => IInv'
<1> SUFFICES ASSUME IInv, Restart PROVE IInv' OBVIOUS
<1>1. n' = 0 /\ restarts' = restarts + 1 /\ restarts < MaxRestarts
      /\ UNCHANGED <<line, closed, monitor, log, stopped, total, first, last, longest>>
  BY DEF Restart
<1>2. restarts \in Nat /\ restarts' \in 0..MaxRestarts /\ restarts' # 0 /\ total \in Nat
  BY <1>1, AttitudeStreamAssumption DEF IInv, Types, TypeOK
<1>3. Types' BY <1>1, <1>2 DEF IInv, Types, TypeOK
<1>4. InOrder' BY <1>1 DEF IInv, InOrder
<1>5. Numbered' /\ DropsExact' /\ DropsModulo' BY <1>2 DEF Numbered, DropsExact, DropsModulo
<1>6. Watching' BY <1>1, <1>2 DEF IInv, Watching
<1> QED BY <1>3, <1>4, <1>5, <1>6 DEF IInv

(* A sample lost on the line only widens the next gap.                     *)
LEMMA LoseKeeps == IInv /\ Lose => IInv'
<1> SUFFICES ASSUME IInv, Lose PROVE IInv' OBVIOUS
<1>1. UNCHANGED <<n, closed, monitor, log, stopped, total, restarts, first, last, longest>>
  BY DEF Lose, historyVars
<1>2. TypeOK /\ line \in Seq(Frame) /\ last \in Nat /\ total \in Nat
      /\ DOMAIN line = 1..Len(line) /\ Len(line) \in Nat
  BY LenProperties DEF IInv, Types, TypeOK
<1>3. PICK i \in 1..Len(line) : line' = RemoveAt(line, i) BY <1>2 DEF Lose
<1>4. /\ line' \in Seq(Frame) /\ Len(line') = Len(line) - 1
      /\ \A k \in 1..(Len(line) - 1) : line'[k] = IF k < i THEN line[k] ELSE line[k + 1]
  BY <1>2, <1>3, RemoveProperties
<1>5. DOMAIN line' = 1..(Len(line) - 1) BY <1>4, LenProperties
<1>6. \A k \in 1..Len(line) : line[k].index \in 1..total BY <1>2 DEF TypeOK
<1>7. Types'
  <2>1. \A k \in DOMAIN line' : line'[k].seq \in 0..(Modulus - 1) /\ line'[k].index \in 1..total
    <3> TAKE k \in DOMAIN line'
    <3>1. k \in 1..Len(line) /\ k + 1 \in 1..Len(line) BY <1>2, <1>5
    <3>2. line'[k] = line[k] \/ line'[k] = line[k + 1] BY <1>4, <1>5
    <3> QED BY <1>2, <3>1, <3>2 DEF TypeOK
  <2> QED BY <1>1, <1>4, <2>1 DEF IInv, Types, TypeOK
<1>8. InOrder'
  <2>1. /\ last <= total
        /\ \A k \in 1..Len(line) : last < line[k].index
        /\ \A k, j \in 1..Len(line) : k < j => line[k].index < line[j].index
    BY DEF IInv, InOrder
  <2>2. \A k \in 1..Len(line') : last < line'[k].index BY <1>2, <1>4, <2>1
  <2>3. ASSUME NEW k \in 1..Len(line'), NEW j \in 1..Len(line'), k < j
        PROVE  line'[k].index < line'[j].index
    <3> DEFINE a == IF k < i THEN k ELSE k + 1
               b == IF j < i THEN j ELSE j + 1
    <3>1. a \in 1..Len(line) /\ b \in 1..Len(line) /\ a < b BY <1>2, <1>4, <2>3
    <3>2. line'[k] = line[a] /\ line'[j] = line[b] BY <1>4
    <3> QED BY <2>1, <3>1, <3>2
  <2> QED BY <1>1, <2>1, <2>2, <2>3 DEF InOrder
<1>9. Numbered' BY <1>1, <1>2, <1>4 DEF IInv, Numbered
<1>10. Watching' /\ DropsExact' /\ DropsModulo'
  BY <1>1 DEF IInv, Watching, DropsExact, DropsModulo, Span
<1> QED BY <1>7, <1>8, <1>9, <1>10 DEF IInv

(* A sample damaged on the line is a bad frame: the counters and the log   *)
(* ignore it.                                                              *)
LEMMA DamageKeeps == IInv /\ Damage => IInv'
<1> SUFFICES ASSUME IInv, Damage PROVE IInv' OBVIOUS
<1>1. UNCHANGED <<n, closed, monitor, log, stopped, total, restarts, first, last, longest>>
  BY DEF Damage, historyVars
<1>2. TypeOK /\ line \in Seq(Frame) /\ last \in Nat /\ total \in Nat
      /\ DOMAIN line = 1..Len(line) /\ Len(line) \in Nat
  BY LenProperties DEF IInv, Types, TypeOK
<1>3. PICK i \in 1..Len(line) : line' = [line EXCEPT ![i].ok = FALSE] BY <1>2 DEF Damage
<1>4. \A k \in 1..Len(line) : line[k] \in Frame BY <1>2, ElementOfSeq
<1> DEFINE f == [line[i] EXCEPT !.ok = FALSE]
<1>5. f \in Frame /\ f.seq = line[i].seq /\ f.index = line[i].index BY <1>4 DEF Frame
<1>6. line' = [line EXCEPT ![i] = f] BY <1>3
<1> HIDE DEF f
<1>7. /\ line' \in Seq(Frame) /\ Len(line') = Len(line)
      /\ \A k \in 1..Len(line) : line'[k] = IF k = i THEN f ELSE line[k]
  BY <1>2, <1>5, <1>6, ExceptSeq
<1>8. DOMAIN line' = 1..Len(line) BY <1>7, LenProperties
<1>9. \A k \in 1..Len(line) : line'[k].seq = line[k].seq /\ line'[k].index = line[k].index
  BY <1>5, <1>7
<1>10. Types' BY <1>1, <1>2, <1>7, <1>8, <1>9 DEF IInv, Types, TypeOK
<1>11. InOrder' BY <1>1, <1>7, <1>9 DEF IInv, InOrder
<1>12. Numbered' BY <1>1, <1>7, <1>9 DEF IInv, Numbered
<1>13. Watching' /\ DropsExact' /\ DropsModulo'
  BY <1>1 DEF IInv, Watching, DropsExact, DropsModulo, Span
<1> QED BY <1>10, <1>11, <1>12, <1>13 DEF IInv

-----------------------------------------------------------------------------
(* The monitor takes a frame: what its numbers say when nothing restarted. *)
LEMMA GapSeen ==
  ASSUME IInv, NEW f \in Frame, restarts = 0, monitor.count > 0,
         f.seq = (f.index - 1) % Modulus
  PROVE  Missed(monitor.expected, f.seq) = (f.index - last - 1) % Modulus
<1>1. monitor.expected = last % Modulus BY DEF IInv, Watching
<1>2. last \in Int /\ f.index - 1 \in Int BY DEF IInv, Types, TypeOK, Frame
<1>3. last % Modulus \in 0..(Modulus - 1) BY <1>2, Division, RecordingAssumption
<1>4. monitor.expected # None BY <1>1, <1>3, RecordingAssumption
<1>5. Missed(monitor.expected, f.seq) = (((f.index - 1) % Modulus) - (last % Modulus)) % Modulus
  BY <1>1, <1>4 DEF Missed
<1>6. (((f.index - 1) % Modulus) - (last % Modulus)) % Modulus = (f.index - 1 - last) % Modulus
  BY <1>2, RecordingAssumption, RemainderOfDifference
<1>7. f.index - 1 - last = f.index - last - 1
  <2>1. f.index \in Int BY DEF Frame
  <2> QED BY <1>2, <2>1
<1> QED BY <1>5, <1>6, <1>7

(* A sample received: counters, log and ground truth advance together.     *)
LEMMA ReceiveKeeps == IInv /\ Receive => IInv'
<1> SUFFICES ASSUME IInv, Receive PROVE IInv' OBVIOUS
<1> DEFINE f == Head(line)
           lost == f.index - last - 1
<1>1. /\ line # <<>> /\ line' = Tail(line) /\ monitor' = Observe(monitor, f)
      /\ UNCHANGED <<n, closed, stopped, total, restarts>>
  BY DEF Receive
<1>2. /\ line \in Seq(Frame) /\ DOMAIN line = 1..Len(line) /\ Len(line) \in Nat \ {0}
      /\ TypeOK /\ monitor \in Counters /\ log \in Seq(Logged)
      /\ first \in Nat /\ last \in Nat /\ longest \in Nat /\ total \in Nat
      /\ monitor.count \in Nat /\ monitor.drops \in Nat
  BY <1>1, LenProperties, EmptySeq DEF IInv, Types, TypeOK
<1>3. /\ f \in Frame /\ f = line[1] /\ line' \in Seq(Frame) /\ Len(line') = Len(line) - 1
      /\ \A i \in 1..(Len(line) - 1) : line'[i] = line[i + 1]
  BY <1>1, <1>2, HeadTailProperties
<1>4. DOMAIN line' = 1..(Len(line) - 1) BY <1>3, LenProperties
<1>5. /\ \A i \in 1..Len(line) : last < line[i].index
      /\ \A i, j \in 1..Len(line) : i < j => line[i].index < line[j].index
      /\ \A i \in 1..Len(line) : line[i].seq \in 0..(Modulus - 1) /\ line[i].index \in 1..total
      /\ last <= total
  BY <1>2 DEF IInv, InOrder, TypeOK
<1>6. /\ f.index \in 1..total /\ last < f.index
      /\ \A i \in 1..Len(line') : f.index < line'[i].index
  <2>1. 1 \in 1..Len(line) BY <1>2
  <2>2. \A i \in 1..Len(line') : i + 1 \in 1..Len(line) /\ 1 < i + 1 BY <1>2, <1>3
  <2> QED BY <1>3, <1>5, <2>1, <2>2
<1>7. restarts = 0 => f.seq = (f.index - 1) % Modulus
  BY <1>2, <1>3 DEF IInv, Numbered
<1> HIDE DEF f
<1>8. lost \in Nat BY <1>2, <1>6
<1> HIDE DEF lost
<1>9. /\ \A i \in DOMAIN line' : line'[i].seq \in 0..(Modulus - 1) /\ line'[i].index \in 1..total
      /\ \A i, j \in 1..Len(line') : i < j => line'[i].index < line'[j].index
  <2>1. ASSUME NEW i \in 1..Len(line')
        PROVE  i + 1 \in 1..Len(line) /\ line'[i] = line[i + 1]
    BY <1>2, <1>3
  <2>2. \A i \in DOMAIN line' : line'[i].seq \in 0..(Modulus - 1) /\ line'[i].index \in 1..total
    BY <1>3, <1>4, <1>5, <2>1
  <2>3. ASSUME NEW i \in 1..Len(line'), NEW j \in 1..Len(line'), i < j
        PROVE  line'[i].index < line'[j].index
    BY <1>5, <2>1, <2>3
  <2> QED BY <2>2, <2>3
<1>10. Numbered'
  BY <1>1, <1>2, <1>3 DEF IInv, Numbered
<1>11. CASE ~f.ok
  <2>1. /\ UNCHANGED <<log, first, last, longest>>
        /\ monitor' \in Counters /\ monitor'.count = monitor.count
        /\ monitor'.drops = monitor.drops /\ monitor'.expected = monitor.expected
    BY <1>1, <1>2, <1>3, <1>11, ObserveProperties DEF Receive, f
  <2>2. monitor'.errors \in Nat /\ monitor'.expected \in 0..(Modulus - 1) \cup {None}
    BY <2>1 DEF Counters
  <2>3. TypeOK' BY <1>1, <1>2, <1>9, <2>1, <2>2 DEF TypeOK
  <2>4. Types' BY <1>2, <1>3, <2>1, <2>3 DEF Types
  <2>5. InOrder'
    <3>1. ASSUME NEW i \in 1..Len(line') PROVE last < line'[i].index
      <4>1. i + 1 \in 1..Len(line) /\ line'[i] = line[i + 1] BY <1>2, <1>3
      <4> QED BY <1>5, <4>1
    <3> QED BY <1>1, <1>5, <1>9, <2>1, <3>1 DEF InOrder
  <2>6. Watching' /\ DropsExact' /\ DropsModulo'
    BY <1>1, <2>1 DEF IInv, Watching, DropsExact, DropsModulo, Span
  <2> QED BY <1>10, <2>4, <2>5, <2>6 DEF IInv
<1>12. CASE f.ok
  <2>1. /\ log' = Append(log, LogLine(SampleOf(f)))
        /\ first' = IF monitor.count = 0 THEN f.index ELSE first
        /\ last' = f.index
        /\ longest' = IF monitor.count > 0 /\ lost > longest THEN lost ELSE longest
    BY <1>12 DEF Receive, f, lost
  <2> DEFINE missed == Missed(monitor.expected, f.seq)
  <2>2. /\ monitor' \in Counters /\ monitor'.count = monitor.count + 1
        /\ monitor'.drops = monitor.drops + missed
        /\ monitor'.expected = (f.seq + 1) % Modulus
        /\ missed \in 0..(Modulus - 1)
    BY <1>1, <1>2, <1>3, <1>12, ObserveProperties
  <2>3. LogLine(SampleOf(f)) \in Logged
    BY <1>3 DEF LogLine, SampleOf, Logged, LogColumns, Frame
  <2>4. log' \in Seq(Logged) /\ Len(log') = Len(log) + 1
    BY <1>2, <2>1, <2>3, AppendProperties
  <2>5. Types'
    <3>1. /\ monitor'.count \in Nat /\ monitor'.drops \in Nat /\ monitor'.errors \in Nat
          /\ monitor'.expected \in 0..(Modulus - 1) \cup {None}
      BY <2>2 DEF Counters
    <3>2. first' \in Nat /\ last' \in Nat /\ longest' \in Nat BY <1>2, <1>6, <1>8, <2>1
    <3>3. Len(log') = monitor'.count BY <1>2, <2>2, <2>4 DEF TypeOK
    <3>4. TypeOK' BY <1>1, <1>2, <1>9, <3>1, <3>2, <3>3 DEF TypeOK
    <3> QED BY <1>3, <2>2, <2>4, <3>4 DEF Types
  <2>6. InOrder' BY <1>1, <1>2, <1>6, <1>9, <2>1 DEF InOrder
  <2>7. Watching'
    <3>1. monitor'.count > 0 BY <1>2, <2>2
    <3>2. first' \in 1..last' BY <1>2, <1>6, <2>1 DEF IInv, Watching
    <3>3. ASSUME restarts = 0
          PROVE  (f.seq + 1) % Modulus = f.index % Modulus
      <4>1. f.index - 1 \in Int /\ f.index - 1 + 1 = f.index BY <1>6
      <4> QED BY <1>7, <3>3, <4>1, RemainderOfNext, RecordingAssumption
    <3> QED BY <1>1, <2>1, <2>2, <3>1, <3>2, <3>3 DEF Watching
  <2>8. CASE monitor.count = 0
    <3>1. monitor.expected = None /\ monitor.drops = 0 BY <2>8 DEF IInv, Watching
    <3>2. missed = 0 BY <3>1 DEF Missed
    <3>3. monitor'.count + monitor'.drops = 1 /\ Span' = 1
      BY <1>6, <2>1, <2>2, <2>8, <3>1, <3>2 DEF Span
    <3>4. (Span' - monitor'.count - monitor'.drops) % Modulus = 0
      <4>1. Span' - monitor'.count - monitor'.drops = 0 BY <2>2, <2>8, <3>1, <3>2, <3>3
      <4>2. 0 % Modulus = 0 BY RecordingAssumption, RemainderOfNat
      <4> QED BY <4>1, <4>2
    <3> QED BY <1>10, <2>5, <2>6, <2>7, <3>3, <3>4 DEF IInv, DropsExact, DropsModulo
  <2>9. CASE monitor.count > 0 /\ restarts = 0
    <3>1. missed = lost % Modulus BY <1>3, <1>7, <2>9, GapSeen DEF lost
    <3>2. lost % Modulus <= lost /\ (lost < Modulus => lost % Modulus = lost)
      BY <1>8, RecordingAssumption, RemainderOfNat
    <3>3. Span' = Span + lost + 1 /\ Span \in Int
      <4>1. f.index \in Int BY <1>6
      <4>2. first' = first BY <1>2, <2>1, <2>9
      <4> QED BY <1>2, <2>1, <4>1, <4>2 DEF Span, lost
    <3> DEFINE gone == Span - monitor.count - monitor.drops
    <3>4. gone \in Int /\ gone >= 0 /\ gone % Modulus = 0
      BY <1>2, <2>9, <3>3 DEF IInv, DropsModulo
    <3> HIDE DEF gone
    <3>5. Span' - monitor'.count - monitor'.drops = gone + lost - (lost % Modulus)
      BY <1>2, <1>8, <2>2, <3>1, <3>3 DEF gone
    <3>6. DropsModulo'
      <4>1. (gone + lost - (lost % Modulus)) % Modulus = 0
        <5>1. Modulus \in Nat \ {0} /\ lost \in Int BY <1>8, RecordingAssumption
        <5> QED BY <3>4, <5>1, WholeRangesAdd
      <4>2. monitor'.count + monitor'.drops <= Span'
        BY <1>2, <1>8, <2>2, <3>1, <3>2, <3>3, <3>4 DEF gone
      <4> QED BY <3>5, <4>1, <4>2 DEF DropsModulo
    <3>7. DropsExact'
      <4> SUFFICES ASSUME longest' < Modulus PROVE monitor'.count + monitor'.drops = Span'
        BY DEF DropsExact
      <4>1. lost < Modulus /\ longest < Modulus
        BY <1>2, <1>8, <2>1, <2>9, RecordingAssumption
      <4>2. monitor.count + monitor.drops = Span BY <2>9, <4>1 DEF IInv, DropsExact
      <4>3. missed = lost BY <3>1, <3>2, <4>1
      <4>4. monitor'.count + monitor'.drops = monitor.count + monitor.drops + lost + 1
        BY <1>2, <1>8, <2>2, <4>3
      <4> QED BY <1>2, <1>8, <3>3, <4>2, <4>4
    <3> QED BY <1>10, <2>5, <2>6, <2>7, <3>6, <3>7 DEF IInv
  <2>10. CASE restarts # 0
    BY <1>1, <1>10, <2>5, <2>6, <2>7, <2>10 DEF IInv, DropsExact, DropsModulo
  <2> QED BY <1>2, <2>8, <2>9, <2>10
<1> QED BY <1>11, <1>12

(* No step of the stream breaks the invariant.                             *)
LEMMA StreamStep == IInv /\ [Next]_vars => IInv'
<1> SUFFICES ASSUME IInv, [Next]_vars PROVE IInv' OBVIOUS
<1>1. CASE Stream BY <1>1, StreamKeeps
<1>2. CASE Restart BY <1>2, RestartKeeps
<1>3. CASE Lose BY <1>3, LoseKeeps
<1>4. CASE Damage BY <1>4, DamageKeeps
<1>5. CASE Receive BY <1>5, ReceiveKeeps
<1>6. CASE CloseSensor \/ Finish \/ Interrupt \/ UNCHANGED vars
  <2>1. /\ UNCHANGED <<n, line, monitor, log, historyVars>>
        /\ closed' \in BOOLEAN /\ stopped' \in {Running, AtEof, Interrupted}
    BY <1>6 DEF CloseSensor, Finish, Interrupt, vars, codeVars, IInv, Types, TypeOK
  <2>2. Types' BY <2>1 DEF historyVars, IInv, Types, TypeOK
  <2>3. InOrder' /\ Numbered' /\ Watching' /\ DropsExact' /\ DropsModulo'
    BY <2>1 DEF historyVars, IInv, InOrder, Numbered, Watching, DropsExact, DropsModulo, Span
  <2> QED BY <2>2, <2>3 DEF IInv
<1> QED BY <1>1, <1>2, <1>3, <1>4, <1>5, <1>6 DEF Next, Monitor

(* The inductive invariant holds: frames in order, numbered as sent, and a *)
(* monitor that expects the number after its latest (Observe, Receive).    *)
THEOREM StreamInvariant == Spec => []IInv
BY StreamInit, StreamStep, PTL DEF Spec

(* The counters, the numbers and the recording have their types.           *)
THEOREM StreamTypes == Spec => []TypeOK
<1>1. IInv => TypeOK BY DEF IInv, Types
<1> QED BY <1>1, StreamInvariant, PTL

(* Samples and drops add up to what was sent, as long as no gap is as long *)
(* as the range of the numbers: apps/monitor's count of drops, `(seq -     *)
(* expected_seq)' in 32 bits, for a range of any size.                     *)
THEOREM DropsCounted == Spec => []DropsExact
<1>1. IInv => DropsExact BY DEF IInv
<1> QED BY <1>1, StreamInvariant, PTL

(* Whatever the gaps, the monitor misses whole ranges of numbers only and  *)
(* reports no drop that did not happen.                                    *)
THEOREM DropsCountedModulo == Spec => []DropsModulo
<1>1. IInv => DropsModulo BY DEF IInv
<1> QED BY <1>1, StreamInvariant, PTL

-----------------------------------------------------------------------------
(* The recording and the counters: a monitor that is shown the recorded    *)
(* numbers has counted what this one has (bad frames apart).               *)
NumbersIn(lines) == [i \in DOMAIN lines |-> lines[i]["seq"]]

Shown ==
  /\ \A i \in DOMAIN log : log[i]["seq"] \in Numbers
  /\ Watched(NumbersIn(log)).count = monitor.count
  /\ Watched(NumbersIn(log)).drops = monitor.drops
  /\ Watched(NumbersIn(log)).expected = monitor.expected

(* The numbers in a log, line by line.                                     *)
LEMMA NumbersInLog ==
  ASSUME NEW lines \in Seq(Logged), \A i \in DOMAIN lines : lines[i]["seq"] \in Numbers
  PROVE  /\ NumbersIn(lines) \in Seq(Numbers) /\ Len(NumbersIn(lines)) = Len(lines)
         /\ \A i \in 1..Len(lines) : NumbersIn(lines)[i] = lines[i]["seq"]
<1>1. Len(lines) \in Nat /\ DOMAIN lines = 1..Len(lines) BY LenProperties
<1>2. NumbersIn(lines) \in [1..Len(lines) -> Numbers] BY <1>1 DEF NumbersIn
<1> QED BY <1>1, <1>2, FunctionIsSeq DEF NumbersIn

(* What the log shows when nothing has been received.                      *)
LEMMA ShownInit == Init => Shown
<1> SUFFICES ASSUME Init PROVE Shown OBVIOUS
<1>1. log = <<>> /\ monitor = NewMonitor BY DEF Init
<1>2. DOMAIN log = {}
  <2>1. log \in Seq(Numbers) /\ Len(log) = 0 BY <1>1, EmptySeq
  <2> QED BY <2>1, LenProperties
<1>3. NumbersIn(log) = <<>>
  <2>1. NumbersIn(log) \in [1..0 -> Numbers] BY <1>2 DEF NumbersIn
  <2>2. 0 \in Nat OBVIOUS
  <2>3. NumbersIn(log) \in Seq(Numbers) /\ Len(NumbersIn(log)) = 0
    BY <2>1, <2>2, FunctionIsSeq
  <2> QED BY <2>3, EmptySeq
<1> QED BY <1>1, <1>2, <1>3, WatchedNone DEF Shown

(* What the log shows stays what was received.                             *)
LEMMA ShownStep == IInv /\ Shown /\ [Next]_vars => Shown'
<1> SUFFICES ASSUME IInv, Shown, [Next]_vars PROVE Shown' OBVIOUS
<1> DEFINE f == Head(line)
           x == LogLine(SampleOf(f))
           w == Watched(NumbersIn(log))
<1>1. CASE Receive /\ f.ok
  <2>1. log' = Append(log, x) /\ monitor' = Observe(monitor, f) /\ line # <<>>
    BY <1>1 DEF Receive
  <2>2. f \in Frame /\ monitor \in Counters /\ log \in Seq(Logged)
    BY <2>1, TailElements, SeqElements DEF IInv, Types
  <2>3. x \in Logged /\ x["seq"] = f.seq /\ f.seq \in Numbers
    BY <2>2 DEF LogLine, SampleOf, LogColumns, Logged, Frame, Numbers
  <2> HIDE DEF f, x
  <2>4. /\ log' \in Seq(Logged) /\ Len(log) \in Nat /\ Len(log') = Len(log) + 1
        /\ DOMAIN log = 1..Len(log) /\ DOMAIN log' = 1..(Len(log) + 1)
        /\ \A k \in DOMAIN log : log'[k] = log[k]
        /\ log'[Len(log) + 1] = x
    BY <2>1, <2>2, <2>3, AppendElements
  <2>5. \A i \in DOMAIN log : log[i]["seq"] \in Numbers BY DEF Shown
  <2>6. \A i \in DOMAIN log' : log'[i]["seq"] \in Numbers
    BY <2>3, <2>4, <2>5
  <2>7. NumbersIn(log') = Append(NumbersIn(log), f.seq)
    <3> DEFINE s == NumbersIn(log)
               t == NumbersIn(log')
               a == Append(s, f.seq)
    <3>1. s \in Seq(Numbers) /\ Len(s) = Len(log) /\ \A i \in 1..Len(log) : s[i] = log[i]["seq"]
      BY <2>2, <2>5, NumbersInLog
    <3>2. t \in Seq(Numbers) /\ Len(t) = Len(log') /\ \A i \in 1..Len(log') : t[i] = log'[i]["seq"]
      <4> DEFINE lines == log'
      <4>1. lines \in Seq(Logged) /\ \A i \in DOMAIN lines : lines[i]["seq"] \in Numbers
        BY <2>4, <2>6
      <4> HIDE DEF lines
      <4>2. /\ NumbersIn(lines) \in Seq(Numbers) /\ Len(NumbersIn(lines)) = Len(lines)
            /\ \A i \in 1..Len(lines) : NumbersIn(lines)[i] = lines[i]["seq"]
        BY <4>1, NumbersInLog
      <4> QED BY <4>2 DEF lines, NumbersIn
    <3> HIDE DEF s, t
    <3>3. /\ a \in Seq(Numbers) /\ Len(a) = Len(s) + 1
          /\ \A i \in 1..Len(s) : a[i] = s[i]
          /\ a[Len(s) + 1] = f.seq
      BY <2>3, <3>1, AppendElements
    <3> HIDE DEF a
    <3>4. \A i \in 1..Len(t) : t[i] = a[i]
      BY <2>3, <2>4, <3>1, <3>2, <3>3
    <3>5. t = a BY <2>4, <3>1, <3>2, <3>3, <3>4, SeqEqual
    <3> QED BY <3>5 DEF s, t, a
  <2>8. NumbersIn(log) \in Seq(Numbers) BY <2>2, <2>5, NumbersInLog
  <2>9. w \in Counters /\ Watched(NumbersIn(log')) = Observe(w, Seen(f.seq))
    BY <2>3, <2>7, <2>8, WatchedNext
  <2>10. w.count = monitor.count /\ w.drops = monitor.drops /\ w.expected = monitor.expected
    BY DEF Shown
  <2> HIDE DEF w
  <2>11. /\ Observe(w, Seen(f.seq)).count = w.count + 1
         /\ Observe(w, Seen(f.seq)).drops = w.drops + Missed(w.expected, f.seq)
         /\ Observe(w, Seen(f.seq)).expected = (f.seq + 1) % Modulus
    BY <2>3, <2>9, SeenProperties
  <2>12. f.ok BY <1>1 DEF f
  <2>13. /\ monitor'.count = monitor.count + 1
         /\ monitor'.drops = monitor.drops + Missed(monitor.expected, f.seq)
         /\ monitor'.expected = (f.seq + 1) % Modulus
    BY <2>1, <2>2, <2>12, ObserveProperties
  <2> QED BY <2>6, <2>9, <2>10, <2>11, <2>13 DEF Shown
<1>2. CASE Receive /\ ~f.ok
  <2>1. log' = log /\ monitor' = Observe(monitor, f) /\ line # <<>> BY <1>2 DEF Receive
  <2>2. f \in Frame /\ monitor \in Counters
    BY <2>1, TailElements, SeqElements DEF IInv, Types
  <2>3. /\ monitor'.count = monitor.count /\ monitor'.drops = monitor.drops
        /\ monitor'.expected = monitor.expected
    BY <1>2, <2>1, <2>2, ObserveProperties
  <2> QED BY <2>1, <2>3 DEF Shown
<1>3. CASE UNCHANGED <<log, monitor>> BY <1>3 DEF Shown
<1>4. Receive \/ UNCHANGED <<log, monitor>>
  BY DEF Next, Stream, Restart, CloseSensor, Lose, Damage, Monitor, Finish, Interrupt,
         vars, codeVars, historyVars
<1> QED BY <1>1, <1>2, <1>3, <1>4

(* What the publisher makes of the recording.                              *)
LEMMA ShownIsFaithful == IInv /\ Shown => ReplayFaithful
<1> SUFFICES ASSUME IInv, Shown PROVE ReplayFaithful OBVIOUS
<1> DEFINE len  == Len(log)
           rows == RowsOf(Recorded)
<1>1. /\ log \in Seq(Logged) /\ len \in Nat /\ DOMAIN log = 1..len
      /\ \A i \in 1..len : log[i] \in Logged /\ log[i]["seq"] \in Numbers
  BY SeqElements DEF IInv, Types, Shown
<1>2. Recorded.columns = LogColumns /\ Recorded.lines = log BY DEF Recorded
<1>3. ASSUME NEW i \in 1..len, NEW c \in LogColumns \ {"rx_unix"}
      PROVE  Field(Recorded, log[i], c) = log[i][c] /\ log[i][c] \in Nat
  BY <1>1, <1>2 DEF Field, Logged
<1>4. Unreadable(Recorded) <=> log = <<>>
  <2>1. Required \cup {"seq", "t_ms"} \subseteq LogColumns \ {"rx_unix"}
    BY DEF Required, LogColumns
  <2>2. \A i \in 1..len : \A c \in Required \cup {"seq", "t_ms"} :
          Field(Recorded, log[i], c) \notin {None, Text}
    BY <1>3, <2>1, RecordingAssumption
  <2> QED BY <1>1, <1>2, <2>1, <2>2 DEF Unreadable
<1>5. /\ DOMAIN rows = 1..len /\ Len(rows) = len
      /\ \A i \in 1..len : rows[i].seq = log[i]["seq"] /\ rows[i].seq # None
  <2>1. rows = [i \in 1..len |-> [seq   |-> Word(Field(Recorded, log[i], "seq")),
                                  t_ms  |-> Word(Field(Recorded, log[i], "t_ms"))]]
    BY <1>1, <1>2 DEF RowsOf
  <2>2. Len(rows) = len
    <3> DEFINE S == {rows[i] : i \in 1..len}
    <3>1. rows \in [1..len -> S] BY <2>1
    <3> HIDE DEF rows, S
    <3> QED BY <1>1, <3>1, FunctionIsSeq
  <2>3. ASSUME NEW i \in 1..len PROVE rows[i].seq = log[i]["seq"] /\ rows[i].seq # None
    <3>1. Field(Recorded, log[i], "seq") = log[i]["seq"] BY <1>3 DEF LogColumns
    <3>2. log[i]["seq"] \in Nat /\ log[i]["seq"] < Modulus
      BY <1>1, RecordingAssumption DEF Numbers
    <3>3. Word(log[i]["seq"]) = log[i]["seq"]
      BY <3>2, RemainderOfNat, RecordingAssumption DEF Word
    <3> QED BY <2>1, <3>1, <3>2, <3>3, RecordingAssumption
  <2> QED BY <2>1, <2>2, <2>3
<1> HIDE DEF rows
<1>6. Replay(rows, FALSE, len) = NumbersIn(log)
  <2>1. ~(len < len) BY <1>1
  <2>2. Replay(rows, FALSE, len) = [i \in 1..len |-> rows[i].seq]
    BY <1>1, <1>5, <2>1 DEF Replay
  <2> QED BY <1>1, <1>5, <2>2 DEF NumbersIn
<1>7. \A k \in Nat : Replay(rows, TRUE, k) = CountUpTo(k) BY DEF Replay, CountUpTo
<1>8. \A k \in 0..(2 * len) : Watched(Replay(rows, TRUE, k)).drops = 0
  <2>1. ASSUME NEW k \in Nat PROVE Watched(Replay(rows, TRUE, k)).drops = 0
    BY <1>7, CountingDropsNone
  <2>2. \A k \in 0..(2 * len) : k \in Nat BY <1>1
  <2> QED BY <2>1, <2>2, Zenon
<1>9. /\ Watched(Replay(rows, FALSE, len)).count = monitor.count
      /\ Watched(Replay(rows, FALSE, len)).drops = monitor.drops
  BY <1>6 DEF Shown
<1> QED BY <1>4, <1>5, <1>8, <1>9 DEF ReplayFaithful, rows

(* The recording can be replayed as soon as it holds a sample; one pass of *)
(* the publisher over it shows the next monitor the counts this one has    *)
(* made, the drops of restarts included, and a loop shows none: for every  *)
(* range of numbers, however long the recording (apps/monitor's loop,      *)
(* AttitudeCsvLogger::write(), read_attitude_csv(), run_publisher()).      *)
THEOREM ReplayIsFaithful == Spec => []ReplayFaithful
<1>1. Spec => [](IInv /\ Shown)
  <2>1. Init => IInv /\ Shown BY StreamInit, ShownInit
  <2>2. IInv /\ Shown /\ [Next]_vars => IInv' /\ Shown' BY StreamStep, ShownStep
  <2> QED BY <2>1, <2>2, PTL DEF Spec
<1> QED BY <1>1, ShownIsFaithful, PTL
=============================================================================

---------------------------- MODULE PublisherProofs ----------------------------
(***************************************************************************)
(* What the publisher replays and when, for any recording, command line,   *)
(* rate, number of samples and delays of the process.                      *)
(***************************************************************************)
EXTENDS Publisher, DataFacts, FiniteSetTheorems

-----------------------------------------------------------------------------
(* What the parts of the state look like, and which phase a replay can be  *)
(* in: it has rows once the file is read, and has sent nothing before the  *)
(* link is open.                                                           *)
Word32 == 0..(Modulus - 1)
Row == [seq : Word32 \cup {None}, t_ms : Word32 \cup {None}]
Sample == [row : Nat, at : Int, delayed : Int, seq : Word32, t_ms : Word32]

Before == {"starting", "opening"}
Writing == {"sending", "blocked"}
Between == {"checking"} \cup Writing  \* two samples
After == {"pacing", "sleeping"}       \* a sample, before the next row

Types ==
  /\ TypeOK
  /\ sent \in Seq(Sample) /\ clock \in Nat /\ start \in Nat /\ wake \in Int
  /\ Rows \in Seq(Row) /\ row \in Nat
  /\ opts.count \in Int \cup {None} /\ {opts.loop, opts.realtime} \subseteq BOOLEAN
  /\ opts.realtime => \A i \in DOMAIN Rows : Rows[i].t_ms # None
  /\ phase \notin {"starting", "ended"} \/ emitted > 0 => row \in 1..Len(Rows)
  /\ phase \in Before => emitted = 0 /\ delayed = 0 /\ row = 1 /\ prev = None
  /\ phase \in Writing => emitted < MaxSent
  /\ phase \in After => emitted > 0

(* Which row is at hand, and which rows the samples were taken from.       *)
Places ==
  /\ phase \in Between => row = (emitted % Len(Rows)) + 1
  /\ phase \in After => row = ((emitted - 1) % Len(Rows)) + 1
  /\ \A k \in DOMAIN sent : sent[k].row = ((k - 1) % Len(Rows)) + 1

OnePass ==
  ~opts.loop =>
    /\ phase \in Between => emitted = row - 1
    /\ phase \in After => emitted = row
    /\ emitted > 0 => emitted <= Len(Rows)

Numbers ==
  \A k \in DOMAIN sent :
    sent[k].seq = IF opts.loop \/ Rows[k].seq = None THEN (k - 1) % Modulus ELSE Rows[k].seq

(* How many samples are sent, and how many a replay sends that ends.       *)
Amount ==
  /\ opts.count # None /\ emitted > 0 => emitted <= opts.count
  /\ opts.count # None /\ phase \in Writing => emitted < opts.count
  /\ exit = 0 /\ ~stop /\ emitted > 0 =>
       IF opts.count # None /\ (opts.loop \/ opts.count < Len(Rows)) THEN emitted = opts.count
       ELSE ~opts.loop /\ emitted = Len(Rows)

(* When the last sample was sent, how often the process has been held up   *)
(* since, and when the next sample is due.                                 *)
LastAt == IF emitted = 0 THEN start ELSE sent[emitted].at
Held == delayed - (IF emitted = 0 THEN 0 ELSE sent[emitted].delayed)
Due == start + emitted * Period
Earliest == IF LastAt > Due THEN LastAt ELSE Due

Schedule ==
  ~opts.realtime =>
    /\ OnSchedule
    /\ phase \in Between => clock \in Earliest..(Earliest + Held)
    /\ phase = "pacing" => clock \in LastAt..(LastAt + Held)
    /\ phase = "sleeping" => wake = Due /\ clock \in LastAt..(Earliest + Held) /\ Held >= 0

(* A replay in real time sleeps for the gap before a row after it has sent *)
(* the row: each gap comes one sample late.                                *)
GapsKeptOneLate ==
  opts.realtime => \A k \in DOMAIN sent \ {1} :
    sent[k].at - sent[k - 1].at
      = GapBefore(sent[k - 1].row) + sent[k].delayed - sent[k - 1].delayed

Gaps ==
  opts.realtime =>
    /\ GapsKeptOneLate
    /\ phase \in Between \cup {"pacing"} => prev = IF row = 1 THEN None ELSE Rows[row - 1].t_ms
    /\ phase \in Between /\ emitted > 0 => clock = LastAt + Held + GapBefore(sent[emitted].row)
    /\ phase = "pacing" => clock = LastAt + Held
    /\ phase = "sleeping" =>
         LET due == LastAt + Held + GapBefore(row)
         IN  prev = Rows[row].t_ms /\ IF clock < wake THEN wake = due ELSE clock = due

IInv == Types /\ Places /\ OnePass /\ Numbers /\ Amount /\ Schedule /\ Gaps

-----------------------------------------------------------------------------
(* What is read from a file is a row for every line, with numbers of 32    *)
(* bits or none.                                                           *)
LEMMA RowsRead ==
  ASSUME NEW path \in DOMAIN FileOf, ~Unreadable(FileOf[path])
  PROVE  /\ RowsOf(FileOf[path]) \in Seq(Row) /\ 1 \in 1..Len(RowsOf(FileOf[path]))
         /\ DOMAIN RowsOf(FileOf[path]) = DOMAIN FileOf[path].lines
<1> DEFINE file == FileOf[path]
           lines == file.lines
           n == Len(lines)
           rows == RowsOf(file)
<1>1. n \in Nat /\ DOMAIN lines = 1..n
  <2>1. lines \in Seq(ToSet(lines)) BY PublisherAssumption
  <2> QED BY <2>1, LenProperties
<1>2. n > 0
  <2>1. lines # <<>> BY DEF Unreadable
  <2>2. lines \in Seq(ToSet(lines)) BY PublisherAssumption
  <2> QED BY <1>1, <2>1, <2>2, EmptySeq
<1>3. ASSUME NEW i \in 1..n, NEW c \in {"seq", "t_ms"}
      PROVE  Word(Field(file, lines[i], c)) \in Word32 \cup {None}
  <2>1. Field(file, lines[i], c) \in Int \cup {None}
    <3>1. Field(file, lines[i], c) \in Int \cup {None, Text}
      BY <1>1, PublisherAssumption DEF Field
    <3>2. Field(file, lines[i], c) # Text BY <1>1 DEF Unreadable
    <3> QED BY <3>1, <3>2
  <2>2. ASSUME NEW v \in Int PROVE v % Modulus \in Word32
    BY RecordingAssumption, Division DEF Word32
  <2> QED BY <2>1, <2>2 DEF Word
<1>4. rows \in [1..n -> Row]
  <2>1. rows = [i \in 1..n |-> [seq |-> Word(Field(file, lines[i], "seq")),
                                t_ms |-> Word(Field(file, lines[i], "t_ms"))]]
    BY <1>1 DEF RowsOf
  <2> QED BY <1>3, <2>1 DEF Row
<1>5. rows \in Seq(Row) /\ Len(rows) = n BY <1>1, <1>4, FunctionIsSeq
<1> QED BY <1>1, <1>2, <1>4, <1>5

(* A replay that is about to open the link has rows, with times if it is to*)
(* keep to them.                                                           *)
LEMMA StartFacts ==
  ASSUME Types, Start, phase' = "opening"
  PROVE  /\ Rows' \in Seq(Row) /\ 1 \in 1..Len(Rows')
         /\ opts'.count \in Int \cup {None} /\ {opts'.loop, opts'.realtime} \subseteq BOOLEAN
         /\ opts'.realtime => \A i \in DOMAIN Rows' : Rows'[i].t_ms # None
<1> DEFINE path == CsvPath(args)
<1>1. PublisherExit(args) = 0 /\ ~Refused(path) BY DEF Start, Exit
<1>2. opts' = Options(OpenAs(args), RowsOf(FileOf[path]), Given(args, "--loop"),
                      Given(args, "--realtime"), CountOf(args, None))
  BY <1>1 DEF Start
<1>3. path \in DOMAIN FileOf /\ ~Unreadable(FileOf[path])
      /\ (Given(args, "--realtime") =>
            \A i \in DOMAIN FileOf[path].lines : RowsOf(FileOf[path])[i].t_ms # None)
  BY <1>1 DEF Refused
<1>4. CountOf(args, None) \in Int \cup {None} BY NumberOfAssumption DEF CountOf
<1>5. {Given(args, "--loop"), Given(args, "--realtime")} \subseteq BOOLEAN BY DEF Given
<1> HIDE DEF path
<1> QED BY <1>2, <1>3, <1>4, <1>5, RowsRead DEF Options, Rows

(* What sending does to the samples.                                       *)
NextSample ==
  [row |-> row, at |-> clock, delayed |-> delayed,
   seq |-> IF opts.loop \/ Rows[row].seq = None THEN emitted % Modulus ELSE Rows[row].seq,
   t_ms |-> IF Rows[row].t_ms = None THEN (emitted * Period) % Modulus ELSE Rows[row].t_ms]

(* Sending adds one sample, the next one, to what was sent.                *)
LEMMA SendFacts ==
  ASSUME Types, Send
  PROVE  /\ emitted \in Nat /\ emitted' = emitted + 1
         /\ sent' \in Seq(Sample) /\ Len(sent') = emitted'
         /\ DOMAIN sent = 1..emitted /\ DOMAIN sent' = 1..(emitted + 1)
         /\ \A k \in DOMAIN sent : sent'[k] = sent[k]
         /\ sent'[emitted + 1] = NextSample
<1>1. emitted \in Nat /\ Len(sent) = emitted /\ sent \in Seq(Sample)
  BY PublisherAssumption DEF Types, TypeOK
<1>2. NextSample \in Sample
  <2>1. row \in 1..Len(Rows) /\ Rows \in Seq(Row) BY DEF Types, Send
  <2>2. Rows[row] \in Row BY <2>1, SeqElements
  <2>3. emitted % Modulus \in Word32 BY <1>1, RecordingAssumption, Division DEF Word32
  <2>4. (emitted * Period) % Modulus \in Word32
    <3> DEFINE p == emitted * Period
    <3>1. p \in Int BY <1>1, PublisherAssumption
    <3> HIDE DEF p
    <3>2. p % Modulus \in Word32 BY <3>1, RecordingAssumption, Division DEF Word32
    <3> QED BY <3>2 DEF p
  <2>5. row \in Nat /\ clock \in Int /\ delayed \in Int
    BY PublisherAssumption DEF Types, TypeOK
  <2> DEFINE a == emitted % Modulus
             b == (emitted * Period) % Modulus
             r == Rows[row]
  <2>6. a \in Word32 /\ b \in Word32 /\ r \in Row BY <2>2, <2>3, <2>4
  <2>7. NextSample = [row |-> row, at |-> clock, delayed |-> delayed,
                      seq |-> IF opts.loop \/ r.seq = None THEN a ELSE r.seq,
                      t_ms |-> IF r.t_ms = None THEN b ELSE r.t_ms]
    BY DEF NextSample
  <2> HIDE DEF a, b, r
  <2> QED BY <2>5, <2>6, <2>7 DEF Sample, Row
<1>3. sent' = Append(sent, NextSample) /\ emitted' = emitted + 1 BY DEF Send, NextSample
<1> HIDE DEF NextSample
<1> QED BY <1>1, <1>2, <1>3, AppendElements

-----------------------------------------------------------------------------
(* The types.                                                              *)
LEMMA TypeInit == Init => Types
<1> SUFFICES ASSUME Init PROVE Types
  OBVIOUS
<1>1. TypeOK
  <2>1. sent = <<>> /\ Len(sent) = 0 /\ DOMAIN sent = {} BY DEF Init
  <2>2. /\ stop = FALSE /\ phase = "starting" /\ exit = -1 /\ emitted = 0 /\ delayed = 0
        /\ prev = None
    BY DEF Init, Running
  <2>3. 0 \in 0..MaxSent /\ 0 \in 0..MaxDelay BY PublisherAssumption
  <2> QED BY <2>1, <2>2, <2>3 DEF TypeOK, Running
<1>2. Rows \in Seq(Row) /\ Rows = <<>> /\ opts.count = None
      /\ opts.loop = FALSE /\ opts.realtime = FALSE
  BY DEF Init, Options, Rows
<1>3. /\ phase = "starting" /\ emitted = 0 /\ delayed = 0 /\ row = 1 /\ prev = None
      /\ sent = <<>> /\ clock = 0 /\ start = 0 /\ wake = 0
  BY DEF Init
<1>4. sent \in Seq(Sample) BY <1>3
<1>5. {opts.loop, opts.realtime} \subseteq BOOLEAN /\ ~opts.realtime
      /\ opts.count \in Int \cup {None}
  BY <1>2
<1>6. Rows \in Seq(Row) /\ row \in Nat /\ clock \in Nat /\ start \in Nat /\ wake \in Int
  BY <1>2, <1>3
<1> QED BY <1>1, <1>3, <1>4, <1>5, <1>6 DEF Types, Before, Writing, Between, After

(* No step breaks the types.                                               *)
LEMMA TypeStep == Types /\ [Next]_vars => Types'
<1> SUFFICES ASSUME Types, [Next]_vars PROVE Types'
  OBVIOUS
<1> USE DEF Before, Writing, Between, After
<1>1. CASE Start
  <2>1. CASE phase' = "opening"
    <3>1. TypeOK' BY <1>1, <2>1 DEF Start, Goto, Exit, Types, TypeOK, Running, Killed
    <3> QED BY <1>1, <2>1, <3>1, StartFacts DEF Start, Types
  <2>2. CASE phase' # "opening"
    <3>1. phase' = "ended" /\ exit' \in {1, 2} /\ opts' = opts
      <4>1. PublisherExit(args) \in {0, 1, 2} BY DEF PublisherExit
      <4> QED BY <1>1, <2>2, <4>1 DEF Start, Goto, Exit
    <3>2. TypeOK' BY <1>1, <3>1 DEF Start, Types, TypeOK, Running, Killed
    <3> QED BY <1>1, <3>1, <3>2 DEF Start, Types, Rows
  <2> QED BY <2>1, <2>2
<1>2. CASE Open \/ OpenFails \/ Check \/ PeerReads
  <2>1. TypeOK'
    <3>1. UNCHANGED <<stop, emitted, sent, delayed, prev>>
      BY <1>2 DEF Open, OpenFails, Check, PeerReads
    <3>2. \/ phase' \in Between /\ exit' = exit /\ phase # "ended"
          \/ phase' = "ended" /\ exit' \in {0, 1}
      BY <1>2 DEF Open, OpenFails, Check, GoSend, PeerReads, Goto, Exit
    <3> QED BY <3>1, <3>2 DEF Types, TypeOK, Running, Killed
  <2>2. phase' \in Writing => emitted' < MaxSent
    BY <1>2 DEF Open, OpenFails, Check, GoSend, PeerReads, Goto, Exit, Types
  <2>3. phase \in {"opening"} \cup Between /\ phase' \in Between \cup {"ended"}
    BY <1>2 DEF Open, OpenFails, Check, GoSend, PeerReads, Goto, Exit
  <2>4. UNCHANGED <<opts, sent, clock, wake, row, emitted, delayed, prev>>
        /\ start' \in Nat
    BY <1>2 DEF Open, OpenFails, Check, PeerReads, Types
  <2> QED BY <2>1, <2>2, <2>3, <2>4 DEF Types, Rows
<1>3. CASE Send
  <2>1. UNCHANGED <<opts, stop, row, prev, start, wake, clock, delayed>>
        /\ phase = "sending" /\ phase' = "pacing" /\ exit' = exit
    BY <1>3 DEF Send, Goto
  <2>2. sent' \in Seq(Sample) /\ Len(sent') = emitted' /\ emitted' \in 1..MaxSent
    BY <1>3, <2>1, SendFacts, PublisherAssumption DEF Types
  <2>3. \A k \in DOMAIN sent' : {sent'[k].seq, sent'[k].t_ms} \subseteq Word32
    <3>1. \A k \in DOMAIN sent' : sent'[k] \in Sample BY <2>2, SeqElements
    <3> QED BY <3>1 DEF Sample
  <2>4. TypeOK' BY <2>1, <2>2, <2>3 DEF Types, TypeOK, Word32, Running
  <2> QED BY <2>1, <2>2, <2>4 DEF Types, Rows
<1>4. CASE SendFails
  <2>1. TypeOK' BY <1>4 DEF SendFails, Exit, Types, TypeOK, Running, Killed
  <2> QED BY <1>4, <2>1 DEF SendFails, Exit, Types, Rows
<1>5. CASE Pace
  <2>1. Rows[row] \in Row /\ row \in DOMAIN Rows
    <3>1. row \in 1..Len(Rows) /\ Rows \in Seq(Row) BY <1>5 DEF Pace, Types
    <3> QED BY <3>1, SeqElements
  <2>2. prev' \in Word32 \cup {None} /\ wake' \in Int
    <3>1. CASE opts.realtime
      <4>1. Rows[row].t_ms \in Word32 BY <2>1, <3>1 DEF Types, Row
      <4>2. prev # None => prev \in Int BY RecordingAssumption DEF Types, TypeOK
      <4>3. clock \in Int /\ Rows[row].t_ms \in Int
        BY <4>1, RecordingAssumption DEF Types, Word32
      <4> DEFINE t == Rows[row].t_ms
      <4> HIDE DEF t
      <4>4. prev' = t /\ wake' = IF prev = None THEN clock ELSE clock + t - prev
        BY <1>5, <3>1 DEF Pace, t
      <4>5. t \in Word32 /\ t \in Int BY <4>1, <4>3 DEF t
      <4>6. clock \in Int BY <4>3
      <4> QED BY <4>2, <4>4, <4>5, <4>6
    <3>2. CASE ~opts.realtime
      <4>1. start + emitted * Period \in Int BY PublisherAssumption DEF Types, TypeOK
      <4> QED BY <1>5, <3>2, <4>1 DEF Pace, Types, TypeOK, Word32
    <3> QED BY <3>1, <3>2
  <2>3. TypeOK' BY <1>5, <2>2 DEF Pace, Goto, Types, TypeOK, Word32, Running
  <2> QED BY <1>5, <2>2, <2>3 DEF Pace, Goto, Types, Rows
<1>6. CASE NextRow
  <2>1. row \in 1..Len(Rows) /\ Len(Rows) \in Nat BY <1>6, SeqElements DEF NextRow, Types
  <2>2. row' \in 1..Len(Rows)
    BY <1>6, <2>1 DEF NextRow, Types
  <2>3. TypeOK' BY <1>6 DEF NextRow, Goto, Exit, Types, TypeOK, Running
  <2>4. phase = "sleeping" /\ phase' \in {"checking", "ended"}
        /\ UNCHANGED <<opts, sent, clock, start, wake, emitted>>
    BY <1>6 DEF NextRow, Goto, Exit
  <2> QED BY <2>2, <2>3, <2>4 DEF Types, Rows
<1>7. CASE Interrupt
  <2>1. TypeOK' BY <1>7 DEF Interrupt, Types, TypeOK
  <2> QED BY <1>7, <2>1 DEF Interrupt, Types, Rows
<1>8. CASE Sleep \/ Delay
  <2>1. TypeOK'
    <3>1. delayed' \in 0..MaxDelay /\ UNCHANGED <<codeVars, sent>>
      BY <1>8, PublisherAssumption DEF Sleep, Delay, Types, TypeOK
    <3> QED BY <3>1 DEF codeVars, Types, TypeOK
  <2>2. clock' \in Nat /\ UNCHANGED <<codeVars, sent>> /\ phase \notin Before
    BY <1>8 DEF Sleep, Delay, Asleep, Types
  <2> QED BY <2>1, <2>2 DEF codeVars, Types, Rows
<1>9. CASE UNCHANGED vars BY <1>9 DEF vars, codeVars, Types, TypeOK, Rows
<1> QED BY <1>1, <1>2, <1>3, <1>4, <1>5, <1>6, <1>7, <1>8, <1>9 DEF Next, Replaying

-----------------------------------------------------------------------------
(* Every step but Start keeps the rows and the modes, and every one but    *)
(* Send the samples; before Start there are no samples.                    *)
LEMMA Kept ==
  ASSUME Types, [Next]_vars
  PROVE  /\ ~Start => opts' = opts
         /\ ~Send => UNCHANGED <<emitted, sent>>
         /\ emitted \in Nat /\ DOMAIN sent = 1..emitted /\ sent \in Seq(Sample)
         /\ Start => emitted' = 0 /\ emitted = 0 /\ phase' \in {"opening", "ended"}
                     /\ (phase' = "ended" => exit' # 0)
<1>1. emitted \in Nat /\ DOMAIN sent = 1..emitted /\ sent \in Seq(Sample)
  BY PublisherAssumption, SeqElements DEF Types, TypeOK
<1>2. ~Start => opts' = opts
  BY DEF Next, Replaying, vars, codeVars, Open, OpenFails, Check, GoSend, PeerReads, Send,
         SendFails, Pace, NextRow, Interrupt, Sleep, Delay
<1>3. ~Send => UNCHANGED <<emitted, sent>>
  BY DEF Next, Replaying, vars, codeVars, Start, Open, OpenFails, Check, GoSend, PeerReads,
         SendFails, Pace, NextRow, Interrupt, Sleep, Delay
<1>4. Start => emitted' = 0 /\ emitted = 0 /\ phase' \in {"opening", "ended"}
               /\ (phase' = "ended" => exit' # 0)
  BY DEF Start, Goto, Exit, Types, Before
<1> QED BY <1>1, <1>2, <1>3, <1>4

(* The row at hand and the rows sent go round and round the recording.     *)
LEMMA PlacesStep == Types /\ Types' /\ Places /\ [Next]_vars => Places'
<1> SUFFICES ASSUME Types, Types', Places, [Next]_vars PROVE Places'
  OBVIOUS
<1> USE DEF Writing, Between, After
<1> DEFINE L == Len(Rows)
<1>1. emitted \in Nat /\ DOMAIN sent = 1..emitted BY Kept
<1>2. phase \notin {"starting", "ended"} => L \in Nat \ {0} /\ row \in 1..L
  BY SeqElements DEF Types
<1>3. CASE Start
  <2>1. DOMAIN sent' = {} /\ phase' \notin Between \cup After
    BY <1>1, <1>3, Kept, SendFacts DEF Start, Types
  <2> QED BY <2>1 DEF Places
<1>4. CASE Open
  <2>1. opts' = opts /\ sent' = sent /\ emitted' = 0 /\ row' = 1 /\ phase' = "checking"
    BY <1>4 DEF Open, Goto, Types, Before
  <2>2. L \in Nat \ {0} BY <1>2, <1>4 DEF Open
  <2>3. 0 % L = 0
    <3>1. 0 \in Nat /\ 0 < L BY <2>2
    <3> HIDE DEF L
    <3> QED BY <2>2, <3>1, RemainderOfNat
  <2> HIDE DEF L
  <2>4. row' = (emitted' % L) + 1 BY <2>1, <2>3
  <2>5. Len(Rows') = L /\ phase' \notin After BY <2>1 DEF Rows, L
  <2> QED BY <2>1, <2>4, <2>5 DEF Places, L
<1>5. CASE Send
  <2>1. opts' = opts /\ row' = row /\ phase = "sending" /\ phase' = "pacing"
    BY <1>5 DEF Send, Goto
  <2>2. row = (emitted % L) + 1 /\ NextSample.row = row BY <2>1 DEF Places, NextSample
  <2>3. emitted' - 1 = emitted BY <1>1, <1>5, SendFacts
  <2> HIDE DEF L
  <2>4. ASSUME NEW k \in DOMAIN sent' PROVE sent'[k].row = ((k - 1) % L) + 1
    <3>1. CASE k \in DOMAIN sent BY <1>5, <3>1, SendFacts DEF Places, L
    <3>2. CASE k \notin DOMAIN sent
      <4>1. k = emitted + 1 /\ k - 1 = emitted BY <1>1, <1>5, <3>2, SendFacts
      <4> QED BY <1>5, <2>2, <4>1, SendFacts
    <3> QED BY <3>1, <3>2
  <2> QED BY <2>1, <2>2, <2>3, <2>4 DEF Places, L, Rows
<1>6. CASE NextRow
  <2>1. /\ opts' = opts /\ UNCHANGED <<emitted, sent>> /\ phase = "sleeping"
        /\ phase' \in {"checking", "ended"}
        /\ row' = IF row < L THEN row + 1 ELSE 1
    BY <1>6 DEF NextRow, Goto, Exit
  <2>2. row = ((emitted - 1) % L) + 1 /\ emitted > 0 /\ L \in Nat \ {0} /\ row \in 1..L
    BY <1>2, <2>1 DEF Places, Types
  <2> HIDE DEF L
  <2>3. emitted - 1 \in Int /\ emitted - 1 + 1 = emitted BY <1>1
  <2>4. (((emitted - 1) % L) + 1) % L = (emitted - 1 + 1) % L BY <2>2, <2>3, RemainderOfNext
  <2>5. row % L = emitted % L BY <2>2, <2>3, <2>4
  <2>6. row' = (emitted % L) + 1
    <3>1. CASE row < L
      <4>1. row % L = row BY <2>2, <3>1, RemainderOfNat
      <4> QED BY <2>1, <2>5, <3>1, <4>1
    <3>2. CASE ~(row < L)
      <4>1. row = L * 1 + 0 /\ 0 \in 0..(L - 1) BY <2>2, <3>2
      <4>2. (L * 1 + 0) % L = 0 BY <2>2, <4>1, RemainderIs
      <4> QED BY <2>1, <2>5, <3>2, <4>1, <4>2
    <3> QED BY <3>1, <3>2
  <2> QED BY <2>1, <2>6 DEF Places, L, Rows
<1>7. CASE Check \/ PeerReads \/ Pace \/ OpenFails \/ SendFails \/ Interrupt \/ Sleep \/ Delay
           \/ UNCHANGED vars
  <2>1. /\ opts' = opts /\ UNCHANGED <<emitted, sent, row>>
        /\ phase' \in Between => phase \in Between
        /\ phase' \in After => phase \in After
    BY <1>7 DEF Check, GoSend, PeerReads, Pace, OpenFails, SendFails, Interrupt, Sleep,
                Delay, vars, codeVars, Goto, Exit
  <2> QED BY <2>1 DEF Places, Rows
<1> QED BY <1>3, <1>4, <1>5, <1>6, <1>7 DEF Next, Replaying

(* Without --loop the count of samples keeps to the row.                   *)
LEMMA OnePassStep == Types /\ Types' /\ OnePass /\ [Next]_vars => OnePass'
<1> SUFFICES ASSUME Types, Types', OnePass, [Next]_vars, ~opts'.loop PROVE OnePass'
  BY DEF OnePass
<1> USE DEF Writing, Between, After
<1> DEFINE L == Len(Rows)
<1>1. emitted \in Nat BY Kept
<1>2. phase \notin {"starting", "ended"} \/ emitted > 0 => L \in Nat \ {0} /\ row \in 1..L
  BY SeqElements DEF Types
<1>3. CASE Start
  <2>1. emitted' = 0 /\ phase' \notin Between \cup After BY <1>3, Kept
  <2> QED BY <2>1 DEF OnePass
<1>4. CASE ~Start
  <2>1. opts' = opts /\ ~opts.loop BY <1>4, Kept
  <2>2. CASE Open
    <3>1. emitted' = 0 /\ row' = 1 /\ phase' = "checking" BY <2>2 DEF Open, Goto, Types, Before
    <3> QED BY <3>1 DEF OnePass
  <2>3. CASE Send
    <3>1. row' = row /\ phase = "sending" /\ phase' = "pacing" /\ emitted' = emitted + 1
      BY <2>3 DEF Send, Goto
    <3>2. emitted = row - 1 BY <2>1, <3>1 DEF OnePass
    <3>3. emitted' = row' /\ emitted' <= L BY <1>1, <1>2, <3>1, <3>2
    <3> QED BY <2>1, <3>1, <3>3 DEF OnePass, Rows
  <2>4. CASE NextRow
    <3>1. emitted' = emitted /\ phase = "sleeping"
          /\ \/ row' = row + 1 /\ phase' = "checking"
             \/ phase' = "ended"
      BY <2>1, <2>4 DEF NextRow, Goto, Exit
    <3>2. emitted = row BY <2>1, <3>1 DEF OnePass
    <3>3. emitted' <= L BY <1>2, <3>1, <3>2
    <3> QED BY <1>1, <2>1, <3>1, <3>2, <3>3 DEF OnePass, Rows
  <2>5. CASE Check \/ PeerReads \/ Pace \/ OpenFails \/ SendFails \/ Interrupt \/ Sleep \/ Delay
             \/ UNCHANGED vars
    <3>1. /\ UNCHANGED <<emitted, row>>
          /\ phase' \in Between => phase \in Between
          /\ phase' \in After => phase \in After
      BY <2>5 DEF Check, GoSend, PeerReads, Pace, OpenFails, SendFails, Interrupt, Sleep,
                  Delay, vars, codeVars, Goto, Exit
    <3> QED BY <2>1, <3>1 DEF OnePass, Rows
  <2> QED BY <1>4, <2>2, <2>3, <2>4, <2>5 DEF Next, Replaying
<1> QED BY <1>3, <1>4

(* Each sample carries the number it is to carry.                          *)
LEMMA NumbersStep == Types /\ Types' /\ OnePass /\ Numbers /\ [Next]_vars => Numbers'
<1> SUFFICES ASSUME Types, Types', OnePass, Numbers, [Next]_vars PROVE Numbers'
  OBVIOUS
<1>1. emitted \in Nat /\ DOMAIN sent = 1..emitted BY Kept
<1>2. CASE Start
  <2>1. sent' = sent /\ DOMAIN sent = {} BY <1>1, <1>2, Kept DEF Start
  <2> QED BY <2>1 DEF Numbers
<1>3. CASE Send
  <2>1. opts' = opts /\ phase = "sending" BY <1>3 DEF Send
  <2> SUFFICES ASSUME NEW k \in DOMAIN sent'
               PROVE  sent'[k].seq = IF opts.loop \/ Rows[k].seq = None
                                     THEN (k - 1) % Modulus ELSE Rows[k].seq
    BY <2>1 DEF Numbers, Rows
  <2>2. CASE k \in DOMAIN sent BY <1>3, <2>2, SendFacts DEF Numbers
  <2>3. CASE k \notin DOMAIN sent
    <3>1. k = emitted + 1 /\ k - 1 = emitted BY <1>1, <1>3, <2>3, SendFacts
    <3>2. sent'[k].seq = IF opts.loop \/ Rows[row].seq = None
                         THEN emitted % Modulus ELSE Rows[row].seq
      BY <1>3, <3>1, SendFacts DEF NextSample
    <3>3. ~opts.loop => row = k
      <4>1. ~opts.loop => emitted = row - 1 BY <2>1 DEF OnePass, Between, Writing
      <4>2. row \in Nat BY DEF Types
      <4> QED BY <3>1, <4>1, <4>2
    <3> QED BY <3>1, <3>2, <3>3
  <2> QED BY <2>2, <2>3
<1>4. CASE ~Start /\ ~Send
  <2>1. opts' = opts /\ sent' = sent BY <1>4, Kept
  <2> QED BY <2>1 DEF Numbers, Rows
<1> QED BY <1>2, <1>3, <1>4

(* --count is never exceeded, and a replay that ends has sent it all.      *)
LEMMA AmountStep == Types /\ Types' /\ OnePass /\ Amount /\ [Next]_vars => Amount'
<1> SUFFICES ASSUME Types, Types', OnePass, Amount, [Next]_vars PROVE Amount'
  OBVIOUS
<1> USE DEF Writing
<1> DEFINE L == Len(Rows)
<1>1. emitted \in Nat /\ emitted' \in Nat BY PublisherAssumption DEF Types, TypeOK
<1>2. phase \notin {"starting", "ended"} => L \in Nat \ {0} /\ row \in 1..L
  BY SeqElements DEF Types
<1>3. opts.count # None => opts.count \in Int BY DEF Types
<1>4. exit = 0 => phase = "ended" BY DEF Types, TypeOK, Running
<1>5. CASE Start
  <2>1. emitted' = 0 /\ phase' \notin Writing BY <1>5, Kept
  <2> QED BY <2>1 DEF Amount
<1>6. CASE Check
  <2>1. /\ opts' = opts /\ UNCHANGED <<emitted, stop>> /\ phase = "checking"
        /\ \/ phase' = "ended" /\ (stop \/ CountReached)
           \/ phase' \in Writing /\ ~CountReached /\ exit' = exit
    BY <1>6 DEF Check, GoSend, Goto, Exit
  <2>2. CASE phase' \in Writing
    <3>1. opts.count # None => emitted < opts.count
      BY <1>1, <1>3, <2>1, <2>2 DEF CountReached
    <3>2. exit' # 0 BY <1>4, <2>1, <2>2
    <3> QED BY <1>1, <1>3, <2>1, <2>2, <3>1, <3>2 DEF Amount
  <2>3. CASE phase' = "ended" /\ CountReached /\ emitted > 0
    <3>1. opts.count # None /\ emitted = opts.count
      BY <1>1, <1>3, <2>3 DEF Amount, CountReached
    <3>2. ~opts.loop => emitted < L
      <4>1. ~opts.loop => emitted = row - 1 BY <2>1 DEF OnePass, Between
      <4> QED BY <1>2, <2>1, <4>1
    <3>3. L \in Nat BY <1>2, <2>1
    <3>4. opts.loop \/ opts.count < L BY <3>1, <3>2
    <3> QED BY <1>1, <1>3, <2>1, <2>3, <3>1, <3>4 DEF Amount, Rows
  <2>4. CASE phase' = "ended" /\ (stop \/ emitted = 0)
    BY <1>1, <2>1, <2>4 DEF Amount
  <2> QED BY <1>1, <2>1, <2>2, <2>3, <2>4
<1>7. CASE Send
  <2>1. /\ opts' = opts /\ emitted' = emitted + 1 /\ phase = "sending" /\ phase' = "pacing"
        /\ exit' = exit
    BY <1>7 DEF Send, Goto
  <2>2. opts.count # None => emitted' <= opts.count
    BY <1>1, <1>3, <2>1 DEF Amount
  <2> QED BY <1>4, <2>1, <2>2 DEF Amount
<1>8. CASE NextRow
  <2>1. /\ opts' = opts /\ UNCHANGED <<emitted, stop>> /\ phase = "sleeping"
        /\ \/ phase' = "checking" /\ exit' = exit
           \/ phase' = "ended" /\ ~opts.loop /\ ~(row < L)
    BY <1>8 DEF NextRow, Goto, Exit
  <2>2. CASE phase' = "checking" BY <1>4, <2>1, <2>2 DEF Amount
  <2>3. CASE phase' = "ended"
    <3>1. ~opts.loop /\ emitted = row BY <2>1, <2>3 DEF OnePass, After
    <3>2. emitted = L BY <1>2, <2>1, <2>3, <3>1
    <3>3. opts.count # None => emitted <= opts.count BY <2>1 DEF Amount, Types, After
    <3>4. opts.count # None => ~(opts.count < L) BY <1>1, <1>3, <3>2, <3>3
    <3> QED BY <2>1, <2>3, <3>1, <3>2, <3>3, <3>4 DEF Amount, Rows
  <2> QED BY <2>1, <2>2, <2>3
<1>9. CASE Open \/ OpenFails \/ PeerReads \/ SendFails \/ Pace
  <2>1. /\ opts' = opts /\ UNCHANGED <<emitted, stop>>
        /\ (phase' \in Writing => phase \in Writing)
        /\ exit' = 0 => exit = 0
    BY <1>9 DEF Open, OpenFails, PeerReads, SendFails, Pace, Goto, Exit, Killed
  <2> QED BY <2>1 DEF Amount, Rows
<1>10. CASE Interrupt
  <2>1. opts' = opts /\ UNCHANGED <<emitted, phase, exit>> /\ phase # "ended"
    BY <1>10 DEF Interrupt
  <2> QED BY <1>4, <2>1 DEF Amount
<1>11. CASE Sleep \/ Delay \/ UNCHANGED vars
  <2>1. UNCHANGED <<opts, emitted, phase, exit, stop>>
    BY <1>11 DEF Sleep, Delay, vars, codeVars
  <2> QED BY <2>1 DEF Amount, Rows
<1> QED BY <1>5, <1>6, <1>7, <1>8, <1>9, <1>10, <1>11 DEF Next, Replaying

-----------------------------------------------------------------------------
(* The time of the last sample and of the next one.                        *)
LEMMA Times ==
  ASSUME Types
  PROVE  /\ LastAt \in Int /\ Held \in Int /\ Due \in Int /\ Earliest \in Int
         /\ LastAt <= Earliest /\ Due <= Earliest /\ Earliest \in {LastAt, Due}
         /\ emitted = 0 => LastAt = start /\ Due = start /\ Held = delayed
<1>1. emitted \in Nat /\ start \in Int /\ delayed \in Int
  BY PublisherAssumption DEF Types, TypeOK
<1>2. emitted # 0 => sent[emitted].at \in Int /\ sent[emitted].delayed \in Int
  <2>1. emitted # 0 => emitted \in DOMAIN sent BY <1>1, SeqElements DEF Types, TypeOK
  <2>2. emitted # 0 => sent[emitted] \in Sample BY <2>1, SeqElements DEF Types
  <2> QED BY <2>2 DEF Sample
<1>3. LastAt \in Int /\ (emitted = 0 => LastAt = start) BY <1>1, <1>2 DEF LastAt
<1>4. Held \in Int /\ (emitted = 0 => Held = delayed) BY <1>1, <1>2 DEF Held
<1>5. Due \in Int /\ (emitted = 0 => Due = start)
  <2>1. emitted * Period \in Int /\ 0 * Period = 0 BY <1>1, PublisherAssumption
  <2> QED BY <1>1, <2>1 DEF Due
<1>6. Earliest \in {LastAt, Due} /\ LastAt <= Earliest /\ Due <= Earliest
  BY <1>3, <1>5 DEF Earliest
<1> QED BY <1>3, <1>4, <1>5, <1>6

(* Between two samples only the delays are counted on.                     *)
LEMMA TimesKept ==
  ASSUME Types, [Next]_vars, ~Open, ~Send
  PROVE  /\ LastAt' = LastAt /\ Due' = Due /\ Earliest' = Earliest
         /\ Held' = Held + (delayed' - delayed)
<1>1. UNCHANGED <<emitted, sent>> BY Kept
<1>2. start' = start
  BY DEF Next, Replaying, vars, codeVars, Start, OpenFails, Check, GoSend, PeerReads,
         SendFails, Pace, NextRow, Interrupt, Sleep, Delay
<1>3. delayed' \in Int /\ delayed \in Int
  BY DEF Types, TypeOK, Next, Replaying, vars, codeVars, Start, OpenFails, Check, GoSend,
         PeerReads, SendFails, Pace, NextRow, Interrupt, Sleep, Delay
<1>4. LastAt' = LastAt /\ Due' = Due BY <1>1, <1>2 DEF LastAt, Due
<1>5. Earliest' = Earliest BY <1>4 DEF Earliest
<1>6. Held' = Held + (delayed' - delayed)
  <2> DEFINE d == IF emitted = 0 THEN 0 ELSE sent[emitted].delayed
  <2>1. Held = delayed - d BY DEF Held
  <2>2. Held' = delayed' - d BY <1>1 DEF Held
  <2>3. d \in Int
    <3>1. emitted # 0 => emitted \in DOMAIN sent /\ sent \in Seq(Sample) BY Kept
    <3>2. emitted # 0 => sent[emitted] \in Sample BY <3>1, SeqElements
    <3> QED BY <3>2 DEF Sample
  <2> HIDE DEF d
  <2> QED BY <1>3, <2>1, <2>2, <2>3
<1> QED BY <1>4, <1>5, <1>6

(* At a fixed rate, one sample.                                            *)
OnTime(samples, began, k) ==
  LET due      == began + (k - 1) * Period
      earliest == IF k > 1 /\ samples[k - 1].at > due THEN samples[k - 1].at ELSE due
      held     == samples[k].delayed - (IF k > 1 THEN samples[k - 1].delayed ELSE 0)
  IN  samples[k].at \in earliest..(earliest + held)

(* No step sends a sample off its schedule.                                *)
LEMMA ScheduleStep == Types /\ Types' /\ Schedule /\ [Next]_vars => Schedule'
<1> SUFFICES ASSUME Types, Types', Schedule, [Next]_vars, ~opts'.realtime PROVE Schedule'
  BY DEF Schedule
<1> USE DEF Writing, Between
<1>1. emitted \in Nat /\ DOMAIN sent = 1..emitted BY Kept
<1>2. clock \in Int /\ clock' \in Int /\ delayed \in Int BY DEF Types, TypeOK
<1>3. CASE Start
  <2>1. DOMAIN sent' = {} /\ phase' \notin Between \cup {"pacing", "sleeping"}
    BY <1>1, <1>3, Kept DEF Start
  <2> QED BY <2>1 DEF Schedule, OnSchedule
<1>4. CASE Open
  <2>1. emitted' = 0 /\ clock' = clock /\ start' = clock /\ delayed' = 0 /\ phase' = "checking"
        /\ DOMAIN sent' = {}
    BY <1>1, <1>4 DEF Open, Goto, Types, Before
  <2>2. LastAt' = start' /\ Due' = start' /\ Held' = 0 /\ Earliest' \in {LastAt', Due'}
    <3>1. LastAt' = start' /\ Held' = 0 BY <2>1 DEF LastAt, Held
    <3>2. Due' = start'
      <4>1. clock + 0 * Period = clock BY <1>2, PublisherAssumption
      <4> QED BY <2>1, <4>1 DEF Due
    <3>3. Earliest' \in {LastAt', Due'} BY DEF Earliest
    <3> QED BY <3>1, <3>2, <3>3
  <2>3. clock' \in Earliest'..(Earliest' + Held')
    <3>1. Earliest' = clock BY <2>1, <2>2
    <3> QED BY <1>2, <2>1, <2>2, <3>1
  <2> QED BY <2>1, <2>3 DEF Schedule, OnSchedule
<1>5. CASE Send
  <2>1. /\ opts' = opts /\ start' = start /\ clock' = clock /\ delayed' = delayed
        /\ phase = "sending" /\ phase' = "pacing" /\ emitted' = emitted + 1
    BY <1>5 DEF Send, Goto
  <2>2. clock \in Earliest..(Earliest + Held) /\ \A k \in DOMAIN sent : OnTime(sent, start, k)
    BY <2>1 DEF Schedule, OnSchedule, OnTime
  <2>3. sent'[emitted + 1].at = clock /\ sent'[emitted + 1].delayed = delayed
    BY <1>5, SendFacts DEF NextSample
  <2>4. ASSUME NEW k \in DOMAIN sent' PROVE OnTime(sent', start, k)
    <3>1. CASE k \in DOMAIN sent
      <4>1. k > 1 => k - 1 \in DOMAIN sent BY <1>1, <3>1
      <4>2. sent'[k] = sent[k] /\ (k > 1 => sent'[k - 1] = sent[k - 1])
        BY <1>5, <3>1, <4>1, SendFacts
      <4> QED BY <2>2, <3>1, <4>2 DEF OnTime
    <3>2. CASE k \notin DOMAIN sent
      <4>1. k = emitted + 1 /\ k - 1 = emitted /\ (k > 1 <=> emitted # 0)
        BY <1>1, <1>5, <3>2, SendFacts
      <4>2. emitted # 0 => emitted \in DOMAIN sent /\ sent'[emitted] = sent[emitted]
        BY <1>1, <1>5, SendFacts
      <4>3. Earliest = IF k > 1 /\ sent'[k - 1].at > Due THEN sent'[k - 1].at ELSE Due
        <5>1. CASE emitted # 0 BY <4>1, <4>2, <5>1 DEF Earliest, LastAt
        <5>2. CASE emitted = 0
          <6>1. LastAt = Due BY <5>2, Times
          <6> QED BY <4>1, <5>2, <6>1, Times
        <5> QED BY <5>1, <5>2
      <4>4. Held = sent'[k].delayed - (IF k > 1 THEN sent'[k - 1].delayed ELSE 0)
        BY <2>3, <4>1, <4>2 DEF Held
      <4>5. Due = start + (k - 1) * Period BY <4>1 DEF Due
      <4> QED BY <2>2, <2>3, <4>1, <4>3, <4>4, <4>5 DEF OnTime
    <3> QED BY <3>1, <3>2
  <2>5. LastAt' = clock /\ Held' = 0
    BY <1>1, <1>2, <2>1, <2>3 DEF LastAt, Held
  <2>6. clock' \in LastAt'..(LastAt' + Held') BY <1>2, <2>1, <2>5
  <2> QED BY <2>1, <2>4, <2>6 DEF Schedule, OnSchedule, OnTime
<1>6. CASE ~Start /\ ~Open /\ ~Send
  <2>1. opts' = opts /\ sent' = sent BY <1>6, Kept
  <2>2. start' = start
    BY <1>6 DEF Next, Replaying, vars, codeVars, OpenFails, Check, GoSend, PeerReads,
                SendFails, Pace, NextRow, Interrupt, Sleep, Delay
  <2>3. OnSchedule' BY <2>1, <2>2 DEF Schedule, OnSchedule
  <2>4. /\ LastAt' = LastAt /\ Due' = Due /\ Earliest' = Earliest
        /\ Held' = Held + (delayed' - delayed)
    BY <1>6, TimesKept
  <2>5. /\ LastAt \in Int /\ Held \in Int /\ Due \in Int /\ Earliest \in Int
        /\ LastAt <= Earliest /\ Due <= Earliest /\ Earliest \in {LastAt, Due}
    BY Times
  <2>6. CASE Check \/ PeerReads \/ SendFails \/ OpenFails
    <3>1. UNCHANGED <<clock, delayed>> /\ phase' \in Writing \cup {"ended"}
          /\ (phase' \in Writing => phase \in Between)
      BY <2>6 DEF Check, GoSend, PeerReads, SendFails, OpenFails, Goto, Exit
    <3>2. Held' = Held BY <1>2, <2>4, <2>5, <3>1
    <3> QED BY <2>1, <2>3, <2>4, <3>1, <3>2 DEF Schedule
  <2>7. CASE Pace
    <3>1. UNCHANGED <<clock, delayed>> /\ phase = "pacing" /\ phase' = "sleeping"
          /\ wake' = start + emitted * Period
      BY <2>1, <2>7 DEF Pace, Goto
    <3>2. wake' = Due' /\ clock \in LastAt..(LastAt + Held) BY <2>1, <2>4, <3>1 DEF Due, Schedule
    <3>3. Held' = Held BY <1>2, <2>4, <2>5, <3>1
    <3>4. clock' \in LastAt'..(Earliest' + Held') /\ Held' >= 0
      BY <1>2, <2>4, <2>5, <3>1, <3>2, <3>3
    <3> QED BY <2>3, <3>1, <3>2, <3>4 DEF Schedule
  <2>8. CASE NextRow
    <3>1. UNCHANGED <<clock, delayed>> /\ phase = "sleeping" /\ phase' \in {"checking", "ended"}
          /\ clock >= wake
      BY <2>8 DEF NextRow, Goto, Exit
    <3>2. wake = Due /\ clock \in LastAt..(Earliest + Held) BY <2>1, <3>1 DEF Schedule
    <3>3. Held' = Held BY <1>2, <2>4, <2>5, <3>1
    <3>4. clock' \in Earliest'..(Earliest' + Held') BY <1>2, <2>4, <2>5, <3>1, <3>2, <3>3
    <3> QED BY <2>3, <3>1, <3>4 DEF Schedule
  <2>9. CASE Interrupt \/ UNCHANGED vars
    <3>1. UNCHANGED <<clock, delayed, phase, wake>> BY <2>9 DEF Interrupt, vars, codeVars
    <3>2. Held' = Held BY <1>2, <2>4, <2>5, <3>1
    <3> QED BY <2>1, <2>3, <2>4, <3>1, <3>2 DEF Schedule
  <2>10. CASE Sleep
    <3>1. clock' = clock + 1 /\ clock < wake /\ phase = "sleeping" /\ phase' = phase
          /\ wake' = wake /\ delayed' = delayed
      BY <2>10 DEF Sleep, Asleep, codeVars
    <3>2. wake = Due /\ clock \in LastAt..(Earliest + Held) /\ Held >= 0
      BY <2>1, <3>1 DEF Schedule
    <3>3. Held' = Held /\ wake' = Due' BY <1>2, <2>4, <2>5, <3>1, <3>2
    <3>4. clock' \in LastAt'..(Earliest' + Held') BY <1>2, <2>4, <2>5, <3>1, <3>2, <3>3
    <3> QED BY <2>3, <3>1, <3>2, <3>3, <3>4 DEF Schedule
  <2>11. CASE Delay
    <3>1. clock' = clock + 1 /\ delayed' = delayed + 1 /\ phase' = phase /\ wake' = wake
          /\ (phase = "sleeping" => ~(clock < wake))
      BY <2>11 DEF Delay, Asleep, codeVars
    <3>2. Held' = Held + 1 BY <1>2, <2>4, <2>5, <3>1
    <3>3. phase \in Between => clock' \in Earliest'..(Earliest' + Held')
      <4>1. phase \in Between => clock \in Earliest..(Earliest + Held) BY <2>1 DEF Schedule
      <4> QED BY <1>2, <2>4, <2>5, <3>1, <3>2, <4>1
    <3>4. phase = "pacing" => clock' \in LastAt'..(LastAt' + Held')
      <4>1. phase = "pacing" => clock \in LastAt..(LastAt + Held) BY <2>1 DEF Schedule
      <4> QED BY <1>2, <2>4, <2>5, <3>1, <3>2, <4>1
    <3>5. phase = "sleeping" =>
            wake' = Due' /\ clock' \in LastAt'..(Earliest' + Held') /\ Held' >= 0
      <4>1. phase = "sleeping" =>
              wake = Due /\ clock \in LastAt..(Earliest + Held) /\ Held >= 0
        BY <2>1 DEF Schedule
      <4> QED BY <1>2, <2>4, <2>5, <3>1, <3>2, <4>1
    <3> QED BY <2>3, <3>1, <3>3, <3>4, <3>5 DEF Schedule
  <2> QED BY <1>6, <2>6, <2>7, <2>8, <2>9, <2>10, <2>11 DEF Next, Replaying
<1> QED BY <1>3, <1>4, <1>5, <1>6

-----------------------------------------------------------------------------
(* With --realtime every row has a time, so the gap after it is a number.  *)
LEMMA GapIs ==
  ASSUME Types, opts.realtime, NEW n \in DOMAIN Rows
  PROVE  /\ Rows[n].t_ms \in Int /\ Rows[n].t_ms # None
         /\ n # 1 => Rows[n - 1].t_ms \in Int /\ Rows[n - 1].t_ms # None
         /\ GapBefore(n) \in Nat
<1>1. DOMAIN Rows = 1..Len(Rows) /\ Len(Rows) \in Nat BY SeqElements DEF Types
<1>2. \A i \in DOMAIN Rows : Rows[i].t_ms \in Int /\ Rows[i].t_ms # None
  <2> SUFFICES ASSUME NEW i \in DOMAIN Rows PROVE Rows[i].t_ms \in Int /\ Rows[i].t_ms # None
    OBVIOUS
  <2>1. Rows[i] \in Row BY SeqElements DEF Types
  <2>2. Rows[i].t_ms # None BY DEF Types
  <2> QED BY <2>1, <2>2, RecordingAssumption DEF Row, Word32
<1>3. n # 1 => n - 1 \in DOMAIN Rows BY <1>1
<1> QED BY <1>2, <1>3 DEF GapBefore

(* Every sample sent has a row of the recording.                           *)
LEMMA RowSent ==
  ASSUME Types, Places, NEW k \in DOMAIN sent
  PROVE  sent[k].row \in DOMAIN Rows
<1> DEFINE L == Len(Rows)
           i == k - 1
           r == i % L
<1>1. emitted \in Nat /\ k \in 1..emitted
  BY PublisherAssumption, SeqElements DEF Types, TypeOK
<1>2. L \in Nat \ {0} /\ DOMAIN Rows = 1..L BY <1>1, SeqElements DEF Types
<1>3. i \in Int /\ sent[k].row = r + 1 BY <1>1 DEF Places
<1> HIDE DEF L, i
<1>4. r \in 0..(L - 1) BY <1>2, <1>3, Division
<1> HIDE DEF r
<1> QED BY <1>2, <1>3, <1>4

(* With --realtime, two samples in a row.                                  *)
Apart(samples, k) ==
  samples[k].at - samples[k - 1].at
    = GapBefore(samples[k - 1].row) + samples[k].delayed - samples[k - 1].delayed

(* The gap property, pair by pair of neighbouring samples.                 *)
LEMMA GapsAre == opts.realtime =>
  (GapsKeptOneLate <=> \A k \in DOMAIN sent \ {1} : Apart(sent, k))
BY DEF GapsKeptOneLate, Apart, GapBefore

(* No step disturbs the gaps between neighbouring samples.                 *)
LEMMA GapsStep == Types /\ Types' /\ Places /\ Gaps /\ [Next]_vars => Gaps'
<1> SUFFICES ASSUME Types, Types', Places, Gaps, [Next]_vars, opts'.realtime PROVE Gaps'
  BY DEF Gaps
<1> USE DEF Writing, Between
<1>1. emitted \in Nat /\ DOMAIN sent = 1..emitted BY Kept
<1>2. clock \in Int /\ delayed \in Int BY DEF Types, TypeOK
<1>3. phase \notin {"starting", "ended"} \/ emitted > 0 =>
        row \in DOMAIN Rows /\ DOMAIN Rows = 1..Len(Rows) /\ Len(Rows) \in Nat
  BY SeqElements DEF Types
<1>4. /\ LastAt \in Int /\ Held \in Int
  BY Times
<1>5. CASE Start
  <2>1. DOMAIN sent' = {} /\ phase' \notin Between \cup {"pacing", "sleeping"}
    BY <1>1, <1>5, Kept DEF Start
  <2> QED BY <2>1 DEF Gaps, GapsKeptOneLate
<1>6. CASE Open
  <2>1. emitted' = 0 /\ phase' = "checking" /\ DOMAIN sent' = {} /\ prev' = None /\ row' = 1
    BY <1>1, <1>6 DEF Open, Goto, Types, Before
  <2> QED BY <2>1 DEF Gaps, GapsKeptOneLate
<1>7. CASE Send
  <2>1. /\ opts' = opts /\ opts.realtime
        /\ UNCHANGED <<clock, delayed, row, prev>>
        /\ phase = "sending" /\ phase' = "pacing" /\ emitted' = emitted + 1
    BY <1>7 DEF Send, Goto
  <2>2. \A k \in DOMAIN sent \ {1} : Apart(sent, k) BY <2>1, GapsAre DEF Gaps
  <2>3. sent'[emitted + 1].at = clock /\ sent'[emitted + 1].delayed = delayed
    BY <1>7, SendFacts DEF NextSample
  <2>4. ASSUME NEW k \in DOMAIN sent' \ {1} PROVE Apart(sent', k)
    <3>1. CASE k \in DOMAIN sent
      <4>1. k - 1 \in DOMAIN sent BY <1>1, <3>1
      <4>2. sent'[k] = sent[k] /\ sent'[k - 1] = sent[k - 1] BY <1>7, <3>1, <4>1, SendFacts
      <4> QED BY <2>2, <3>1, <4>2 DEF Apart
    <3>2. CASE k \notin DOMAIN sent
      <4>1. k = emitted + 1 /\ k - 1 = emitted /\ emitted \in DOMAIN sent /\ emitted > 0
        BY <1>1, <1>7, <3>2, SendFacts
      <4>2. sent'[k - 1] = sent[emitted] BY <1>7, <4>1, SendFacts
      <4> DEFINE last == sent[emitted]
      <4>3. last.row \in DOMAIN Rows /\ last.at \in Int /\ last.delayed \in Int
        <5>1. last \in Sample BY <4>1, SeqElements DEF Types
        <5>2. last.row \in DOMAIN Rows BY <4>1, RowSent
        <5> QED BY <5>1, <5>2 DEF Sample
      <4>4. GapBefore(last.row) \in Int BY <2>1, <4>3, GapIs
      <4>5. clock = LastAt + Held + GapBefore(last.row) BY <2>1, <4>1 DEF Gaps
      <4>6. LastAt = last.at /\ Held = delayed - last.delayed BY <4>1 DEF LastAt, Held
      <4> DEFINE gap == GapBefore(last.row)
      <4>7. Apart(sent', k) <=> clock - last.at = gap + delayed - last.delayed
        BY <2>3, <4>1, <4>2 DEF Apart
      <4> HIDE DEF gap, last
      <4> QED BY <1>2, <4>3, <4>4, <4>5, <4>6, <4>7 DEF gap
    <3> QED BY <3>1, <3>2
  <2>5. GapsKeptOneLate'
    <3>1. Rows' = Rows BY <2>1 DEF Rows
    <3> QED BY <2>4, <3>1 DEF GapsKeptOneLate, Apart, GapBefore
  <2>6. LastAt' = clock /\ Held' = 0 BY <1>1, <1>2, <2>1, <2>3 DEF LastAt, Held
  <2>7. clock' = LastAt' + Held' BY <1>2, <2>1, <2>6
  <2>8. prev' = IF row' = 1 THEN None ELSE Rows'[row' - 1].t_ms BY <2>1 DEF Gaps, Rows
  <2> QED BY <2>1, <2>5, <2>7, <2>8 DEF Gaps
<1>8. CASE ~Start /\ ~Open /\ ~Send
  <2>1. opts' = opts /\ UNCHANGED <<sent, emitted>> /\ opts.realtime BY <1>8, Kept
  <2>2. GapsKeptOneLate' BY <2>1 DEF Gaps, GapsKeptOneLate, GapBefore, Rows
  <2>3. Rows' = Rows /\ \A n : GapBefore(n)' = GapBefore(n) BY <2>1 DEF Rows, GapBefore
  <2>4. LastAt' = LastAt /\ Held' = Held + (delayed' - delayed) BY <1>8, TimesKept
  <2>5. row \in DOMAIN Rows =>
          /\ Rows[row].t_ms \in Int /\ Rows[row].t_ms # None /\ GapBefore(row) \in Int
          /\ row # 1 => Rows[row - 1].t_ms \in Int /\ Rows[row - 1].t_ms # None
    BY <2>1, GapIs
  <2>6. CASE Check \/ PeerReads \/ SendFails \/ OpenFails
    <3>1. UNCHANGED <<clock, delayed, prev, row>> /\ phase' \in Writing \cup {"ended"}
          /\ (phase' \in Writing => phase \in Between)
      BY <2>6 DEF Check, GoSend, PeerReads, SendFails, OpenFails, Goto, Exit
    <3>2. Held' = Held BY <1>2, <1>4, <2>4, <3>1
    <3> QED BY <2>1, <2>2, <2>3, <2>4, <3>1, <3>2 DEF Gaps, GapBefore
  <2>7. CASE Pace
    <3> DEFINE t == Rows[row].t_ms
               p == Rows[row - 1].t_ms
    <3>1. /\ UNCHANGED <<clock, delayed, row>> /\ phase = "pacing" /\ phase' = "sleeping"
          /\ wake' = (IF prev = None THEN clock ELSE clock + t - prev) /\ prev' = t
      BY <2>1, <2>7 DEF Pace, Goto
    <3>2. clock = LastAt + Held /\ prev = IF row = 1 THEN None ELSE p
      BY <2>1, <3>1 DEF Gaps
    <3>3. Held' = Held BY <1>2, <1>4, <2>4, <3>1
    <3>4. t \in Int /\ (row # 1 => p \in Int /\ p # None) BY <1>3, <2>5, <3>1
    <3>5. GapBefore(row) = IF row = 1 \/ t < p THEN 0 ELSE t - p BY DEF GapBefore
    <3>6. prev' = Rows'[row'].t_ms BY <2>3, <3>1
    <3> HIDE DEF t, p
    <3>7. IF clock < wake' THEN wake' = LastAt + Held + GapBefore(row)
          ELSE clock = LastAt + Held + GapBefore(row)
      <4>1. CASE row = 1 BY <1>2, <1>4, <3>1, <3>2, <3>5, <4>1
      <4>2. CASE row # 1
        <5>1. wake' = clock + t - p BY <3>1, <3>2, <3>4, <4>2
        <5>2. GapBefore(row) = IF t < p THEN 0 ELSE t - p BY <3>5, <4>2
        <5>3. t \in Int /\ p \in Int BY <3>4, <4>2
        <5> QED BY <1>2, <1>4, <3>2, <5>1, <5>2, <5>3
      <4> QED BY <4>1, <4>2
    <3>8. GapBefore(row') = GapBefore(row) /\ GapBefore(row)' = GapBefore(row)
      BY <2>3, <3>1 DEF GapBefore
    <3> QED BY <2>2, <2>3, <2>4, <3>1, <3>3, <3>6, <3>7, <3>8 DEF Gaps
  <2>8. CASE NextRow
    <3>1. /\ UNCHANGED <<clock, delayed>> /\ phase = "sleeping" /\ clock >= wake
          /\ phase' \in {"checking", "ended"}
          /\ \/ row < Len(Rows) /\ row' = row + 1 /\ prev' = prev
             \/ row' = 1 /\ prev' = None
      BY <2>8 DEF NextRow, Goto, Exit
    <3>2. prev = Rows[row].t_ms /\ IF clock < wake THEN wake = LastAt + Held + GapBefore(row)
                                   ELSE clock = LastAt + Held + GapBefore(row)
      BY <2>1, <3>1 DEF Gaps
    <3>3. clock = LastAt + Held + GapBefore(row)
      <4>1. wake \in Int BY DEF Types
      <4> QED BY <1>2, <3>1, <3>2, <4>1
    <3>4. row \in Nat /\ row >= 1 BY <1>3, <3>1
    <3>5. prev' = IF row' = 1 THEN None ELSE Rows'[row' - 1].t_ms
      BY <2>3, <3>1, <3>2, <3>4
    <3>6. sent[emitted].row = row
      <4>1. emitted \in DOMAIN sent BY <1>1, <3>1 DEF Types, After
      <4> QED BY <3>1, <4>1 DEF Places, After
    <3>7. Held' = Held BY <1>2, <1>4, <2>4, <3>1
    <3> DEFINE n == sent[emitted].row
    <3>8. sent'[emitted'].row = n /\ GapBefore(n)' = GapBefore(n) /\ n = row
      BY <2>1, <2>3, <3>6 DEF GapBefore
    <3>9. clock' = LastAt' + Held' + GapBefore(sent[emitted].row)'
      BY <2>1, <2>3, <2>4, <3>1, <3>3, <3>6, <3>7 DEF GapBefore
    <3> QED BY <2>1, <2>2, <3>1, <3>5, <3>9 DEF Gaps
  <2>9. CASE Interrupt \/ UNCHANGED vars
    <3>1. UNCHANGED <<clock, delayed, phase, wake, prev, row>>
      BY <2>9 DEF Interrupt, vars, codeVars
    <3>2. Held' = Held BY <1>2, <1>4, <2>4, <3>1
    <3> QED BY <2>1, <2>2, <2>3, <2>4, <3>1, <3>2 DEF Gaps, GapBefore
  <2>10. CASE Sleep
    <3>1. clock' = clock + 1 /\ clock < wake /\ phase = "sleeping"
          /\ UNCHANGED <<phase, wake, delayed, prev, row>>
      BY <2>10 DEF Sleep, Asleep, codeVars
    <3>2. prev = Rows[row].t_ms /\ wake = LastAt + Held + GapBefore(row)
      BY <2>1, <3>1 DEF Gaps
    <3>3. Held' = Held BY <1>2, <1>4, <2>4, <3>1
    <3>4. IF clock' < wake' THEN wake' = LastAt + Held + GapBefore(row)
          ELSE clock' = LastAt + Held + GapBefore(row)
      <4>1. wake \in Int BY DEF Types
      <4> QED BY <1>2, <3>1, <3>2, <4>1
    <3>5. GapBefore(row)' = GapBefore(row) BY <2>3, <3>1 DEF GapBefore
    <3> QED BY <2>2, <2>3, <2>4, <3>1, <3>2, <3>3, <3>4, <3>5 DEF Gaps
  <2>11. CASE Delay
    <3>1. clock' = clock + 1 /\ delayed' = delayed + 1
          /\ UNCHANGED <<phase, wake, prev, row>>
          /\ (phase = "sleeping" => ~(clock < wake))
      BY <2>11 DEF Delay, Asleep, codeVars
    <3>2. Held' = Held + 1 BY <1>2, <1>4, <2>4, <3>1
    <3>3. wake \in Int BY DEF Types
    <3>4. phase \in Between /\ emitted > 0 =>
            clock' = LastAt' + Held' + GapBefore(sent[emitted].row)'
      <4> SUFFICES ASSUME phase \in Between, emitted > 0
                   PROVE  clock' = LastAt' + Held' + GapBefore(sent[emitted].row)'
        OBVIOUS
      <4> DEFINE gap == GapBefore(sent[emitted].row)
      <4>1. gap' = gap BY <2>1, <2>3 DEF GapBefore
      <4>2. clock = LastAt + Held + gap BY <2>1 DEF Gaps
      <4>3. gap \in Int
        <5>1. emitted \in DOMAIN sent BY <1>1
        <5> QED BY <2>1, <5>1, GapIs, RowSent
      <4> HIDE DEF gap
      <4>4. clock' = LastAt' + Held' + gap BY <1>2, <1>4, <2>4, <3>1, <3>2, <4>2, <4>3
      <4> QED BY <4>1, <4>4 DEF gap
    <3>5. phase = "pacing" => clock' = LastAt' + Held'
      <4>1. phase = "pacing" => clock = LastAt + Held BY <2>1 DEF Gaps
      <4> QED BY <1>2, <1>4, <2>4, <3>1, <3>2, <4>1
    <3>6. phase = "sleeping" =>
            /\ prev = Rows[row].t_ms /\ ~(clock' < wake')
            /\ clock' = LastAt' + Held' + GapBefore(row)
      <4>1. phase = "sleeping" => prev = Rows[row].t_ms /\ clock = LastAt + Held + GapBefore(row)
        BY <2>1, <3>1 DEF Gaps
      <4>2. phase = "sleeping" => GapBefore(row) \in Int BY <1>3, <2>5
      <4> QED BY <1>2, <1>4, <2>4, <3>1, <3>2, <3>3, <4>1, <4>2
    <3>7. GapBefore(row)' = GapBefore(row) BY <2>3, <3>1 DEF GapBefore
    <3>8. phase \in Between \cup {"pacing"} =>
            prev' = IF row' = 1 THEN None ELSE Rows'[row' - 1].t_ms
      BY <2>1, <2>3, <3>1 DEF Gaps
    <3> QED BY <2>1, <2>2, <2>3, <3>1, <3>4, <3>5, <3>6, <3>7, <3>8 DEF Gaps
  <2> QED BY <1>8, <2>6, <2>7, <2>8, <2>9, <2>10, <2>11 DEF Next, Replaying
<1> QED BY <1>5, <1>6, <1>7, <1>8

-----------------------------------------------------------------------------
(* All of it together: how far the replay is in the recording, and how long*)
(* ago the last sample was sent.                                           *)
LEMMA InitIInv == Init => IInv
<1> SUFFICES ASSUME Init PROVE IInv
  OBVIOUS
<1>1. Types BY TypeInit
<1>2. phase = "starting" /\ emitted = 0 /\ sent = <<>> /\ exit # 0 /\ opts.realtime = FALSE
  BY DEF Init, Options, Running
<1>3. DOMAIN sent = {} BY <1>2
<1>4. Places /\ OnePass /\ Numbers /\ Amount
  BY <1>2, <1>3 DEF Places, OnePass, Numbers, Amount, Writing, Between, After
<1>5. Schedule /\ Gaps BY <1>2, <1>3 DEF Schedule, OnSchedule, Gaps, Writing, Between
<1> QED BY <1>1, <1>4, <1>5 DEF IInv

(* No step breaks the inductive invariant.                                 *)
LEMMA StepIInv == IInv /\ [Next]_vars => IInv'
BY TypeStep, PlacesStep, OnePassStep, NumbersStep, AmountStep, ScheduleStep,
   GapsStep DEF IInv

(* The publisher's inductive invariant: its types, where main() is in the  *)
(* recording, the number each sample carries, how many samples are sent,   *)
(* when the next is due, and the gaps kept so far.                         *)
THEOREM PublisherInvariant == Spec => []IInv
BY InitIInv, StepIInv, PTL DEF Spec

(* main() is where its variables say it is, it sends no more than it may,  *)
(* and what it sends fits 32 bits.                                         *)
THEOREM PublisherTypes == Spec => []TypeOK
<1>1. IInv => TypeOK BY DEF IInv, Types
<1> QED BY <1>1, PublisherInvariant, PTL

(* What was sent is the recording, row by row and pass by pass, whenever   *)
(* Ctrl-C or a lost peer ends it; what ends by itself has sent --count     *)
(* samples, or a single pass.                                              *)
LEMMA InvariantReplays == IInv => ReplaysRecording
<1> SUFFICES ASSUME IInv, Started PROVE ReplaysRecording
  BY DEF ReplaysRecording
<1>1. emitted \in Nat /\ emitted > 0 /\ DOMAIN sent = 1..emitted
  BY PublisherAssumption, SeqElements DEF Started, IInv, Types, TypeOK
<1>2. DOMAIN Replay(Rows, opts.loop, emitted) = 1..emitted
  <2> DEFINE L == Len(Rows)
             n == IF opts.loop \/ emitted < L THEN emitted ELSE L
  <2>1. ~opts.loop => emitted <= L BY <1>1 DEF IInv, OnePass
  <2>2. L \in Nat BY SeqElements DEF IInv, Types
  <2>3. n = emitted
    <3>1. CASE opts.loop BY <3>1
    <3>2. CASE ~opts.loop
      <4>1. emitted <= L BY <2>1, <3>2
      <4> HIDE DEF L
      <4> QED BY <1>1, <2>2, <3>2, <4>1
    <3> QED BY <3>1, <3>2
  <2>4. DOMAIN Replay(Rows, opts.loop, emitted) = 1..n BY DEF Replay
  <2> QED BY <2>3, <2>4
<1>3. \A k \in 1..emitted : Replay(Rows, opts.loop, emitted)[k] = sent[k].seq
  BY <1>1, <1>2 DEF Replay, IInv, Numbers
<1>4. [k \in DOMAIN sent |-> sent[k].seq] = Replay(Rows, opts.loop, emitted)
  <2>1. Replay(Rows, opts.loop, emitted)
          = [k \in 1..emitted |-> Replay(Rows, opts.loop, emitted)[k]]
    BY <1>2 DEF Replay
  <2> QED BY <1>1, <1>3, <2>1
<1> QED BY <1>1, <1>4 DEF ReplaysRecording, IInv, Places, Amount

(* The samples sent are the recording's rows in order, pass after pass,    *)
(* with the numbers a replay carries, and a replay that ends by itself has *)
(* sent all it should: for every recording, option and clock.              *)
THEOREM RecordingReplayed == Spec => []ReplaysRecording
BY InvariantReplays, PublisherInvariant, PTL

(* At a fixed rate no sample is early, and lateness does not add up.       *)
THEOREM KeepsSchedule == Spec => []OnSchedule
<1>1. IInv => OnSchedule BY DEF IInv, Schedule, OnSchedule
<1> QED BY <1>1, PublisherInvariant, PTL

(* The time recorded up to a row adds up the gaps.                         *)
LEMMA RecordedIs ==
  ASSUME Types, opts.realtime
  PROVE  /\ Recorded(0) = 0
         /\ \A n \in 1..Len(Rows) : Recorded(n) = Recorded(n - 1) + GapBefore(n)
         /\ \A n \in 0..Len(Rows) : Recorded(n) \in Nat
<1> DEFINE L == Len(Rows)
           Solves(f) == f = [i \in 0..L |-> IF i = 0 THEN 0 ELSE f[i - 1] + GapBefore(i)]
           f == CHOOSE f : Solves(f)
           step == [i \in 1..L |-> [x \in Nat |-> x + GapBefore(i)]]
<1>1. L \in Nat /\ \A i \in 1..L : GapBefore(i) \in Nat
  <2>1. L \in Nat /\ DOMAIN Rows = 1..L BY SeqElements DEF Types
  <2> QED BY <2>1, GapIs
<1>2. \A n : Recorded(n) = f[n] BY Zenon DEF Recorded
<1>3. step \in [1..L -> [Nat -> Nat]] BY <1>1
<1>4. \A i \in 1..L : \A x \in Nat : step[i][x] = x + GapBefore(i) OBVIOUS
<1> HIDE DEF step
<1>5. PICK h : Loop(h, 0, step, L, Nat) BY <1>1, <1>3, LoopExists
<1>6. ASSUME NEW i \in 0..L PROVE h[i] = IF i = 0 THEN 0 ELSE h[i - 1] + GapBefore(i)
  <2>1. CASE i = 0 BY <1>5, <2>1 DEF Loop
  <2>2. CASE i # 0
    <3>1. i \in 1..L /\ i - 1 \in 0..L BY <1>1, <2>2
    <3>2. h[i - 1] \in Nat /\ h[i] = step[i][h[i - 1]] BY <1>5, <3>1 DEF Loop
    <3> QED BY <1>4, <2>2, <3>1, <3>2
  <2> QED BY <2>1, <2>2
<1>7. Solves(h)
  <2>1. h = [i \in 0..L |-> h[i]] BY <1>5 DEF Loop
  <2> QED BY <1>6, <2>1
<1>8. Solves(f) BY <1>7, Zenon
<1> HIDE DEF f
<1>9. \A i \in 0..L : f[i] = IF i = 0 THEN 0 ELSE f[i - 1] + GapBefore(i) BY <1>8
<1> HIDE DEF L, Solves
<1>10. f[0] = 0 /\ \A i \in 1..L : f[i] = f[i - 1] + GapBefore(i)
  <2>1. 0 \in 0..L /\ \A i \in 1..L : i \in 0..L /\ i # 0 BY <1>1
  <2> QED BY <1>9, <2>1
<1> DEFINE T == {i \in Nat : i \in 0..L => f[i] \in Nat}
<1>11. 0 \in T BY <1>10
<1>12. ASSUME NEW i \in Nat, i \in T PROVE i + 1 \in T
  <2> SUFFICES ASSUME i + 1 \in 0..L PROVE f[i + 1] \in Nat OBVIOUS
  <2>1. i + 1 \in 1..L /\ (i + 1) - 1 = i /\ f[i] \in Nat BY <1>1, <1>12
  <2>2. f[i + 1] = f[i] + GapBefore(i + 1) BY <1>10, <2>1
  <2> QED BY <1>1, <2>1, <2>2
<1> HIDE DEF T
<1>13. \A i \in Nat : i \in T BY <1>11, <1>12, Induction
<1>14. \A i \in 0..L : f[i] \in Nat BY <1>13 DEF T
<1> QED BY <1>2, <1>10, <1>14 DEF L

(* The row of the next sample is the next row, or the first of a new pass. *)
LEMMA NextPlace ==
  ASSUME Types, Places, NEW k \in DOMAIN sent, k + 1 \in DOMAIN sent
  PROVE  /\ Len(Rows) \in Nat /\ sent[k].row \in 1..Len(Rows)
         /\ sent[k + 1].row = IF sent[k].row < Len(Rows) THEN sent[k].row + 1 ELSE 1
<1> DEFINE L == Len(Rows)
           r == (k - 1) % L
<1>1. k \in Int BY Kept, SeqElements DEF Types
<1>2. L \in Nat \ {0} /\ DOMAIN Rows = 1..L
  <2>1. L \in Nat /\ DOMAIN Rows = 1..L BY SeqElements DEF Types
  <2>2. sent[k].row \in DOMAIN Rows BY RowSent
  <2> QED BY <2>1, <2>2
<1>3. sent[k].row = r + 1 /\ sent[k + 1].row = (k % L) + 1
  <2>1. (k + 1) - 1 = k BY <1>1
  <2> QED BY <2>1 DEF Places
<1> HIDE DEF L
<1>4. r \in 0..(L - 1) /\ (r + 1) % L = k % L
  <2>1. k - 1 \in Int /\ (k - 1) + 1 = k BY <1>1
  <2> QED BY <1>2, <2>1, Division, RemainderOfNext
<1> HIDE DEF r
<1>5. CASE r + 1 < L
  <2>1. (r + 1) % L = r + 1 BY <1>2, <1>4, <1>5, RemainderOfNat
  <2> QED BY <1>2, <1>3, <1>4, <1>5, <2>1 DEF L
<1>6. CASE ~(r + 1 < L)
  <2>1. r + 1 = L * 1 + 0 /\ 0 \in 0..(L - 1) BY <1>2, <1>4, <1>6
  <2>2. (L * 1 + 0) % L = 0 BY <1>2, <2>1, RemainderIs
  <2> QED BY <1>2, <1>3, <1>4, <1>6, <2>1, <2>2 DEF L
<1> QED BY <1>5, <1>6

(* How long the pass took so far, sample by sample, and the one before it. *)
Net(k) == sent[k].at - sent[k].delayed

OnPace(k) ==
  LET n     == sent[k].row
      first == k - n + 1
  IN  /\ first \in 1..k /\ Net(k) - Net(first) = Recorded(n - 1)
      /\ n = 1 /\ k > 1 => /\ k - Len(Rows) \in 1..k
                          /\ Net(k) - Net(k - Len(Rows)) = Recorded(Len(Rows))

LEMMA PaceIsKept == IInv /\ opts.realtime => \A k \in DOMAIN sent : OnPace(k)
<1> SUFFICES ASSUME IInv, opts.realtime PROVE \A k \in DOMAIN sent : OnPace(k)
  OBVIOUS
<1> DEFINE L == Len(Rows)
           T == {i \in Nat : i + 1 \in DOMAIN sent => OnPace(i + 1)}
<1>1. Types /\ Places /\ Gaps BY DEF IInv
<1>2. emitted \in Nat /\ DOMAIN sent = 1..emitted
  BY <1>1, SeqElements, PublisherAssumption DEF Types, TypeOK
<1>3. \A k \in DOMAIN sent : Net(k) \in Int
  <2>1. \A k \in DOMAIN sent : sent[k] \in Sample BY <1>1, SeqElements DEF Types
  <2> QED BY <2>1 DEF Sample, Net
<1>4. 0 \in T
  <2> SUFFICES ASSUME 1 \in DOMAIN sent PROVE OnPace(1) OBVIOUS
  <2>1. L \in Nat \ {0}
    <3>1. sent[1].row \in DOMAIN Rows BY <1>1, RowSent
    <3> QED BY <1>1, <3>1, SeqElements DEF Types
  <2>2. sent[1].row = 1
    <3>1. sent[1].row = (0 % L) + 1 BY <1>1 DEF Places
    <3> HIDE DEF L
    <3>2. 0 % L = 0 BY <2>1, RemainderOfNat
    <3> QED BY <3>1, <3>2
  <2>3. Recorded(0) = 0 BY <1>1, RecordedIs
  <2>4. Net(1) - Net(1) = 0 BY <1>3
  <2> QED BY <2>2, <2>3, <2>4 DEF OnPace
<1>5. ASSUME NEW i \in Nat, i \in T PROVE i + 1 \in T
  <2> DEFINE k == i + 1
             n == sent[k].row
  <2> SUFFICES ASSUME k + 1 \in DOMAIN sent PROVE OnPace(k + 1) OBVIOUS
  <2>1. k \in Nat \ {0} /\ k \in DOMAIN sent /\ OnPace(k) BY <1>2, <1>5
  <2> HIDE DEF k, T
  <2>2. L \in Nat /\ n \in 1..L /\ sent[k + 1].row = IF n < L THEN n + 1 ELSE 1
    BY <1>1, <2>1, NextPlace
  <2> HIDE DEF L
  <2>3. Net(k + 1) = Net(k) + GapBefore(n)
    <3>1. \A j \in DOMAIN sent \ {1} : Apart(sent, j) BY <1>1, GapsAre DEF Gaps
    <3>2. (k + 1) - 1 = k /\ k + 1 # 1 BY <2>1
    <3>3. sent[k + 1].at - sent[k].at = GapBefore(n) + sent[k + 1].delayed - sent[k].delayed
      BY <3>1, <3>2 DEF Apart
    <3>4. sent[k + 1] \in Sample /\ sent[k] \in Sample BY <1>1, <2>1, SeqElements DEF Types
    <3>5. GapBefore(n) \in Int BY <1>1, <2>1, GapIs, RowSent
    <3> DEFINE a == sent[k + 1]
               b == sent[k]
               gap == GapBefore(n)
    <3>6. a.at - b.at = gap + a.delayed - b.delayed BY <3>3
    <3>7. a.at \in Int /\ b.at \in Int /\ a.delayed \in Int /\ b.delayed \in Int
      BY <3>4 DEF Sample
    <3>8. gap \in Int BY <3>5
    <3> HIDE DEF gap
    <3>9. a.at - a.delayed = b.at - b.delayed + gap BY <3>6, <3>7, <3>8
    <3> QED BY <3>9 DEF Net, gap
  <2>4. /\ Recorded(n - 1) \in Nat /\ Recorded(n) = Recorded(n - 1) + GapBefore(n)
        /\ GapBefore(n) \in Int /\ Recorded(0) = 0
    <3>1. /\ Recorded(0) = 0
          /\ \A j \in 1..L : Recorded(j) = Recorded(j - 1) + GapBefore(j)
          /\ \A j \in 0..L : Recorded(j) \in Nat
      BY <1>1, RecordedIs DEF L
    <3>2. n - 1 \in 0..L BY <2>2
    <3>3. GapBefore(n) \in Int BY <1>1, <2>1, GapIs, RowSent
    <3> QED BY <2>2, <3>1, <3>2, <3>3
  <2> DEFINE f == k - n + 1
  <2>5. f \in 1..k /\ Net(k) - Net(f) = Recorded(n - 1) BY <2>1 DEF OnPace
  <2>6. f \in DOMAIN sent BY <1>2, <2>1, <2>5
  <2>7. Net(k) \in Int /\ Net(f) \in Int /\ Net(k + 1) \in Int BY <1>3, <2>1, <2>6
  <2>8. Net(k + 1) - Net(f) = Recorded(n) BY <2>3, <2>4, <2>5, <2>7
  <2>9. CASE n < L
    <3>1. sent[k + 1].row = n + 1 /\ (n + 1) - 1 = n /\ n + 1 # 1 BY <2>2, <2>9
    <3>2. (k + 1) - (n + 1) + 1 = f /\ f \in 1..(k + 1) BY <2>1, <2>2, <2>5
    <3> HIDE DEF f, n
    <3> QED BY <2>8, <3>1, <3>2 DEF OnPace
  <2>10. CASE ~(n < L)
    <3>1. sent[k + 1].row = 1 /\ n = L BY <2>2, <2>10
    <3>2. (k + 1) - 1 + 1 = k + 1 /\ k + 1 \in 1..(k + 1) /\ 1 - 1 = 0 BY <2>1
    <3>3. (k + 1) - L = f /\ f \in 1..(k + 1) BY <2>1, <2>2, <2>5, <3>1
    <3>4. Net(k + 1) - Net(k + 1) = 0 BY <2>7
    <3> HIDE DEF f, n
    <3> QED BY <2>4, <2>8, <3>1, <3>2, <3>3, <3>4 DEF OnPace, L
  <2> QED BY <2>9, <2>10 DEF k
<1> HIDE DEF T
<1>6. \A i \in Nat : i \in T BY <1>4, <1>5, Induction
<1> SUFFICES ASSUME NEW k \in DOMAIN sent PROVE OnPace(k) OBVIOUS
<1>7. k - 1 \in Nat /\ (k - 1) + 1 = k BY <1>2
<1> QED BY <1>6, <1>7 DEF T

(* In real time every pass takes the time that was recorded, and no sample *)
(* leaves the span between the row before it and its own.                  *)
THEOREM PassesKeepPace == Spec => []KeepsRecordedPace
<1>1. IInv => KeepsRecordedPace
  <2> SUFFICES ASSUME IInv, opts.realtime, NEW k \in DOMAIN sent
               PROVE  LET n       == sent[k].row
                          took(l) == (sent[k].at - sent[k].delayed)
                                       - (sent[l].at - sent[l].delayed)
                      IN  /\ took(k - n + 1) \in Recorded(n - 1)..Recorded(n)
                          /\ n = 1 /\ k > 1 => took(k - Len(Rows)) = Recorded(Len(Rows))
    BY DEF KeepsRecordedPace
  <2> DEFINE n == sent[k].row
             first == k - n + 1
  <2>1. OnPace(k) BY PaceIsKept
  <2>2. n \in 1..Len(Rows) /\ Len(Rows) \in Nat
    BY RowSent, SeqElements DEF IInv, Types
  <2>3. /\ Recorded(n) = Recorded(n - 1) + GapBefore(n)
        /\ Recorded(n) \in Nat /\ Recorded(n - 1) \in Nat /\ GapBefore(n) \in Nat
    <3>1. /\ \A j \in 1..Len(Rows) : Recorded(j) = Recorded(j - 1) + GapBefore(j)
          /\ \A j \in 0..Len(Rows) : Recorded(j) \in Nat
      BY RecordedIs DEF IInv
    <3>2. n \in 0..Len(Rows) /\ n - 1 \in 0..Len(Rows) BY <2>2
    <3>3. GapBefore(n) \in Nat BY GapIs, RowSent DEF IInv
    <3> QED BY <2>2, <3>1, <3>2, <3>3
  <2>4. Recorded(n - 1) \in Recorded(n - 1)..Recorded(n)
    <3> HIDE DEF n
    <3> QED BY <2>3
  <2>5. Net(k) - Net(first) = Recorded(n - 1) BY <2>1 DEF OnPace
  <2>6. n = 1 /\ k > 1 => Net(k) - Net(k - Len(Rows)) = Recorded(Len(Rows))
    BY <2>1 DEF OnPace
  <2> QED BY <2>4, <2>5, <2>6 DEF Net
<1> QED BY <1>1, PublisherInvariant, PTL

-----------------------------------------------------------------------------
(* The parsing loop.                                                       *)
Groups(S) == Seq(Seq(S))

(* One token more leaves groups.                                           *)
LEMMA JoinedType ==
  ASSUME NEW S, NEW groups \in Groups(S), NEW token \in S, NEW valued
  PROVE  Joined(groups, token, valued) \in Groups(S)
<1> DEFINE n == Len(groups)
<1>1. <<token>> \in Seq(S) OBVIOUS
<1>2. Append(groups, <<token>>) \in Groups(S) BY <1>1, AppendElements DEF Groups
<1>3. CASE groups # <<>>
  <2>1. n \in 1..Len(groups) BY <1>3, EmptySeq, LenProperties DEF Groups
  <2>2. groups[n] \in Seq(S) BY <2>1, SeqElements DEF Groups
  <2>3. Append(groups[n], token) \in Seq(S) BY <2>2, AppendElements
  <2>4. [groups EXCEPT ![n] = Append(@, token)] \in Groups(S)
    BY <2>1, <2>3, ExceptSeq DEF Groups
  <2> QED BY <1>2, <2>4 DEF Joined
<1> QED BY <1>2, <1>3 DEF Joined

GroupSteps(tokens, valued, S) ==
  [i \in 1..Len(tokens) |-> [groups \in Groups(S) |-> Joined(groups, tokens[i], valued)]]

(* The parsing loop is a loop over the tokens, ...                         *)
LEMMA GroupedRuns ==
  ASSUME NEW S, NEW tokens \in Seq(S), NEW valued
  PROVE  \E h : /\ Loop(h, <<>>, GroupSteps(tokens, valued, S), Len(tokens), Groups(S))
                /\ Grouped(tokens, valued) = h[Len(tokens)]
<1> DEFINE n == Len(tokens)
           step == GroupSteps(tokens, valued, S)
           Solves(f) == f = [i \in 0..n |-> IF i = 0 THEN <<>>
                                            ELSE Joined(f[i - 1], tokens[i], valued)]
           f == CHOOSE f : Solves(f)
<1>1. n \in Nat /\ \A i \in 1..n : tokens[i] \in S BY SeqElements
<1>2. <<>> \in Groups(S) BY EmptySeq DEF Groups
<1>3. step \in [1..n -> [Groups(S) -> Groups(S)]] BY <1>1, JoinedType DEF GroupSteps
<1>4. \A i \in 1..n : \A x \in Groups(S) : step[i][x] = Joined(x, tokens[i], valued)
  BY DEF GroupSteps
<1>5. PICK h : Loop(h, <<>>, step, n, Groups(S)) BY <1>1, <1>2, <1>3, LoopExists
<1>6. Grouped(tokens, valued) = f[n] BY Zenon DEF Grouped
<1> HIDE DEF step
<1>7. ASSUME NEW i \in 0..n
      PROVE  h[i] = IF i = 0 THEN <<>> ELSE Joined(h[i - 1], tokens[i], valued)
  <2>1. CASE i = 0 BY <1>5, <2>1 DEF Loop
  <2>2. CASE i # 0
    <3>1. i \in 1..n /\ i - 1 \in 0..n BY <1>1, <2>2
    <3>2. h[i - 1] \in Groups(S) /\ h[i] = step[i][h[i - 1]] BY <1>5, <3>1 DEF Loop
    <3> QED BY <1>4, <2>2, <3>1, <3>2
  <2> QED BY <2>1, <2>2
<1>8. Solves(h)
  <2>1. h = [i \in 0..n |-> h[i]] BY <1>5 DEF Loop
  <2> QED BY <1>7, <2>1
<1>9. Solves(f) BY <1>8, Zenon
<1> HIDE DEF f
<1>10. \A i \in 0..n : f[i] = IF i = 0 THEN <<>> ELSE Joined(f[i - 1], tokens[i], valued)
  BY <1>9
<1> DEFINE Alike(i) == i \in 0..n => f[i] = h[i]
           T == {i \in Nat : Alike(i)}
<1> HIDE DEF n, Solves
<1>11. ASSUME NEW i \in Nat, Alike(i) PROVE Alike(i + 1)
  <2> SUFFICES ASSUME i + 1 \in 0..n PROVE f[i + 1] = h[i + 1] OBVIOUS
  <2>1. (i + 1) - 1 = i /\ i \in 0..n /\ i + 1 # 0 BY <1>1
  <2>2. f[i + 1] = Joined(f[i], tokens[i + 1], valued) BY <1>10, <2>1
  <2>3. h[i + 1] = Joined(h[i], tokens[i + 1], valued) BY <1>7, <2>1
  <2> QED BY <1>11, <2>1, <2>2, <2>3
<1>12. Alike(0)
  <2>1. 0 \in 0..n BY <1>1
  <2> QED BY <1>7, <1>10, <2>1
<1> HIDE DEF Alike
<1>13. 0 \in T /\ \A i \in Nat : i \in T => i + 1 \in T BY <1>11, <1>12
<1> HIDE DEF T
<1>14. n \in T BY <1>1, <1>13, Induction
<1>15. f[n] = h[n]
  <2>1. n \in 0..n BY <1>1
  <2> QED BY <1>14, <2>1 DEF T, Alike
<1> QED BY <1>5, <1>6, <1>15 DEF n, step

(* ... that starts with nothing, ...                                       *)
LEMMA GroupedNone == ASSUME NEW valued PROVE Grouped(<<>>, valued) = <<>>
<1> DEFINE S == {}
<1>1. <<>> \in Seq(S) /\ Len(<<>>) = 0 BY EmptySeq
<1>2. PICK h : /\ Loop(h, <<>>, GroupSteps(<<>>, valued, S), Len(<<>>), Groups(S))
               /\ Grouped(<<>>, valued) = h[Len(<<>>)]
  BY <1>1, GroupedRuns
<1> QED BY <1>1, <1>2 DEF Loop

(* ... and takes one token more at its end.                                *)
LEMMA GroupedNext ==
  ASSUME NEW S, NEW tokens \in Seq(S), NEW token \in S, NEW valued
  PROVE  /\ Grouped(tokens, valued) \in Groups(S)
         /\ Grouped(Append(tokens, token), valued)
              = Joined(Grouped(tokens, valued), token, valued)
<1> DEFINE len  == Len(tokens)
           more == Append(tokens, token)
           A == Groups(S)
           base == <<>>
           a == GroupSteps(tokens, valued, S)
           b == GroupSteps(more, valued, S)
<1>1. /\ more \in Seq(S) /\ len \in Nat /\ Len(more) = len + 1
      /\ \A i \in 1..len : more[i] = tokens[i]
      /\ more[len + 1] = token
  BY AppendElements
<1>2. PICK h : Loop(h, base, a, len, A) /\ Grouped(tokens, valued) = h[len]
  BY GroupedRuns
<1> HIDE DEF more
<1>3. PICK g : Loop(g, base, b, len + 1, A) /\ Grouped(more, valued) = g[len + 1]
  BY <1>1, GroupedRuns
<1>4. ASSUME NEW i \in 1..len PROVE a[i] = b[i]
  BY <1>1 DEF GroupSteps
<1>5. b[len + 1] = [groups \in A |-> Joined(groups, token, valued)]
  <2>1. len + 1 \in 1..Len(more) BY <1>1
  <2> QED BY <1>1, <2>1 DEF GroupSteps
<1> HIDE DEF len, base, a, b, A
<1>6. h[len] \in A /\ g[len + 1] = b[len + 1][h[len]]
  BY <1>1, <1>2, <1>3, <1>4, LoopNext
<1> QED BY <1>2, <1>3, <1>5, <1>6 DEF more, A
(* What a group has to do with the tokens: it is the token at i, or an     *)
(* option there and the value that follows.                                *)
Covers(group, i, tokens, valued) ==
  /\ i \in 1..Len(tokens) /\ Len(group) \in {1, 2} /\ group[1] = tokens[i]
  /\ Len(group) = 2 => /\ i + 1 \in 1..Len(tokens) /\ group[2] = tokens[i + 1]
                       /\ tokens[i] \in valued

Parsed(groups, at, tokens, valued) ==
  /\ \A k \in 1..Len(groups) : Covers(groups[k], at[k], tokens, valued)
  /\ \A j \in 1..Len(tokens) : \E k \in 1..Len(groups) :
       at[k] = j \/ (at[k] = j - 1 /\ Len(groups[k]) = 2)
  /\ \A k \in 1..Len(groups) :
       k = Len(groups) /\ Len(groups[k]) = 1 => at[k] = Len(tokens)

(* A group covers its tokens also when there are more.                     *)
LEMMA CoversMore ==
  ASSUME NEW S, NEW tokens \in Seq(S), NEW token \in S, NEW valued,
         NEW group, NEW i, Covers(group, i, tokens, valued)
  PROVE  Covers(group, i, Append(tokens, token), valued)
<1> DEFINE more == Append(tokens, token)
<1>1. /\ Len(tokens) \in Nat /\ Len(more) = Len(tokens) + 1
      /\ \A j \in 1..Len(tokens) : more[j] = tokens[j]
  BY AppendElements
<1> HIDE DEF more
<1>2. Covers(group, i, more, valued) BY <1>1 DEF Covers
<1> QED BY <1>2 DEF more

(* A token that is the value of the option before it.                      *)
LEMMA ParsedValue ==
  ASSUME NEW S, NEW tokens \in Seq(S), NEW token \in S, NEW valued,
         NEW groups \in Groups(S), NEW at, Parsed(groups, at, tokens, valued),
         groups # <<>>, Len(Last(groups)) = 1, Last(groups)[1] \in valued
  PROVE  Parsed(Joined(groups, token, valued), at, Append(tokens, token), valued)
<1> DEFINE n == Len(groups)
           last == groups[n]
           next == Append(last, token)
           longer == [groups EXCEPT ![n] = next]
           more == Append(tokens, token)
<1>1. Joined(groups, token, valued) = longer BY DEF Joined, Last
<1>2. n \in 1..n /\ n \in Nat /\ last \in Seq(S)
  <2>1. n \in Nat /\ n # 0 /\ \A i \in 1..n : groups[i] \in Seq(S)
    BY EmptySeq, SeqElements DEF Groups
  <2> QED BY <2>1
<1>3. Len(last) = 1 /\ last[1] \in valued BY DEF Last
<1>4. next \in Seq(S) /\ Len(next) = 2 /\ next[1] = last[1] /\ next[2] = token
  BY <1>2, <1>3, AppendElements
<1>5. Len(longer) = n /\ \A k \in 1..n : longer[k] = IF k = n THEN next ELSE groups[k]
  BY <1>2, <1>4, ExceptSeq DEF Groups
<1>6. /\ Len(tokens) \in Nat /\ Len(more) = Len(tokens) + 1
      /\ \A j \in 1..Len(tokens) : more[j] = tokens[j]
      /\ more[Len(tokens) + 1] = token
  BY AppendElements
<1>7. Covers(last, at[n], tokens, valued) /\ at[n] = Len(tokens) BY <1>2, <1>3 DEF Parsed
<1>8. ASSUME NEW k \in 1..n PROVE Covers(longer[k], at[k], more, valued)
  <2>1. CASE k = n
    <3> HIDE DEF next, last, n, longer, more
    <3> QED BY <1>3, <1>4, <1>5, <1>6, <1>7, <2>1 DEF Covers
  <2>2. CASE k # n
    <3>1. Covers(groups[k], at[k], tokens, valued) BY DEF Parsed
    <3>2. longer[k] = groups[k] BY <1>5, <2>2
    <3> HIDE DEF longer, n
    <3> QED BY <3>1, <3>2, CoversMore
  <2> QED BY <2>1, <2>2
<1>9. ASSUME NEW j \in 1..Len(more)
      PROVE  \E k \in 1..n : at[k] = j \/ (at[k] = j - 1 /\ Len(longer[k]) = 2)
  <2>1. CASE j = Len(more)
    <3>1. at[n] = j - 1 BY <1>6, <1>7, <2>1
    <3>2. longer[n] = next BY <1>2, <1>5
    <3> HIDE DEF next, longer, n
    <3> QED BY <1>2, <1>4, <3>1, <3>2
  <2>2. CASE j # Len(more)
    <3>1. j \in 1..Len(tokens) BY <1>6, <2>2
    <3>2. PICK k \in 1..n : at[k] = j \/ (at[k] = j - 1 /\ Len(groups[k]) = 2)
      BY <3>1 DEF Parsed
    <3>3. longer[k] = IF k = n THEN next ELSE groups[k] BY <1>5
    <3> HIDE DEF next, longer, n
    <3> QED BY <1>4, <3>2, <3>3
  <2> QED BY <2>1, <2>2
<1>10. ASSUME NEW k \in 1..n, k = n PROVE Len(longer[k]) # 1
  <2>1. longer[k] = next BY <1>5, <1>10
  <2> QED BY <1>4, <2>1
<1> HIDE DEF longer, more, n
<1>11. Parsed(longer, at, more, valued) BY <1>5, <1>8, <1>9, <1>10 DEF Parsed
<1> QED BY <1>1, <1>11 DEF more

(* A token that begins a group.                                            *)
LEMMA ParsedLone ==
  ASSUME NEW S, NEW tokens \in Seq(S), NEW token \in S, NEW valued,
         NEW groups \in Groups(S), NEW at, Parsed(groups, at, tokens, valued)
  PROVE  \E next : Parsed(Append(groups, <<token>>), next, Append(tokens, token), valued)
<1> DEFINE n == Len(groups)
           lone == <<token>>
           longer == Append(groups, lone)
           more == Append(tokens, token)
           next == [k \in 1..(n + 1) |-> IF k = n + 1 THEN Len(more) ELSE at[k]]
<1>1. lone \in Seq(S) /\ Len(lone) = 1 /\ lone[1] = token OBVIOUS
<1> HIDE DEF lone
<1>2. /\ n \in Nat /\ Len(longer) = n + 1
      /\ \A k \in 1..n : longer[k] = groups[k]
      /\ longer[n + 1] = lone
  BY <1>1, AppendElements DEF Groups
<1>3. /\ Len(tokens) \in Nat /\ Len(more) = Len(tokens) + 1
      /\ \A j \in 1..Len(tokens) : more[j] = tokens[j]
      /\ more[Len(tokens) + 1] = token
  BY AppendElements
<1>4. next[n + 1] = Len(more) /\ \A k \in 1..n : next[k] = at[k]
  <2>1. n + 1 \in 1..(n + 1) /\ \A k \in 1..n : k \in 1..(n + 1) /\ k # n + 1 BY <1>2
  <2> QED BY <2>1
<1>5. ASSUME NEW k \in 1..n
      PROVE  Covers(groups[k], at[k], tokens, valued) /\ Covers(groups[k], at[k], more, valued)
  <2>1. Covers(groups[k], at[k], tokens, valued) BY DEF Parsed
  <2> HIDE DEF n
  <2> QED BY <2>1, CoversMore
<1> HIDE DEF longer, more, next
<1>6. ASSUME NEW k \in 1..(n + 1) PROVE Covers(longer[k], next[k], more, valued)
  <2>1. CASE k = n + 1
    <3>1. longer[k] = lone /\ next[k] = Len(more) BY <1>2, <1>4, <2>1
    <3>2. Covers(lone, Len(more), more, valued) BY <1>1, <1>3 DEF Covers
    <3> QED BY <3>1, <3>2
  <2>2. CASE k \in 1..n BY <1>2, <1>4, <1>5, <2>2
  <2> QED BY <1>2, <2>1, <2>2
<1>7. ASSUME NEW j \in 1..Len(more)
      PROVE  \E k \in 1..(n + 1) : next[k] = j \/ (next[k] = j - 1 /\ Len(longer[k]) = 2)
  <2>1. CASE j = Len(more)
    <3>1. n + 1 \in 1..(n + 1) BY <1>2
    <3>2. next[n + 1] = j BY <1>4, <2>1
    <3> HIDE DEF n
    <3> QED BY <3>1, <3>2
  <2>2. CASE j # Len(more)
    <3>1. j \in 1..Len(tokens) BY <1>3, <2>2
    <3>2. PICK k \in 1..n : at[k] = j \/ (at[k] = j - 1 /\ Len(groups[k]) = 2)
      BY <3>1 DEF Parsed
    <3>3. k \in 1..(n + 1) BY <1>2
    <3> HIDE DEF n
    <3> QED BY <1>2, <1>4, <3>2, <3>3
  <2> QED BY <2>1, <2>2
<1>8. Parsed(longer, next, more, valued)
  <2>1. ASSUME NEW k \in 1..(n + 1), k = n + 1 PROVE next[k] = Len(more) BY <1>4, <2>1
  <2> HIDE DEF n
  <2> QED BY <1>2, <1>6, <1>7, <2>1 DEF Parsed
<1> QED BY <1>8 DEF longer, more, lone

(* Whatever the tokens: every one is in a group, alone or with an option   *)
(* and its value.                                                          *)
LEMMA GroupsCover ==
  ASSUME NEW S, NEW valued
  PROVE  \A tokens \in Seq(S) :
           /\ Grouped(tokens, valued) \in Groups(S)
           /\ \E at : Parsed(Grouped(tokens, valued), at, tokens, valued)
<1> DEFINE Fine(tokens) == /\ Grouped(tokens, valued) \in Groups(S)
                           /\ \E at : Parsed(Grouped(tokens, valued), at, tokens, valued)
           T == {tokens \in Seq(S) : Fine(tokens)}
<1>1. Fine(<<>>)
  <2> DEFINE none == <<>>
  <2>1. none \in Groups(S) /\ Len(none) = 0 BY EmptySeq DEF Groups
  <2>2. Grouped(none, valued) = none BY GroupedNone
  <2> HIDE DEF none
  <2>3. Parsed(none, none, none, valued) BY <2>1 DEF Parsed
  <2>4. Fine(none) BY <2>1, <2>2, <2>3
  <2> QED BY <2>4 DEF none
<1>2. ASSUME NEW tokens \in Seq(S), NEW token \in S, Fine(tokens)
      PROVE  Fine(Append(tokens, token))
  <2> DEFINE groups == Grouped(tokens, valued)
             more == Append(tokens, token)
             longer == Joined(groups, token, valued)
  <2>1. groups \in Groups(S) /\ Grouped(more, valued) = longer BY GroupedNext
  <2>2. PICK at : Parsed(groups, at, tokens, valued) BY <1>2
  <2> HIDE DEF groups
  <2>3. longer \in Groups(S) BY <2>1, JoinedType
  <2>4. \E next : Parsed(longer, next, more, valued)
    <3>1. CASE groups # <<>> /\ Len(Last(groups)) = 1 /\ Last(groups)[1] \in valued
      BY <2>1, <2>2, <3>1, ParsedValue
    <3>2. CASE ~(groups # <<>> /\ Len(Last(groups)) = 1 /\ Last(groups)[1] \in valued)
      <4>1. longer = Append(groups, <<token>>) BY <3>2 DEF Joined
      <4> QED BY <2>1, <2>2, <4>1, ParsedLone
    <3> QED BY <3>1, <3>2
  <2> HIDE DEF longer
  <2> QED BY <2>1, <2>3, <2>4
<1>3. <<>> \in Seq(S) /\ \A s \in Seq(S) : \A e \in S : Append(s, e) \in Seq(S)
  BY EmptySeq, AppendElements
<1> HIDE DEF Fine
<1>4. <<>> \in T /\ \A s \in Seq(S) : \A e \in S : s \in T => Append(s, e) \in T
  BY <1>1, <1>2, <1>3
<1> HIDE DEF T
<1>5. \A s \in Seq(S) : s \in T BY <1>4, SeqInduction
<1> QED BY <1>5 DEF T, Fine
-----------------------------------------------------------------------------
(* The options that take a value, those that choose a transport, and the   *)
(* empty value.                                                            *)
Valued == {"--port", "--tcp", "--baud"}
Selecting == {"--port", "--tcp", "--pty"}
Empty == ""

(* An option that one group at most can be for has that group's value.     *)
LEMMA ValueIs ==
  ASSUME NEW S, NEW groups \in Groups(S), NEW option, NEW default,
         NEW k \in DOMAIN groups,
         \A l \in DOMAIN groups : groups[l][1] = option => l = k
  PROVE  ValueOf(groups, option, default)
           = IF groups[k][1] = option /\ Len(groups[k]) = 2 THEN groups[k][2] ELSE default
<1> DEFINE given == {l \in DOMAIN groups : groups[l][1] = option /\ Len(groups[l]) = 2}
<1>1. ValueOf(groups, option, default)
        = IF given = {} THEN default ELSE groups[Max(given)][2]
  BY DEF ValueOf
<1>2. given \subseteq {k} OBVIOUS
<1>3. CASE groups[k][1] = option /\ Len(groups[k]) = 2
  <2>1. given = {k} BY <1>2, <1>3
  <2>2. k \in Nat BY SeqElements DEF Groups
  <2>3. Max({k}) = k BY <2>2 DEF Max
  <2> HIDE DEF given
  <2> QED BY <1>1, <1>3, <2>1, <2>3
<1>4. CASE ~(groups[k][1] = option /\ Len(groups[k]) = 2)
  <2>1. given = {} BY <1>2, <1>4
  <2> HIDE DEF given
  <2> QED BY <1>1, <1>4, <2>1
<1> QED BY <1>3, <1>4

(* The groups of a command line that parse_transport_args() accepts: one   *)
(* chooses the transport, and no option lacks its value.                   *)
Sound(groups, k) ==
  /\ k \in DOMAIN groups /\ groups[k][1] \in Selecting
  /\ \A l \in DOMAIN groups :
       /\ groups[l][1] \in Selecting => l = k
       /\ groups[l][1] \in Valued => Len(groups[l]) # 1
       /\ groups[l][1] = "--baud" /\ Len(groups[l]) = 2 => groups[l][2] \in DOMAIN NumberOf

(* What is not malformed has sound groups.                                 *)
LEMMA SoundGroups ==
  ASSUME NEW S, NEW line, TransportGroups(line) \in Groups(S), ~Malformed(line)
  PROVE  \E k : Sound(TransportGroups(line), k)
<1> DEFINE groups == TransportGroups(line)
<1>1. groups \in Groups(S) OBVIOUS
<1>2. /\ \A g \in ToSet(groups) : ~(g[1] \in Valued /\ Len(g) = 1)
      /\ \A g \in ToSet(groups) : ~(g[1] = "--baud" /\ NotNumeric(g))
      /\ Cardinality(Selections(line)) = 1
  BY DEF Malformed, Valued
<1>3. Selections(line) = {k \in DOMAIN groups : groups[k][1] \in Selecting}
  BY DEF Selections, Selecting
<1> HIDE DEF groups
<1>4. DOMAIN groups = 1..Len(groups) /\ Len(groups) \in Nat BY <1>1, SeqElements DEF Groups
<1>5. IsFiniteSet(Selections(line))
  <2>1. 1..Len(groups) = DOMAIN groups /\ IsFiniteSet(1..Len(groups)) BY <1>4, FS_Interval
  <2> QED BY <1>3, <2>1, FS_Subset
<1>6. PICK k : Selections(line) = {k} BY <1>2, <1>5, FS_Singleton
<1>7. \A l \in DOMAIN groups : groups[l] \in ToSet(groups) BY DEF ToSet
<1>8. Sound(groups, k) BY <1>2, <1>3, <1>6, <1>7 DEF Sound, NotNumeric
<1> QED BY <1>8 DEF groups

(* The transport that is opened, ...                                       *)
LEMMA OpenAsIs ==
  ASSUME NEW S, NEW line, NEW k, TransportGroups(line) \in Groups(S),
         Sound(TransportGroups(line), k)
  PROVE  LET groups == TransportGroups(line)
             given(option) == IF groups[k][1] = option /\ Len(groups[k]) = 2
                              THEN groups[k][2] ELSE Empty
         IN  OpenAs(line) =
               IF given("--port") # Empty THEN "serial"
               ELSE IF given("--tcp") = Empty THEN "pty"
               ELSE IF given("--tcp") \notin Endpoints THEN "nothing"
               ELSE IF <<"--listen">> \in ToSet(groups) THEN "listen" ELSE "connect"
<1> DEFINE groups == TransportGroups(line)
<1>1. groups \in Groups(S) /\ Sound(groups, k) OBVIOUS
<1>2. OpenAs(line) =
        IF ValueOf(groups, "--port", Empty) # Empty THEN "serial"
        ELSE IF ValueOf(groups, "--tcp", Empty) = Empty THEN "pty"
        ELSE IF ValueOf(groups, "--tcp", Empty) \notin Endpoints THEN "nothing"
        ELSE IF <<"--listen">> \in ToSet(groups) THEN "listen" ELSE "connect"
  BY Zenon DEF OpenAs, Empty
<1> HIDE DEF groups
<1>3. ASSUME NEW option \in {"--port", "--tcp"}
      PROVE  ValueOf(groups, option, Empty)
               = IF groups[k][1] = option /\ Len(groups[k]) = 2 THEN groups[k][2] ELSE Empty
  <2>1. /\ k \in DOMAIN groups
        /\ \A l \in DOMAIN groups : groups[l][1] = option => l = k
    BY <1>1 DEF Sound, Selecting
  <2> QED BY <1>1, <2>1, ValueIs
<1>4. "--port" \in {"--port", "--tcp"} /\ "--tcp" \in {"--port", "--tcp"} OBVIOUS
<1> QED BY <1>2, <1>3, <1>4 DEF groups
(* ... which is what it says at the one place that chooses it: any other   *)
(* place that seems to choose one is the value of an option.               *)
Chosen(line, link, i) ==
  LET given == IF i < Len(line) THEN line[i + 1] ELSE Empty
  IN  \/ line[i] = "--pty" /\ link = "pty"
      \/ i < Len(line) /\ given = Empty /\ line[i] \in {"--port", "--tcp"} /\ link = "pty"
      \/ i < Len(line) /\ given # Empty /\ line[i] = "--port" /\ link = "serial"
      \/ /\ i < Len(line) /\ given # Empty /\ line[i] = "--tcp"
         /\ link = IF "--listen" \in ToSet(line) THEN "listen" ELSE "connect"

IsValue(line, j) == j > 1 /\ line[j - 1] \in Valued

(* The group of an option is its name and the token after it.              *)
LEMMA Choice ==
  ASSUME NEW S, NEW line \in Seq(S), NEW groups \in Groups(S), NEW at, NEW k,
         Parsed(groups, at, line, Valued), Sound(groups, k)
  PROVE  /\ k \in DOMAIN groups /\ at[k] \in DOMAIN line /\ line[at[k]] = groups[k][1]
         /\ line[at[k]] \in Selecting /\ Len(groups[k]) \in {1, 2}
         /\ groups[k][1] \in Valued => Len(groups[k]) = 2
         /\ Len(groups[k]) = 2 => at[k] < Len(line) /\ groups[k][2] = line[at[k] + 1]
         /\ \A j \in DOMAIN line \ {at[k]} : line[j] \in Selecting => IsValue(line, j)
<1>1. DOMAIN groups = 1..Len(groups) /\ DOMAIN line = 1..Len(line) /\ Len(line) \in Nat
  BY SeqElements DEF Groups
<1>2. \A l \in DOMAIN groups : Covers(groups[l], at[l], line, Valued) BY <1>1 DEF Parsed
<1>3. k \in DOMAIN groups /\ groups[k][1] \in Selecting BY DEF Sound
<1>4. /\ at[k] \in 1..Len(line) /\ Len(groups[k]) \in {1, 2} /\ groups[k][1] = line[at[k]]
      /\ Len(groups[k]) = 2 => at[k] + 1 \in 1..Len(line) /\ groups[k][2] = line[at[k] + 1]
  BY <1>2, <1>3 DEF Covers
<1>5. groups[k][1] \in Valued => Len(groups[k]) = 2 BY <1>3, <1>4 DEF Sound
<1>6. ASSUME NEW j \in DOMAIN line, j # at[k], line[j] \in Selecting PROVE IsValue(line, j)
  <2>1. PICK l \in DOMAIN groups : at[l] = j \/ (at[l] = j - 1 /\ Len(groups[l]) = 2)
    BY <1>1 DEF Parsed
  <2>2. Covers(groups[l], at[l], line, Valued) BY <1>2
  <2>3. at[l] # j
    <3>1. at[l] = j => groups[l][1] \in Selecting BY <1>6, <2>2 DEF Covers
    <3> QED BY <1>6, <3>1 DEF Sound
  <2>4. at[l] = j - 1 /\ at[l] \in 1..Len(line) /\ line[at[l]] \in Valued
    BY <2>1, <2>2, <2>3 DEF Covers
  <2> QED BY <1>1, <2>4 DEF IsValue
<1>7. Len(groups[k]) = 2 => at[k] < Len(line) BY <1>1, <1>4
<1> QED BY <1>1, <1>3, <1>4, <1>5, <1>6, <1>7

(* --listen counts wherever it stands: as a value it would be one of       *)
(* --baud, which takes numbers, or the endpoint.                           *)
LEMMA ListenCounts ==
  ASSUME NEW S, NEW line \in Seq(S), NEW groups \in Groups(S), NEW at, NEW k,
         Parsed(groups, at, line, Valued), Sound(groups, k),
         groups[k][1] = "--tcp", groups[k][2] \in Endpoints
  PROVE  <<"--listen">> \in ToSet(groups) <=> "--listen" \in ToSet(line)
<1> DEFINE listen == "--listen"
           alone == <<listen>>
<1>1. /\ DOMAIN groups = 1..Len(groups) /\ DOMAIN line = 1..Len(line) /\ Len(line) \in Nat
      /\ \A l \in DOMAIN groups : groups[l] \in Seq(S)
  BY SeqElements DEF Groups
<1>2. \A l \in DOMAIN groups : Covers(groups[l], at[l], line, Valued) BY <1>1 DEF Parsed
<1>3. Len(alone) = 1 /\ alone[1] = listen OBVIOUS
<1>4. listen \notin DOMAIN NumberOf /\ listen \notin Endpoints BY NumberOfAssumption
<1>5. listen \notin Valued BY DEF Valued
<1> HIDE DEF alone, listen
<1>6. ASSUME alone \in ToSet(groups) PROVE listen \in ToSet(line)
  <2>1. PICK l \in DOMAIN groups : groups[l] = alone BY <1>6 DEF ToSet
  <2>2. at[l] \in 1..Len(line) /\ line[at[l]] = listen BY <1>2, <1>3, <2>1 DEF Covers
  <2> QED BY <1>1, <2>2 DEF ToSet
<1>7. ASSUME listen \in ToSet(line) PROVE alone \in ToSet(groups)
  <2>1. PICK j \in 1..Len(line) : line[j] = listen BY <1>1, <1>7 DEF ToSet
  <2>2. PICK l \in DOMAIN groups : at[l] = j \/ (at[l] = j - 1 /\ Len(groups[l]) = 2)
    BY <1>1 DEF Parsed
  <2>3. Covers(groups[l], at[l], line, Valued) BY <1>2
  <2>4. CASE at[l] = j
    <3>1. groups[l][1] = listen /\ Len(groups[l]) = 1 BY <1>5, <2>1, <2>3, <2>4 DEF Covers
    <3>2. groups[l] \in Seq(S) BY <1>1
    <3>3. groups[l] = alone
      <4> DEFINE g == groups[l]
      <4>1. g \in Seq(S) /\ Len(g) = 1 /\ g[1] = listen BY <3>1, <3>2
      <4> HIDE DEF g
      <4>2. g = <<listen>> BY <4>1
      <4> QED BY <4>2 DEF alone, g
    <3> QED BY <3>3 DEF ToSet
  <2>5. CASE at[l] # j
    <3>1. Len(groups[l]) = 2 /\ groups[l][2] = listen /\ groups[l][1] \in Valued
      BY <1>1, <2>1, <2>2, <2>3, <2>5 DEF Covers
    <3>2. groups[l][1] # "--baud" BY <1>4, <3>1 DEF Sound
    <3>3. groups[l][1] \in Selecting BY <3>1, <3>2 DEF Valued, Selecting
    <3>4. l = k BY <3>3 DEF Sound
    <3> QED BY <1>4, <3>1, <3>4
  <2> QED BY <2>4, <2>5
<1> QED BY <1>6, <1>7 DEF alone, listen

(* What parse_transport_args() accepts has one choice of a transport, and  *)
(* that one is opened.                                                     *)
LEMMA OneTransport ==
  ASSUME NEW line, line \in Seq(ToSet(line)), ~Malformed(line), OpenAs(line) # "nothing"
  PROVE  \E i \in DOMAIN line :
           /\ Chosen(line, OpenAs(line), i)
           /\ \A j \in DOMAIN line \ {i} : line[j] \in Selecting => IsValue(line, j)
<1> DEFINE S == ToSet(line)
           groups == TransportGroups(line)
<1>1. groups = Grouped(line, Valued) BY DEF TransportGroups, Valued
<1>2. line \in Seq(S) OBVIOUS
<1> HIDE DEF S
<1>3. groups \in Groups(S) /\ \E at : Parsed(groups, at, line, Valued)
  BY <1>1, <1>2, GroupsCover
<1>4. PICK at : Parsed(groups, at, line, Valued) BY <1>3
<1>5. PICK k : Sound(groups, k) BY <1>3, SoundGroups
<1> DEFINE i == at[k]
           listens == <<"--listen">> \in ToSet(groups)
           link == OpenAs(line)
           given(option) == IF groups[k][1] = option /\ Len(groups[k]) = 2
                            THEN groups[k][2] ELSE Empty
<1>6. link = IF given("--port") # Empty THEN "serial"
             ELSE IF given("--tcp") = Empty THEN "pty"
             ELSE IF given("--tcp") \notin Endpoints THEN "nothing"
             ELSE IF listens THEN "listen" ELSE "connect"
  <2> HIDE DEF S
  <2> QED BY <1>3, <1>5, OpenAsIs
<1> HIDE DEF groups
<1>7. /\ k \in DOMAIN groups /\ i \in DOMAIN line /\ line[i] = groups[k][1]
      /\ line[i] \in Selecting /\ Len(groups[k]) \in {1, 2}
      /\ groups[k][1] \in Valued => Len(groups[k]) = 2
      /\ Len(groups[k]) = 2 => i < Len(line) /\ groups[k][2] = line[i + 1]
      /\ \A j \in DOMAIN line \ {i} : line[j] \in Selecting => IsValue(line, j)
  BY <1>2, <1>3, <1>4, <1>5, Choice
<1>8. line[i] = "--tcp" /\ groups[k][2] \in Endpoints
        => (listens <=> "--listen" \in ToSet(line))
  BY <1>2, <1>3, <1>4, <1>5, <1>7, ListenCounts
<1>9. link # "nothing" OBVIOUS
<1> HIDE DEF i, listens, link
<1>10. Chosen(line, link, i)
  <2>1. CASE line[i] = "--pty" BY <1>6, <1>7, <2>1 DEF Chosen
  <2>2. CASE line[i] = "--port"
    <3>1. Len(groups[k]) = 2 /\ i < Len(line) BY <1>7, <2>2 DEF Valued
    <3>2. given("--port") = line[i + 1] /\ given("--tcp") = Empty BY <1>7, <2>2, <3>1
    <3> QED BY <1>6, <2>2, <3>1, <3>2 DEF Chosen
  <2>3. CASE line[i] = "--tcp"
    <3>1. Len(groups[k]) = 2 /\ i < Len(line) BY <1>7, <2>3 DEF Valued
    <3>2. given("--tcp") = line[i + 1] /\ given("--port") = Empty BY <1>7, <2>3, <3>1
    <3>3. CASE line[i + 1] = Empty BY <1>6, <2>3, <3>1, <3>2, <3>3 DEF Chosen
    <3>4. CASE line[i + 1] # Empty
      <4>1. groups[k][2] = line[i + 1] BY <1>7, <3>1
      <4>2. line[i + 1] \in Endpoints BY <1>6, <1>9, <3>2, <3>4
      <4>3. listens <=> "--listen" \in ToSet(line) BY <1>8, <2>3, <4>1, <4>2
      <4>4. link = IF "--listen" \in ToSet(line) THEN "listen" ELSE "connect"
        BY <1>6, <3>2, <3>4, <4>2, <4>3
      <4> QED BY <2>3, <3>1, <3>4, <4>4 DEF Chosen
    <3> QED BY <3>3, <3>4
  <2> QED BY <1>7, <2>1, <2>2, <2>3 DEF Selecting
<1> QED BY <1>7, <1>10 DEF link

(* What main() opens is what its command line said.                        *)
Linked ==
  /\ args \in CommandLines
  /\ phase \notin {"starting", "ended"} => ~Malformed(args) /\ opts.link = OpenAs(args)
  /\ phase \notin {"starting", "opening", "ended"} => opts.link # "nothing"

(* Each step keeps it.                                                     *)
LEMMA LinkedStep == Linked /\ [Next]_vars => Linked'
<1> SUFFICES ASSUME Linked, [Next]_vars PROVE Linked'
  OBVIOUS
<1>1. CASE Start
  <2>1. args' = args /\ phase = "starting" BY <1>1 DEF Start
  <2>2. CASE PublisherExit(args) # 0
    <3>1. phase' = "ended" BY <1>1, <2>2, Zenon DEF Start, Exit
    <3> QED BY <2>1, <3>1 DEF Linked
  <2>3. CASE PublisherExit(args) = 0
    <3>1. ~Malformed(args) BY <2>3 DEF PublisherExit
    <3>2. \/ phase' = "ended"
          \/ phase' = "opening" /\ opts'.link = OpenAs(args)
      BY <1>1 DEF Start, Exit, Goto, Options
    <3> QED BY <2>1, <3>1, <3>2 DEF Linked
  <2> QED BY <2>2, <2>3
<1>2. CASE Open
  BY <1>2 DEF Open, Goto, Linked
<1>3. ASSUME args' = args, opts' = opts,
             \/ phase' \in {"ended", phase}
             \/ phase \notin {"starting", "opening", "ended"}
      PROVE  Linked'
  BY <1>3 DEF Linked
<1>4. CASE OpenFails
  BY <1>3, <1>4 DEF OpenFails, Exit
<1>5. CASE Replaying
  BY <1>3, <1>5 DEF Replaying, Check, GoSend, Send, Pace, NextRow
<1>6. CASE PeerReads \/ SendFails
  BY <1>3, <1>6 DEF PeerReads, SendFails, Goto, Exit
<1>7. CASE Interrupt \/ Sleep \/ Delay \/ UNCHANGED vars
  BY <1>3, <1>7 DEF Interrupt, Sleep, Delay, vars, codeVars
<1> QED BY <1>1, <1>2, <1>4, <1>5, <1>6, <1>7 DEF Next

(* The link is opened as the one transport the command line names, for     *)
(* command lines of any length.                                            *)
THEOREM OneTransportOpened == Spec => []OpensOneTransport
<1>1. Init => Linked BY DEF Init, Linked
<1>2. Spec => []Linked BY <1>1, LinkedStep, PTL DEF Spec
<1>3. Linked => OpensOneTransport
  <2> SUFFICES ASSUME Linked, phase \notin {"starting", "opening", "ended"}
               PROVE  OpensOneTransport
    BY DEF OpensOneTransport
  <2>1. args \in Seq(ToSet(args)) BY PublisherAssumption DEF Linked
  <2>2. PICK i \in DOMAIN args :
          /\ Chosen(args, opts.link, i)
          /\ \A j \in DOMAIN args \ {i} : args[j] \in Selecting => IsValue(args, j)
    BY <2>1, OneTransport DEF Linked
  <2>3. Names(i) BY <2>2, Zenon DEF Names, Chosen, Empty
  <2>4. \A j \in DOMAIN args \ {i} :
          args[j] \in {"--port", "--tcp", "--pty"} =>
            j > 1 /\ args[j - 1] \in {"--port", "--tcp", "--baud"}
    BY <2>2 DEF Selecting, IsValue, Valued
  <2> QED BY <2>3, <2>4 DEF OpensOneTransport
<1> QED BY <1>2, <1>3, PTL
=============================================================================

---------------------------- MODULE AttitudeStream ----------------------------
(***************************************************************************)
(* Attitude telemetry: a sensor that numbers its samples modulo 2^32       *)
(* (tools/apps/sensor_sim), a line that loses and damages frames, and the  *)
(* monitor that counts samples, bad frames and, from the gaps in the       *)
(* numbers, drops (apps/monitor, tools/apps/monitor).  The monitor's       *)
(* recording may be replayed by the publisher (apps/attitude_publisher):   *)
(* see Recording; None stands for no number expected yet, too.             *)
(***************************************************************************)
EXTENDS Recording, SequencesExt

CONSTANTS
  Running, AtEof, Interrupted,
  LineCap,       \* bound: frames on the way
  MaxSent,       \* bound: samples sent in all
  MaxRestarts    \* bound: times the sensor starts again

ASSUME AttitudeStreamAssumption ==
  /\ LineCap \in Nat /\ MaxSent \in Nat /\ MaxRestarts \in Nat

VARIABLES
  n,          \* stream(): samples sent since the sensor started
  line,       \* frames on the way; `index` counts every sample ever sent
  closed,     \* the sensor has closed its link
  monitor,    \* the counters of the monitor's loop, and expected_seq
  log,        \* lines of the recording
  stopped     \* why the monitor's loop has ended: Running, AtEof, Interrupted

codeVars == <<n, line, closed, monitor, log, stopped>>

VARIABLES
  total,      \* history: samples sent in all
  restarts,   \* history: restarts of the sensor
  first,      \* history: index of the first sample the monitor got
  last,       \* history: index of the latest one
  longest     \* history: longest run of samples lost between two it got

historyVars == <<total, restarts, first, last, longest>>
vars == <<codeVars, historyVars>>

NewMonitor == [count |-> 0, drops |-> 0, errors |-> 0, expected |-> None]

Init ==
  /\ n = 0 /\ line = <<>> /\ closed = FALSE
  /\ monitor = NewMonitor /\ log = <<>> /\ stopped = Running
  /\ total = 0 /\ restarts = 0 /\ first = 0 /\ last = 0 /\ longest = 0

-----------------------------------------------------------------------------
(* The sensor.                                                             *)
Stream ==
  /\ ~closed /\ total < MaxSent /\ Len(line) < LineCap
  /\ line' = Append(line, [ok |-> TRUE, seq |-> n % Modulus, index |-> total + 1])
  /\ n' = n + 1 /\ total' = total + 1
  /\ UNCHANGED <<closed, monitor, log, stopped, restarts, first, last, longest>>

(* The process ends and is started again on the same serial port.          *)
Restart ==
  /\ ~closed /\ restarts < MaxRestarts
  /\ n' = 0 /\ restarts' = restarts + 1
  /\ UNCHANGED <<line, closed, monitor, log, stopped, total, first, last, longest>>

CloseSensor ==
  /\ ~closed /\ closed' = TRUE
  /\ UNCHANGED <<n, line, monitor, log, stopped, historyVars>>

-----------------------------------------------------------------------------
(* The line: a frame disappears, or arrives with a bad FCS.                *)
Lose ==
  /\ \E i \in DOMAIN line : line' = RemoveAt(line, i)
  /\ UNCHANGED <<n, closed, monitor, log, stopped, historyVars>>

Damage ==
  /\ \E i \in DOMAIN line : line[i].ok /\ line' = [line EXCEPT ![i].ok = FALSE]
  /\ UNCHANGED <<n, closed, monitor, log, stopped, historyVars>>

-----------------------------------------------------------------------------
(* Mutant: the gap is taken as it is, across the wrap and restarts.        *)
MissedUnmasked(expected, seq) == IF expected = None THEN 0 ELSE seq - expected

Missed(expected, seq) == IF expected = None THEN 0 ELSE (seq - expected) % Modulus

(* Mutant: the next number is expected to equal the last one.              *)
ObserveSameAgain(m, frame) ==
  IF frame.ok
  THEN [m EXCEPT !.count = @ + 1,
                 !.drops = @ + Missed(m.expected, frame.seq),
                 !.expected = frame.seq]
  ELSE [m EXCEPT !.errors = @ + 1]

(* Mutant: a bad frame counts as a drop, though the gap will show it too.  *)
ObserveBadAsDrop(m, frame) ==
  IF frame.ok
  THEN [m EXCEPT !.count = @ + 1,
                 !.drops = @ + Missed(m.expected, frame.seq),
                 !.expected = (frame.seq + 1) % Modulus]
  ELSE [m EXCEPT !.errors = @ + 1, !.drops = @ + 1]

(* The body of the monitor's loop: a frame, good or bad, is counted.       *)
Observe(m, frame) ==
  IF frame.ok
  THEN [m EXCEPT !.count = @ + 1,
                 !.drops = @ + Missed(m.expected, frame.seq),
                 !.expected = (frame.seq + 1) % Modulus]
  ELSE [m EXCEPT !.errors = @ + 1]

(* What a frame says of the attitude does not matter here.                 *)
SampleOf(frame) == [c \in LogColumns |-> IF c = "seq" THEN frame.seq ELSE 0]

Receive ==
  /\ stopped = Running /\ line # <<>> /\ line' = Tail(line)
  /\ monitor' = Observe(monitor, Head(line))
  /\ LET frame == Head(line)
         lost  == frame.index - last - 1
     IN  IF frame.ok
         THEN /\ log' = Append(log, LogLine(SampleOf(frame)))
              /\ first' = IF monitor.count = 0 THEN frame.index ELSE first
              /\ last' = frame.index
              /\ longest' = IF monitor.count > 0 /\ lost > longest THEN lost ELSE longest
         ELSE UNCHANGED <<log, first, last, longest>>
  /\ UNCHANGED <<n, closed, stopped, total, restarts>>

(* Mutant: end of file is only noticed with a frame.                       *)
FinishMissed ==
  /\ stopped = Running /\ line # <<>> /\ closed /\ stopped' = AtEof
  /\ UNCHANGED <<n, line, closed, monitor, log, historyVars>>

(* next() returned nothing and the link is at end of file.  That comes of  *)
(* a closed TCP connection or pseudo-terminal; a serial port in C++ never  *)
(* reports it, and there the sensor only restarts and Ctrl-C ends the loop.*)
Finish ==
  /\ stopped = Running /\ line = <<>> /\ closed /\ stopped' = AtEof
  /\ UNCHANGED <<n, line, closed, monitor, log, historyVars>>

(* Ctrl-C: the loop ends between two frames, whatever is still on the way.  *)
Interrupt ==
  /\ stopped = Running /\ stopped' = Interrupted
  /\ UNCHANGED <<n, line, closed, monitor, log, historyVars>>

Monitor == Receive \/ Finish

Next == Stream \/ Restart \/ CloseSensor \/ Lose \/ Damage \/ Monitor \/ Interrupt

Spec == Init /\ [][Next]_vars

(* The monitor's loop runs on until end of file.                           *)
FairSpec == Spec /\ WF_vars(Monitor)

-----------------------------------------------------------------------------
(* The file the recording is, and what a monitor makes of a replay of it.  *)
Recorded == [columns |-> LogColumns, lines |-> log]

Watched(numbers) ==
  FoldLeft(LAMBDA m, k : Observe(m, [ok |-> TRUE, seq |-> k]), NewMonitor, numbers)

-----------------------------------------------------------------------------
TypeOK ==
  /\ n \in 0..total /\ total \in 0..MaxSent /\ restarts \in 0..MaxRestarts
  /\ \A i \in DOMAIN line : line[i].seq \in 0..(Modulus - 1) /\ line[i].index \in 1..total
  /\ closed \in BOOLEAN /\ stopped \in {Running, AtEof, Interrupted}
  /\ {monitor.count, monitor.drops, monitor.errors, first, last, longest} \subseteq Nat
  /\ monitor.expected \in 0..(Modulus - 1) \cup {None}
  /\ Len(log) = monitor.count

(* Samples sent from the first to the latest the monitor got.              *)
Span == last - first + 1

(* Samples received and drops counted add up to what was sent in between,  *)
(* across the wrap and whatever was lost or damaged, as long as the sensor *)
(* does not restart and no gap is as long as the numbers' range.           *)
DropsExact ==
  restarts = 0 /\ longest < Modulus /\ monitor.count > 0 =>
    monitor.count + monitor.drops = Span

(* Longer gaps lose whole ranges and nothing else: the monitor never       *)
(* reports a drop that did not happen.                                     *)
DropsModulo ==
  restarts = 0 /\ monitor.count > 0 =>
    /\ monitor.count + monitor.drops <= Span
    /\ (Span - monitor.count - monitor.drops) % Modulus = 0

(* The recording can be replayed as soon as it holds a sample.  A single   *)
(* pass of the publisher over it shows the next monitor the same samples   *)
(* and the same drops, also those of restarts; a looping replay shows none,*)
(* where the recording starts over and where the numbers wrap.             *)
ReplayFaithful ==
  /\ Unreadable(Recorded) <=> log = <<>>
  /\ log # <<>> =>
       LET rows  == RowsOf(Recorded)
           again == Watched(Replay(rows, FALSE, Len(rows)))
       IN  /\ again.count = monitor.count /\ again.drops = monitor.drops
           /\ \A k \in 0..(2 * Len(rows)) : Watched(Replay(rows, TRUE, k)).drops = 0

(* When the sensor closes, the monitor takes what is still on the way and  *)
(* stops, unless it was interrupted: on a transport that reports end of    *)
(* file, which TCP and the pseudo-terminal do and the serial port of C++   *)
(* does not.                                                               *)
MonitorStops ==
  closed ~> \/ stopped = Interrupted
            \/ stopped = AtEof /\ line = <<>>
=============================================================================

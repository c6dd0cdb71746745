------------------------------ MODULE Publisher ------------------------------
(***************************************************************************)
(* rs422-attitude-publisher (apps/attitude_publisher): a process that reads*)
(* its command line and a recording, opens the link and replays the rows,  *)
(* paced by --rate or by the recorded times, once or in a loop, until they *)
(* are sent, --count is reached or Ctrl-C stops it.  Time is counted in    *)
(* ticks of the recording's t_ms; the process may be held up between any   *)
(* two steps.                                                              *)
(***************************************************************************)
EXTENDS CommandLine, Recording, SequencesExt

CONSTANTS
  CommandLines,  \* what the process may be started with
  FileOf,        \* the CSV files there are, by path
  Period,        \* ticks between samples at the chosen rate
  MaxSent,       \* bound: samples of an endless loop
  MaxDelay       \* bound: ticks the process is held up

ASSUME PublisherAssumption ==
  /\ \A line \in CommandLines : line \in Seq(ToSet(line))
  /\ Period \in Nat \ {0} /\ MaxSent \in Nat /\ MaxDelay \in Nat
  /\ \A path \in DOMAIN FileOf :
       LET lines == FileOf[path].lines
       IN  /\ lines \in Seq(ToSet(lines))
           /\ \A i \in DOMAIN lines : \A c \in {"seq", "t_ms"} \cap DOMAIN lines[i] :
                lines[i][c] \in Int \cup {None, Text}

VARIABLES
  args,      \* the command line; constant
  phase,     \* where main() is: "starting" | "opening" | "checking" | "sending"
             \*   | "blocked" | "pacing" | "sleeping" | "ended"
  exit,      \* its exit status, Running until it ends
  opts,      \* what it made of its command line: the link, the rows, the modes
  stop,      \* g_stop
  row,       \* number of the row at hand
  emitted,
  prev,      \* prev_t_ms
  start,     \* when the replay began
  wake       \* when the sleep ends

codeVars == <<args, opts, phase, exit, stop, row, emitted, prev, start, wake>>

VARIABLES
  clock,     \* steady_clock
  delayed,   \* history: ticks in which the process was held up
  sent       \* history: the samples sent, with the time and `delayed' then

vars == <<codeVars, clock, delayed, sent>>

Running == -1
Killed == 141   \* SIGPIPE

Options(link, rows, loop, realtime, count) ==
  [link |-> link, rows |-> rows, loop |-> loop, realtime |-> realtime, count |-> count]

Rows == opts.rows

Init ==
  /\ args \in CommandLines /\ opts = Options("nothing", <<>>, FALSE, FALSE, None)
  /\ phase = "starting" /\ exit = Running /\ stop = FALSE
  /\ row = 1 /\ emitted = 0 /\ prev = None /\ start = 0 /\ wake = 0
  /\ clock = 0 /\ delayed = 0 /\ sent = <<>>

CountReached == opts.count # None /\ emitted >= opts.count

Goto(p) == phase' = p /\ exit' = exit
Exit(status) == phase' = "ended" /\ exit' = status

-----------------------------------------------------------------------------
(* main() up to open_transport(): arguments, file, signal handler.         *)
Refused(path) ==
  \/ path \notin DOMAIN FileOf
  \/ Unreadable(FileOf[path])
  \/ /\ Given(args, "--realtime")
     /\ \E i \in DOMAIN FileOf[path].lines : RowsOf(FileOf[path])[i].t_ms = None

Start ==
  /\ phase = "starting"
  /\ LET status == IF PublisherExit(args) # 0 THEN PublisherExit(args)
                   ELSE IF Refused(CsvPath(args)) THEN 1 ELSE 0
     IN  IF status # 0 THEN Exit(status) /\ opts' = opts
         ELSE /\ Goto("opening")
              /\ opts' = Options(OpenAs(args), RowsOf(FileOf[CsvPath(args)]),
                                 Given(args, "--loop"), Given(args, "--realtime"),
                                 CountOf(args, None))
  /\ UNCHANGED <<args, stop, row, emitted, prev, start, wake, clock, delayed, sent>>

(* open_transport() returns; with --listen only once a peer has connected, *)
(* and a signal does not interrupt accept().                               *)
Open ==
  /\ phase = "opening" /\ opts.link # "nothing"
  /\ Goto("checking") /\ start' = clock
  /\ UNCHANGED <<args, opts, stop, row, emitted, prev, wake, clock, delayed, sent>>

OpenFails ==
  /\ phase = "opening" /\ opts.link # "pty"
  /\ Exit(1)
  /\ UNCHANGED <<args, opts, stop, row, emitted, prev, start, wake, clock, delayed, sent>>

(* On to link.send(), whose ::write() sleeps while the link has no room, a *)
(* signal or not (write_all() tries again), for as long as the far end does*)
(* not read; on a terminal, which does not wait, it throws (SendFails).    *)
GoSend ==
  /\ emitted < MaxSent
  /\ Goto("sending") \/ (opts.link # "pty" /\ Goto("blocked"))

(* The conditions of the while loop and at the head of the for loop.       *)
(* Mutants: --count is only looked at between two passes; Ctrl-C is not    *)
(* looked at.                                                              *)
CheckCountEachPass ==
  /\ phase = "checking"
  /\ IF stop \/ (row = 1 /\ CountReached) THEN Exit(0) ELSE GoSend
  /\ UNCHANGED <<args, opts, stop, row, emitted, prev, start, wake, clock, delayed, sent>>

CheckCountOnly ==
  /\ phase = "checking"
  /\ IF CountReached THEN Exit(0) ELSE GoSend
  /\ UNCHANGED <<args, opts, stop, row, emitted, prev, start, wake, clock, delayed, sent>>

Check ==
  /\ phase = "checking"
  /\ IF stop \/ CountReached THEN Exit(0) ELSE GoSend
  /\ UNCHANGED <<args, opts, stop, row, emitted, prev, start, wake, clock, delayed, sent>>

(* The far end reads, and makes room.                                      *)
PeerReads ==
  /\ phase = "blocked" /\ Goto("sending")
  /\ UNCHANGED <<args, opts, stop, row, emitted, prev, start, wake, clock, delayed, sent>>

Send ==
  /\ phase = "sending" /\ Goto("pacing")
  /\ sent' = Append(sent,
       [row |-> row, at |-> clock, delayed |-> delayed,
        seq |-> IF opts.loop \/ Rows[row].seq = None THEN emitted % Modulus ELSE Rows[row].seq,
        t_ms |-> IF Rows[row].t_ms = None THEN (emitted * Period) % Modulus ELSE Rows[row].t_ms])
  /\ emitted' = emitted + 1
  /\ UNCHANGED <<args, opts, stop, row, prev, start, wake, clock, delayed>>

(* write() throws, or the peer has gone and SIGPIPE ends the process.      *)
SendFails ==
  /\ phase \in {"sending", "blocked"}
  /\ Exit(1) \/ (opts.link \in {"listen", "connect"} /\ Exit(Killed))
  /\ UNCHANGED <<args, opts, stop, row, emitted, prev, start, wake, clock, delayed, sent>>

(* Mutant: a period from now on.                                           *)
PaceFromNow ==
  /\ phase = "pacing" /\ Goto("sleeping")
  /\ wake' = IF opts.realtime
             THEN (IF prev = None THEN clock ELSE clock + Rows[row].t_ms - prev)
             ELSE clock + Period
  /\ prev' = IF opts.realtime THEN Rows[row].t_ms ELSE prev
  /\ UNCHANGED <<args, opts, stop, row, emitted, start, clock, delayed, sent>>

(* How long to sleep, after the sample was sent: until the next one is due,*)
(* or as long as this row is after the last.                               *)
Pace ==
  /\ phase = "pacing" /\ Goto("sleeping")
  /\ wake' = IF opts.realtime
             THEN (IF prev = None THEN clock ELSE clock + Rows[row].t_ms - prev)
             ELSE start + emitted * Period
  /\ prev' = IF opts.realtime THEN Rows[row].t_ms ELSE prev
  /\ UNCHANGED <<args, opts, stop, row, emitted, start, clock, delayed, sent>>

(* Mutant: prev_t_ms survives the pass.                                    *)
NextRowKeepsPrev ==
  /\ phase = "sleeping" /\ clock >= wake
  /\ IF row < Len(Rows) THEN row' = row + 1 /\ Goto("checking")
     ELSE row' = 1 /\ IF opts.loop THEN Goto("checking") ELSE Exit(0)
  /\ UNCHANGED <<args, opts, stop, prev, emitted, start, wake, clock, delayed, sent>>

(* Mutant: one pass follows the other whatever --loop says.                *)
NextRowLoops ==
  /\ phase = "sleeping" /\ clock >= wake /\ Goto("checking")
  /\ IF row < Len(Rows) THEN row' = row + 1 /\ prev' = prev ELSE row' = 1 /\ prev' = None
  /\ UNCHANGED <<args, opts, stop, emitted, start, wake, clock, delayed, sent>>

(* The sleep, which a signal does not cut short, is over, or was none; on  *)
(* to the next row, and from the last one to the next pass or the end.     *)
NextRow ==
  /\ phase = "sleeping" /\ clock >= wake
  /\ IF row < Len(Rows)
     THEN row' = row + 1 /\ prev' = prev /\ Goto("checking")
     ELSE row' = 1 /\ prev' = None /\ IF opts.loop THEN Goto("checking") ELSE Exit(0)
  /\ UNCHANGED <<args, opts, stop, emitted, start, wake, clock, delayed, sent>>

-----------------------------------------------------------------------------
(* Ctrl-C, once the handler is in place; before, it ends the process.      *)
Interrupt ==
  /\ phase \notin {"starting", "ended"} /\ ~stop
  /\ stop' = TRUE
  /\ UNCHANGED <<args, opts, phase, exit, row, emitted, prev, start, wake, clock, delayed, sent>>

Asleep == phase = "sleeping" /\ clock < wake

(* A tick of the sleep, or one in which the process did not get on: it was *)
(* not scheduled, or blocked.                                              *)
Sleep ==
  /\ Asleep /\ clock' = clock + 1
  /\ UNCHANGED <<codeVars, delayed, sent>>

Delay ==
  /\ phase \in {"checking", "sending", "blocked", "pacing", "sleeping"} /\ ~Asleep
  /\ delayed < MaxDelay /\ delayed' = delayed + 1 /\ clock' = clock + 1
  /\ UNCHANGED <<codeVars, sent>>

-----------------------------------------------------------------------------
Replaying == Check \/ Send \/ Pace \/ NextRow

Next ==
  \/ Start \/ Open \/ OpenFails
  \/ Replaying \/ PeerReads \/ SendFails
  \/ Interrupt \/ Sleep \/ Delay

Spec == Init /\ [][Next]_vars

(* The process goes on and time passes; nobody has to connect to it, or to *)
(* read what it writes.                                                    *)
FairSpec == Spec /\ WF_vars(Replaying) /\ WF_vars(Sleep)

-----------------------------------------------------------------------------
Started == phase \notin {"starting", "opening"} /\ emitted > 0

TypeOK ==
  /\ stop \in BOOLEAN
  /\ phase \in {"starting", "opening", "checking", "sending", "blocked", "pacing", "sleeping",
                "ended"}
  /\ exit \in {Running, 0, 1, 2, Killed} /\ (exit = Running <=> phase # "ended")
  /\ emitted \in 0..MaxSent /\ Len(sent) = emitted /\ delayed \in 0..MaxDelay
  /\ \A k \in DOMAIN sent : {sent[k].seq, sent[k].t_ms} \subseteq 0..(Modulus - 1)
  /\ prev \in 0..(Modulus - 1) \cup {None}

(* What was sent is the recording, row by row and pass by pass, with the   *)
(* numbers a replay is to carry; and a replay that ends by itself has sent *)
(* all of it: --count samples, or as many as a single pass has.            *)
ReplaysRecording ==
  Started =>
    /\ [k \in DOMAIN sent |-> sent[k].seq] = Replay(Rows, opts.loop, emitted)
    /\ \A k \in DOMAIN sent : sent[k].row = ((k - 1) % Len(Rows)) + 1
    /\ exit = 0 /\ ~stop =>
         IF opts.count # None /\ (opts.loop \/ opts.count < Len(Rows)) THEN emitted = opts.count
         ELSE ~opts.loop /\ emitted = Len(Rows)

(* At a fixed rate a sample is never early, and a sample that is late made *)
(* up for it before the next one is due: lateness does not add up.         *)
OnSchedule ==
  ~opts.realtime => \A k \in DOMAIN sent :
    LET due      == start + (k - 1) * Period
        earliest == IF k > 1 /\ sent[k - 1].at > due THEN sent[k - 1].at ELSE due
        held     == sent[k].delayed - (IF k > 1 THEN sent[k - 1].delayed ELSE 0)
    IN  sent[k].at \in earliest..(earliest + held)

(* The recorded time before row n, and up to row n of a pass: where the    *)
(* recorded clock goes back there is no time.                              *)
GapBefore(n) ==
  IF n = 1 \/ Rows[n].t_ms < Rows[n - 1].t_ms THEN 0 ELSE Rows[n].t_ms - Rows[n - 1].t_ms

Recorded(n) ==
  LET upTo[i \in 0..Len(Rows)] == IF i = 0 THEN 0 ELSE upTo[i - 1] + GapBefore(i) IN upTo[n]

(* With --realtime a pass takes the time that was recorded, and so does    *)
(* every one of a loop, neither stretched nor cut by the passes before it: *)
(* but for the delays of the process, a sample is sent after the recorded  *)
(* time of the row before it and not after its own, and the next pass      *)
(* begins when this one has taken its time.                                *)
KeepsRecordedPace ==
  opts.realtime => \A k \in DOMAIN sent :
    LET n       == sent[k].row
        took(l) == (sent[k].at - sent[k].delayed) - (sent[l].at - sent[l].delayed)
    IN  /\ took(k - n + 1) \in Recorded(n - 1)..Recorded(n)
        /\ n = 1 /\ k > 1 => took(k - Len(Rows)) = Recorded(Len(Rows))

(* "--realtime: honour the recorded t_ms timing (gaps and all)": samples of*)
(* neighbouring rows are sent at least as far apart as they were recorded. *)
HonoursRecordedGaps ==
  opts.realtime => \A k \in DOMAIN sent :
    sent[k].row > 1 => sent[k].at - sent[k - 1].at >= GapBefore(sent[k].row)

(* The link is opened as the one transport the command line names (cli.hpp:*)
(* "Exactly one of {port, tcp, pty} is chosen"), what looks like another   *)
(* being the value of an option; an empty value opens a terminal instead.  *)
Names(i) ==
  \/ args[i] = "--pty" /\ opts.link = "pty"
  \/ i < Len(args) /\ args[i + 1] = "" /\ args[i] \in {"--port", "--tcp"} /\ opts.link = "pty"
  \/ i < Len(args) /\ args[i + 1] # "" /\ args[i] = "--port" /\ opts.link = "serial"
  \/ i < Len(args) /\ args[i + 1] # "" /\ args[i] = "--tcp"
     /\ opts.link = IF "--listen" \in ToSet(args) THEN "listen" ELSE "connect"

OpensOneTransport ==
  phase \notin {"starting", "opening", "ended"} =>
    \E i \in DOMAIN args :
      /\ Names(i)
      /\ \A j \in DOMAIN args \ {i} :
           args[j] \in {"--port", "--tcp", "--pty"} =>
             j > 1 /\ args[j - 1] \in {"--port", "--tcp", "--baud"}

(* Ctrl-C ends the replay in the end, through any recorded gap, unless the *)
(* far end has stopped reading for good: it ends neither a process that    *)
(* waits in accept() nor one that waits in ::write().                      *)
StopEnds == stop /\ phase # "opening" ~> phase = "ended" \/ [](phase = "blocked")

(* So does the end of the recording, unless it loops without a --count.    *)
ReplayEnds ==
  phase = "checking" /\ ~(opts.loop /\ opts.count = None)
    ~> phase = "ended" \/ [](phase = "blocked")
=============================================================================

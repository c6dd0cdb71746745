# RS-422-Tools: verification project

RS-422-Tools moves two kinds of data over a point-to-point RS-422 line: attitude
samples streamed by a sensor to a monitor, and register reads and writes from a
command host (`c2`) to a device. The production code is C++ (`src/src`,
`src/apps`); a Python package (`src/tools`) is the reference for the wire format
and holds the simulators that stand in for the hardware. This directory holds
TLA+ models of that code, the TLC runs that check them and proofs for TLAPS.

All paths below are relative to the repository root.

## 1. Inventory

| Part | State | Operations | Interacts with | What is hard | Correct when |
|---|---|---|---|---|---|
| FCS-16 (`src/fcs.cpp`, `tools/serial_link/framing/fcs.py`) | none (a generated table) | `table`, `fcs16`, `frame_fcs`, `check_fcs` | framing | a wrong entry or order detects most damage and lets some pass | a frame is accepted exactly when it is intact, for the damage the polynomial is meant to catch |
| Framing (`src/framing.cpp`, `framing.py`) | `FrameDecoder`: `buf_`, `in_frame_`, `esc_` | `encode`, `feed`, `finish` | FCS, link | flags shared by two frames, escapes cut off, joining mid-stream, runts | what is encoded comes out, whatever came before; noise costs at most one frame each |
| Codec (`src/codec.cpp`, `src/messages.cpp`, `codec.py`) | none | `encode`, `decode`, six messages | link, applications | body lengths, octet order, unknown types | decoding is exact: one encoding per message |
| Framed link (`src/link.cpp`, `link.py`) | `decoder_`, `inbox_` | `send`, `next`, `request`, `close` | transport, codec, applications | reads split and merge frames; deadline against late data; end of file against the inbox | a FIFO of whole messages; nothing left behind at end of file |
| Transports (`src/transport.cpp`, `virtual.py`, `cable.py`) | descriptor, `eof` | open, `read`, `write`, `close`, `listen_one` | the operating system | short writes, resets, end of file on a pseudo-terminal | octets in order; `eof` only when the peer is gone |
| Register model (`tools/apps/device_sim/registers.py`) | the bank | `read`, `write`, `respond` | device | ranges, read-only registers, what not to answer | one reply to a request, none to anything else |
| Device (`device_sim.py`) | the bank across connections, counters, log | `serve`, the accept loop | link, register model, audit log | clients that leave early, reconnects | keeps serving; acts once per request |
| Command host (`apps/c2/main.cpp`, `c2.py`) | one request | parse, request, classify, log, exit code | link, audit log | correlation by position only; fields narrower than what was typed; no signal handler | reports the reply to its own request, or none; its status and its row tell the truth |
| Audit log (`tools/apps/c2_log.py`, `append_log` in c2) | a CSV file shared by processes | append | c2, device | two openers deciding on the header; failure after the effect | header first; one row per transaction; host and device agree |
| Monitor (`apps/monitor/main.cpp`, `monitor.py`) | counts, drops, errors, `expected_seq` | the receive loop | link, CSV log | wrap at 2^32, sensor restarts | the counters add up to what was sent |
| Sensor simulator, publisher (`sensor_sim.py`, `apps/attitude_publisher`) | sequence number, clock, row, `g_stop` | `stream`, replay loop, Ctrl-C | link, CSV log | looping, pacing, missing columns, waits that a signal does not end | the recording is sent, in time, and the process stops when told to |
| Attitude CSV log (`src/attitude_log.cpp`, `attitude_log.py`) | a file | write, read | monitor, publisher | missing fields, rounding | a replayed recording is the recording |
| Command line (`src/cli.cpp`) | none | `parse_transport_args`, `open_transport` | all | options that take any token, empty values | the one transport that was named is opened |
| Frame log (`src/framelog.cpp`) | none | format | link | - | - |

The layers call downwards (application, link, framing and codec, transport); the
only callbacks are exceptions and the `eof` flag. Each process is
single-threaded: concurrency is between the two ends of a line, between processes that
share a TCP listener or a log file, and between a deadline and data on its way.

## 2. Modules

| Module | Models | State and actions |
|---|---|---|
| `Fcs` | the FCS in full, with the table generated as the code generates it | operators; a 16-bit value is a record of two octets |
| `Framing` | `encode()`, and `FrameDecoder` as its state and the body of the loop in `feed()` | operators `DecoderAfter`, `FramesAfter`, `Feed` |
| `Codec` | the six messages, `encode_message()`, `decode()` with its errors | operators; 32-bit fields and floats are their four octets |
| `WireFormat` | one INFO field after another, built like `put_u8` and `put_u32be` build it | `info`; the properties encode and decode it |
| `FcsGuard` | the sender's and the receiver's running FCS over the same frame while the line damages one octet or two adjacent ones | `tx`, `rx`, `trailer`; `Cover`, `AppendFcs`, `SendFcs` |
| `FrameChannel` | abstract: a FIFO that may lose messages, one for each disturbance | `queue`, `delivered`; `Put`, `Deliver`, `Disturb`, `Close` |
| `FramedLink` | a sending application, the line, and a receiver looping around `next()` | `out`, `line`, `chunk`, `decoder`, `frames`, `inbox`, `got`; one action per step of `send`, the line and `next` |
| `Registers` | `RegisterStore` and `respond()` | operators `Reply`, `RegsAfter` |
| `C2Link` | `request()`, c2's classification and `serve()` over a line seen frame by frame | `waiting`, `results`, `toDevice`, `toHost`, `regs`, `served` |
| `RegisterBank` | abstract: a bank that takes each command once at most, in one step | `Take`, `Report` |
| `C2Tcp` | several one-shot c2 processes, from their command line to their exit status, against the device in `--tcp --listen` mode | accept loop, `Execute`/`SendReply`/`LogTxn`, connection ends (`fin`, `reset`); `ProbeLog`/`OpenLog`/`WriteLog` on files the commands share; `Kill` |
| `CommandLine` | `parse_transport_args()`, `open_transport()`, the options of attitude_publisher and c2 | operators on sequences of tokens |
| `Recording` | the CSV file between monitor and publisher, and the numbers of a replay | operators `LogLine`, `RowsOf`, `Unreadable`, `Replay` |
| `Publisher` | attitude_publisher, a process with a clock | `phase`, `opts`, `row`, `emitted`, `prev`, `wake`, `stop`; one action per step of `main()`, the phase `blocked` for a `::write()` that waits for room, `PeerReads`, `Interrupt`, `Sleep`, `Delay` |
| `AttitudeStream` | sensor, a line that loses and damages frames, the monitor's counters and its recording, whose replay it watches again | `n`, `line`, `monitor`, `log`; `Stream`, `Restart`, `Receive`, `Finish`, `Interrupt` |
| `Transport` | an application on the master side of a pseudo-terminal or on a serial port, in C++ or Python | `process`, `writing`, `out`, `in`; `WriteSome`, `WriteFails`, `ReadSome`, `ReadEof`, and a far end that opens, reads, writes and closes |
| `FcsFacts` | what the proofs use of the table: facts about all 256 octets | `ASSUME`s |
| `DataFacts` | what the proofs use of sequences, remainders, folds and induction | lemmas |
| `FcsGuardProofs`, `TransportProofs`, `FramingProofs`, `C2LinkProofs`, `C2TcpProofs`, `AttitudeProofs`, `PublisherProofs` | the theorems about `FcsGuard`; `Transport`; `Framing`, `Codec`, `WireFormat` and `FramedLink`; `C2Link`; `C2Tcp`; `AttitudeStream` and `Recording`; `Publisher` and `CommandLine` | section 4 |
| `MC*` | the values the runs use | |

`CommandLine` is used by `Publisher` and `C2Tcp`, `Recording` by `AttitudeStream`, where it is
written, and `Publisher`, where it is read. The two meet in `Replay`: `ReplaysRecording` shows that the
publisher sends just that, `ReplayFaithful` what a monitor makes of it.

`FramedLink` carries real octets with real FCS values. `C2Link` stands on what
`FramedLink` shows: frames arrive in order, whole or flagged bad, or not at all.
The request numbers in `C2Link` and the variables `answer`, `order` and `before` of
`C2Tcp` are history: the code has no transaction numbers, and no guard of an
action reads them. Definitions introduced by a comment "Mutant" are not part of the
model: each is a bug its original could have had, and shows that a
property notices it.

## 3. What the runs check

The theorems of section 4 have none of these bounds; the runs look for what is wrong before a proof is tried, and check
liveness.

| Run | Question | Bounds, and why they are enough |
|---|---|---|
| `wire_format` | Is a framed INFO field transparent, does it come out of a decoder in any interrupted state, is decoding exact? | INFO of up to 6 octets over every type id, an unknown one, and the octets that need stuffing (1, 0x7D, 0x7E): bodies of every wrong length around each fixed one, stuffed FCS octets; attitude samples from two words. The decoder is in one of 10 interrupted states or new. |
| `framed_link` | Does the link implement `FrameChannel` under noise, and do all intact frames come out when reads split and merge them and the peer closes? | Three settings. `Noisy`: two different messages in every order, two disturbances (lost, altered, inserted octets; flag, escape, ordinary), at every octet, with `LineCap = ReadSize = 1`: the de-framer sees one octet at a time, which is all its loop can tell. `Split`: reads of three octets of a frame and its neighbour, one stray flag or lost octet anywhere. `Bursts`: reads of up to 26 octets over two 13-octet frames, so a read returns any cut of both. |
| `fcs_guard` | Does the FCS accept exactly intact frames? | Two covered octets, all 255 damaged values of one octet or two adjacent ones; TLC also evaluates the facts of `FcsFacts` for all 256 octets. |
| `c2_line` | What may a host rely on that correlates by position? | Three requests out of five kinds (reads in and out of range, writes to two values, a read-only register), timeouts at any time: a request given up, one that takes its late reply and a third to show the shift. Two faults: a frame lost or damaged in either direction, or a stray, a response or a telemetry sample, which the device answers with a Nak; two strays shift the replies by two. |
| `c2_tcp` | Do concurrent one-shot commands behave as one atomic bank? Do their logs, the device's and their exit statuses agree? | A write and a read of the same register, typed wider than their fields, and a write that is refused; a listener backlog of two, so that a third command is refused or left behind; two commands share an audit log, the fewest for a race; one command may be killed anywhere; a fourth lacks its value. |
| `attitude_stream` | Do samples received and drops counted add up to what was sent? Does a replay show the same? | Numbers modulo 3 and seven samples: two wraps, a gap of a whole range and a gap across the wrap; one restart at any point. |
| `transport` | Does `write()` put every frame on the line whole, what is lost where it does not, and does the receive loop end when the far end has gone? | All four implementations. Three frames of three octets over a buffer that holds four, so that a frame is cut at each octet; a far end that is absent, opened, closed and opened again. `WritesWhole` is for the implementations that loop in `write()`, `StopsWithPeer` for all but the C++ serial port (section 5). |
| `publisher` | Does the publisher send the recording, in time, over the transport that was named, and does it stop? | All command lines of up to four of nine tokens (an option and its value taken for one another, twice, empty), and longer ones for every mode and file; a recording of three rows with a wrapped number and a clock that runs backwards, a file without times and with a short line, three that are refused (no column, no value, a value that is not a number); a `--count` below zero. Seven samples: two passes and the start of a third; two ticks of delay at any point, Ctrl-C at any point, and a far end that stops reading at any sample, for a while or for good. |
| `late_reply`, `early_eof`, `device_down`, `recorded_gaps` | disagreements between a document or comment and the code, section 5 | the smallest instance that shows each |

Deadlock checking is off where the programs really stop: the sender of
`FramedLink` closes, `C2Link` and `C2Tcp` run out of commands, `FcsGuard` ends
with its frame, the monitor, the publisher and the receive loop of `Transport` end.

**Fairness.** `FramedLink!FairSpec` gives weak fairness to the receiver only: the
application calls `next()` in a loop and each step of it terminates. Nothing is
assumed of the sender or the line. `C2Tcp!FairSpec` gives it to the device,
a loop, and to a c2 process that has connected, whose wait is bounded by the deadline.
`Connect` is not fair: nobody has to run a command, and nobody kills one. `ServingEnds` so says what c2's bounded
wait gives the device; `serve()` has no limit of its own, and another client that connected and sent nothing would keep it.
`Publisher!FairSpec` gives it to the replay loop and to the time that passes in a sleep, not to
`Open`: with `--listen` a peer may never come; and not to `PeerReads`: `::write()` waits for room on the link without a limit
(`src/transport.cpp:63-74`, which calls it again after a signal), and nobody has to read. `StopEnds` and `ReplayEnds` name
a process that is blocked for ever as the one other end. `AttitudeStream!FairSpec` and
`Transport!FairSpec` give it to the loop around `next()` (and to a `write()` in
progress), which no call blocks for ever: every read is bounded by a timeout or does not
block. `MonitorStops` supposes a transport that reports end of file (TCP, a pseudo-terminal), which the C++ serial port is
not (section 5). The sensor, Ctrl-C, the line and the far end are not fair.

## 4. What is proved

TLAPS checks a proof of every invariant and action property that a run checks over real
behaviours, except those named at the end of this section. The bounds in the models (`MaxRequests`, `MaxSent`, `LineCap`, ...) are
arbitrary numbers in the theorems, and so are the messages, command lines, files and devices; what is
assumed of a constant is its named `ASSUME`, which the runs evaluate.

**Loops over sequences.** `feed()`, `fcs16()`, the parsing loop, `append` in a loop and the monitor watching a
recording are folds or recursive functions over sequences of any length. `DataFacts` reduces them to loops:
`Induction` and `SeqInduction` state induction with a set in place of a predicate,
`FoldExists`, `FoldRuns` show that a fold has a value and that it is the last of a run of steps
(`Loop`), `LoopNext` what one element more does. The lemmas `FeedNext`, `FcsNext`, `StuffedNext`, `FlattenNext`,
`WatchedNext`, `GroupedNext` are instances, and everything below is induction on them.

**`FcsGuardProofs`**, for frames of any length over any octets: `FcsInvariant == Spec => []IInv` and
`FcsAcceptsExactlyIntact == Spec => []AcceptsExactlyIntact`. The acceptance property is not inductive: it speaks of
the last state only. `IInv` adds that the registers of sender and receiver agree while nothing is damaged, that their
high octets differ right after the first damaged octet, and that they differ ever after; and how far the complemented
FCS has driven the sender's register to the residual. The steps rest on three facts: exclusive or cancels
(`XorCancels`), the high octets of the table are all different (so one damaged octet shows in the high octet,
`FirstHit`, and the next octet, damaged or not, cannot undo it, `SecondHit`, `StaysDifferent`), and the two FCS octets
lead to the residual (`LowFcsOctet`, `HighFcsOctet`). The facts about the 256 entries are the `ASSUME`s of `FcsFacts`, which
TLC evaluates from the generated table in the run `fcs_guard`.

**`TransportProofs`**, for frames of any length, any capacity of the system's buffer and any number of frames:
`TransportTypes`, `FramesWritten` (`WritesWhole`, for the implementations whose `write()` loops) and `TailsOnly` (`OnlyTailsLost`, for
all). `WritesWhole` is inductive with the types, which need `PeerCount`, how often a far end can have been closed;
`OnlyTailsLost` needs `OneFirst` as well: what a call left of a frame does not begin one, so that dropping it loses a tail. The proofs
are about sequences: `MoveHead` for an octet the far end reads, `SplitAt` for the part of a frame one call hands over, `OneFrameMore` and
`FirstOfFrame` for the next `send()`.

**`FramingProofs`**, framing, codec and the framed link.

- `MessagesRoundTrip`: `decode(encode(m)) = m` for every message, a `ReadResponse` with any number of values included;
  `CodecIsCanonical`: nothing else decodes to `m`. Both go message by message over the octets of the bodies.
- `FramesAreTransparent` and `DecoderSelfHeals`, for INFO fields of any length and every state of the decoder:
  `StuffedIn` shows that stuffed octets fed to an open decoder leave it with the octets before stuffing, `FrameChecks` that
  the FCS appended to any frame is accepted, and `Comes` puts them together: the frame comes out last,
  after the one its opening flag may close. What an `INFO` field holds is the inductive `InfoIsOctets`.
- `LinkInvariant` and `BadFramesAreNoise`, for all messages of the catalogue, noise octets and read sizes. The property counts
  what came out; `Debris` counts as well what will come out of all octets under way and of a flag after them
  (`Ending`), because a closing flag that was hit leaves a frame open which only the next flag closes. A disturbance
  puts one octet in the place of another, and the two receivers that hear what was and what would have been agree again after
  the next flag (`ReceiversAgree`), so it adds two bad frames at most (`Disturbed`): one it forges and one it splits.
  Sending adds no bad frame (`SentComes`, `IdleFlag`), and the receiver only moves them along (`ReceiverKeeps`).
- `EofLeavesNothing` (`NothingLeftAtEof`) counts messages in the same way: `Kept` says that every frame that left whole is held or will come out
  of the octets under way, a frame still unhurt on its way is one more, and at end of file nothing is under way.

**`C2LinkProofs`**, for any bank, any set of read and write requests, stray messages, number of requests, faults and timeouts:
`C2LinkTypes`, `PositionCorrelates`, `SlipsDoShow`, `RepliesDoAdvance`, `ServedOnce`, `ReadsAreConsistent` and the
action property `RequestsAreAnswered`. A stray may be any message but a request: `C2LinkAssumption` says no more than that the line has
one host. A *slip* is a result that used up a request without one of its replies: a timeout, or the device's answer to a
stray. The inductive invariant (`C2LinkInvariant`) is

- `Carried`, `Forth`, `Back`: the frames on the line that are not a stray's carry the host's requests and the replies to them, numbered
  upwards on both sides, those ahead of the device later than all it served, those ahead of the host later than all it took; what a
  stray draws is the refusal of an unknown command;
- `Concluded`: a slip is a timeout, a bad frame or that refusal (from which `SlipsShow`);
- `Late`: what is on the line, and each reply taken, lags by no more requests than have slipped before (this is what
  `RepliesAdvance` says of results and needs of the line; with no slip before, it is `CorrelatedUntilSlip`);
- `Values`: the bank, every reply on the line and every reply taken hold what the last write *served* before them left
  (`Held`, `Writes`), from which `ConsistentReads`, which speaks of acknowledged and abandoned writes only, follows.

A fault leaves a subsequence of a channel, garbled here and there (`Thinned`), and all parts pass to subsequences.

**`C2TcpProofs`**, for any number of commands with any arguments, any bank and any files: `C2TcpTypes`, `NothingLate`, `HeadersFirst`,
`AuditIsComplete`, `AuditsDoAgree`, `ExitCodesTell` and the refinement `BankImplemented == Spec => ImplementsBank`. The inductive
invariant (`C2TcpInvariant`) has a part for each thing that has to agree: `Requests` and `Replies` (what a socket holds belongs to
its command), `Reports` (a command reports once, its own reply or none), `Connections` and `Earlier` (who may still be served), `Logs` (the device's rows
against the order of execution), `Files` and `Endings` (the rows of the commands against their reports and exit statuses;
`headed` remembers what a process saw in the file before others wrote). The refinement follows step by step: `Execute` is the
bank's `Take`; a reply received, a failure, a timeout and a kill before the outcome was told are its `Report`; all the rest, a later kill
included, changes nothing the bank shows.

**`AttitudeProofs`**, for any modulus, any number of samples and of losses: `StreamTypes`, `DropsCounted` (`DropsExact`), `DropsCountedModulo`
(`DropsModulo`) and `ReplayIsFaithful`. `InOrder`, `Numbered` and `Watching` say that frames arrive in the order sent with the numbers of a sensor that did not restart, and that the monitor
expects the number after its latest; `RemainderOfDifference` and `WholeRangesAdd` then carry the two drop counts over a
received frame. `ReplayFaithful` rests on `Shown`: a monitor that is shown the recorded numbers has counted what this one has.

**`PublisherProofs`**, for any command line, any recording, rate, `--count` and delays: `PublisherTypes`, `RecordingReplayed`,
`KeepsSchedule`, `PassesKeepPace` (`KeepsRecordedPace`) and `OneTransportOpened`. `Places`, `OnePass`, `Numbers` and `Amount` tie the samples sent to the row at hand; `Schedule` says when the
sample at hand is due and how late it can be by now, `Gaps` the same with the recorded times (`OnSchedule` speaks of samples
already sent). `GapsKeptOneLate`, the distance of one sample to the next, is added up along a pass by `NextPlace` and `PaceIsKept`, with
`RecordedIs` for the recorded times. `OneTransportOpened` is about the parsing loop: `GroupsCover` shows that every token is in one
group, as itself or as the value of the option before it, `SoundGroups` what the loop's checks leave, `OneTransport` that this is the
transport `open_transport()` opens. It needs that `--listen` is neither a number nor of the form HOST:PORT (`NumberOfAssumption`).

**Model-checked only.** Liveness (`IntactArrives`, `ServingEnds`, `StopEnds`, `ReplayEnds`, `MonitorStops`, `StopsWithPeer`) is out of the
prover's reach. `ImplementsChannel` is true of the bounded noise of `framed_link` only: enough disturbances turn one
frame into another with a valid FCS, so there is no theorem for every value of `MaxNoise`.

## 5. Disagreements found

- `late_reply`: `docs/idd-registers.md:203-205` requires the host to drain or ignore
  unexpected frames before the next request. `FramedLink::request` does neither and
  c2 does not compare the reply with the request, so after a timeout the late reply
  passes for the next one's. (`CorrelatedUntilSlip` shows that a timeout or an answered stray is the
  only way there, `SlipsShow` that the host could tell.)
- `device_down`: a command that times out just before its reply arrives closes a
  socket with unread data, which resets the connection; the device's `recv` raises and nothing
  catches it, against "re-accepts a new connection after each client disconnects".
- `recorded_gaps`: with `--realtime` the publisher sleeps a gap after it has sent the row the gap leads up to
  (`apps/attitude_publisher/main.cpp:106-109`): rows of 0, 500, 600 and 1600 ms leave at 0, 0, 0.5 and
  0.6 s, and the last second is slept when all is sent. `attitude_publisher.py:9,64`, of which it is the port, has the recorded
  timing honoured, "gaps and all". What does hold is `KeepsRecordedPace`: each sample goes out between the recorded times of the row before
  it and its own, and a pass takes the recorded time.
- `early_eof`: `PtyTransport` closes its slave side at once, so until a peer opens it every
  read fails with `EIO`, which is taken for end of file: `rs422-monitor --pty` and
  `device_sim --pty` stop at once (`README.md:105` offers `--pty` to all apps), and `c2 --pty` does
  not wait for its deadline.

Seen while modelling, without a run of their own (the publisher's and c2's were confirmed by running
the programs):

- `docs/idd-registers.md:192-193` and the docstring of `respond()` (`registers.py:44-46`) have telemetry frames ignored on the
  register line; `respond()` answers `Nak(UNKNOWN_CMD)` (`registers.py:68`), as `tools/tests/test_registers.py:58-61` expects. On a line that
  telemetry strays onto, the host may take that Nak for its reply, and its replies are one late from then on without a timeout.
  `c2_line` has such strays.
- `apps/attitude_publisher/main.cpp:77` has "Ctrl-C to stop". `std::signal` restarts `accept()`, so Ctrl-C does not end a publisher or
  monitor that waits for its peer with `--tcp ... --listen`; it ends with no sample once a peer comes. Nor does it end one whose peer has
  stopped reading: `write_all()` calls `::write()` again after a signal. `StopEnds` names both.
- `--port ""` and `--tcp ""` count as a choice and open a pseudo-terminal (`src/cli.cpp:51`);
  `include/serial_link/cli.hpp:15` has exactly one of three chosen. `OpensOneTransport` states it.
- c2 exits with 0 also when the device answers with a Nak. Its audit log holds the argument as typed
  (`read 0 257` logs 257 and requests 1), while `tools/apps/c2_log.py:12` has the count or the value.
- Two commands that log to a new file at once write two headers (`HeaderFirst` shows no row comes before one).

- A request of an unregistered type id does not decode, so `serve()` drops it;
  `docs/idd-registers.md:191` has it answered with `Nak(UNKNOWN_CMD)`.
- A sensor that restarts after k samples is counted as 2^32 - k drops
  (`apps/monitor/main.cpp:88`); `docs/idd-attitude.md:133-134` tells a decrease, a restart,
  from a gap. `DropsExact` and `DropsModulo` are therefore stated for a sensor that
  does not restart.
- The Python `PtyTransport.write()` writes once and drops what the system did not take;
  `tools/serial_link/transport/base.py:27` has "Write all of `data`".
  `OnlyTailsLost` says what it cannot do worse.
- A C++ `SerialTransport` whose port hung up reads 0 octets for ever without `eof`
  (`src/transport.cpp:97`), and the receive loop spins; `transport.hpp:8-9` promises that `eof`
  lets it terminate. `StopsWithPeer` excepts it.

## 6. Not modelled, and plan

Left out: formatting (`framelog`, `to_string`, usage texts, what the monitor displays), the angles of a
sample beyond their octets, termios settings, name resolution, the Python tools' `argparse`, the monitor's one
option, and a `--rate` that is not a positive number (`Publisher` takes a period of whole ticks). A row of
the audit log is one `write` at the end of the file: it is shorter than the buffer of `stdio`, and the disk has room (c2 does not look at
what `fputs`, `fprintf` and `fclose` return, `apps/c2/main.cpp:36-42`: on a full disk a row is lost with exit status 0). That what the far
end of a pseudo-terminal wrote is read before `EIO` is taken from the kernel. Clients of the device other than c2 are left out. The device's
audit log is a file of its own; `log_txn()` writes to it after the header its process wrote.

Next, in this order:

1. Proof: on a line without noise the framed link implements `FrameChannel`, for all messages and read sizes.
2. `FramedLink` as the composition of `Transport` and the de-framer: the octets of a frame that `write()` did not hand over
   in one call and a far end that hangs up in the middle of it.

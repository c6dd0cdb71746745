-------------------------------- MODULE C2Tcp --------------------------------
(***************************************************************************)
(* One-shot c2 commands against device_sim in --tcp --listen mode: every   *)
(* command opens a connection, sends one request, waits for the reply or   *)
(* the deadline and closes (apps/c2, src/transport.cpp); the device        *)
(* accepts one connection, closes its listening socket, serves until end   *)
(* of file and listens again (tools/apps/device_sim, virtual.py).          *)
(* TCP delivers in order and without loss; closing a socket that still     *)
(* holds unread data resets the connection instead of ending it.  A command*)
(* with --log then appends to an audit log that it may share with others,  *)
(* and the device logs what it served.  A command can be killed.           *)
(***************************************************************************)
EXTENDS Registers, CommandLine, SequencesExt

CONSTANTS
  Commands,    \* the c2 processes, each run once
  ArgsOf,      \* the command line of each
  None,        \* no connection
  MaxKills     \* bound: commands killed

ASSUME C2TcpAssumption ==
  /\ DOMAIN ArgsOf = Commands /\ None \notin Commands /\ MaxKills \in Nat

Backlog == 2   \* connections the system completes for listen(1) before accept

Running == -1
Killed == 130   \* SIGINT

Usable == {c \in Commands : C2Exit(ArgsOf[c]) = 0}
NoLog == ""   \* the path without --log
RequestOf == [c \in Usable |-> C2Request(ArgsOf[c])]
Paths == {LogPath(ArgsOf[c]) : c \in Usable} \ {NoLog}

VARIABLES
  device,     \* "closed" | "listening" | "serving" | "replying" | "logging" | "down"
  backlog,    \* connections made and not yet accepted
  conn,       \* the connection being served
  regs,       \* the register bank
  log,        \* the rows of the device's audit log
  opts,       \* what each command made of its command line; constant
  client,     \* "idle" | "connected" | "waiting" | "closing" | "probing"
              \*   | "opening" | "writing" | "finished"
  report,     \* what the command reported
  exit,       \* its exit status
  headed,     \* `exists' of append_log()
  audit,      \* the files the commands log to: the lines, and whether there is one
  toDevice,   \* request octets in the device's socket, by connection
  toClient,   \* reply octets in the command's socket
  shut        \* how the command's end looks to the device: "open" | "fin" | "reset"

deviceVars == <<device, backlog, conn, regs, log>>
fileVars   == <<headed, audit>>
clientVars == <<client, report, exit, opts, fileVars>>
netVars    == <<toDevice, toClient, shut>>

VARIABLES
  answer,     \* history: the reply computed for each command
  order,      \* history: the commands in the order the device executed them
  before      \* history: the commands already finished when this one connected

historyVars == <<answer, order, before>>
vars == <<deviceVars, clientVars, netVars, historyVars>>

Open == [type |-> "open"]
NoAnswer == [type |-> "no answer"]

Init ==
  /\ device = "closed" /\ backlog = <<>> /\ conn = None
  /\ regs = InitialRegs /\ log = <<>>
  /\ opts = [c \in Commands |->
               IF c \in Usable
               THEN [status |-> 0, request |-> RequestOf[c], arg |-> C2Arg(ArgsOf[c]),
                     path |-> LogPath(ArgsOf[c])]
               ELSE [status |-> C2Exit(ArgsOf[c])]]
  /\ client = [c \in Commands |-> "idle"]
  /\ report = [c \in Commands |-> Open]
  /\ exit = [c \in Commands |-> Running]
  /\ headed = [c \in Commands |-> FALSE]
  /\ audit = [p \in Paths |-> [there |-> FALSE, lines |-> <<>>]]
  /\ toDevice = [c \in Commands |-> <<>>]
  /\ toClient = [c \in Commands |-> <<>>]
  /\ shut = [c \in Commands |-> "open"]
  /\ answer = [c \in Commands |-> NoReply]
  /\ order = <<>>
  /\ before = [c \in Commands |-> {}]

-----------------------------------------------------------------------------
(* listen_one(): bind and listen; accept one connection and close the      *)
(* listening socket, which resets whatever else was waiting on it.         *)
Listen ==
  /\ device = "closed" /\ device' = "listening"
  /\ UNCHANGED <<backlog, conn, regs, log, clientVars, netVars, historyVars>>

(* Mutant: the newest connection first, the others kept.                   *)
AcceptNewest ==
  /\ device = "listening" /\ backlog # <<>>
  /\ device' = "serving" /\ conn' = backlog[Len(backlog)]
  /\ backlog' = SubSeq(backlog, 1, Len(backlog) - 1)
  /\ UNCHANGED <<regs, log, clientVars, netVars, historyVars>>

Accept ==
  /\ device = "listening" /\ backlog # <<>>
  /\ device' = "serving" /\ conn' = Head(backlog) /\ backlog' = <<>>
  /\ UNCHANGED <<regs, log, clientVars, netVars, historyVars>>

(* Mutant: a write acknowledged and not stored.                            *)
ExecuteWithoutStore ==
  /\ device = "serving" /\ toDevice[conn] # <<>> /\ device' = "replying"
  /\ answer' = [answer EXCEPT ![conn] = Reply(regs, Head(toDevice[conn]))]
  /\ order' = Append(order, conn)
  /\ toDevice' = [toDevice EXCEPT ![conn] = Tail(@)]
  /\ UNCHANGED <<backlog, conn, regs, log, clientVars, toClient, shut, before>>

(* serve(): a request is read, decoded and executed by respond() ...       *)
Execute ==
  /\ device = "serving" /\ toDevice[conn] # <<>> /\ device' = "replying"
  /\ regs' = RegsAfter(regs, Head(toDevice[conn]))
  /\ answer' = [answer EXCEPT ![conn] = Reply(regs, Head(toDevice[conn]))]
  /\ order' = Append(order, conn)
  /\ toDevice' = [toDevice EXCEPT ![conn] = Tail(@)]
  /\ UNCHANGED <<backlog, conn, log, clientVars, toClient, shut, before>>

(* ... its reply is sent, which the system swallows if the peer has closed,*)
SendReply ==
  /\ device = "replying" /\ device' = "logging"
  /\ toClient' = IF shut[conn] = "open"
                 THEN [toClient EXCEPT ![conn] = Append(@, answer[conn])]
                 ELSE toClient
  /\ UNCHANGED <<backlog, conn, regs, log, clientVars, toDevice, shut, historyVars>>

(* A row of an audit log; the time and the values read are left out.       *)
Result(reply) ==
  CASE reply = NoAnswer -> "timeout" [] reply.type = "Nak" -> "nak" [] OTHER -> "ok"

Row(c, addr, arg, reply) ==
  [by |-> c, op |-> opts[c].request.type, addr |-> addr, arg |-> arg, result |-> Result(reply)]

DeviceRow(c) ==
  LET request == opts[c].request
  IN  Row(c, request.addr,
          IF request.type = "ReadRegister" THEN request.count ELSE request.value, answer[c])

(* Mutant: only replies that could be delivered are logged.                *)
LogTxnDelivered ==
  /\ device = "logging" /\ device' = "serving"
  /\ log' = IF shut[conn] = "open" THEN Append(log, DeviceRow(conn)) ELSE log
  /\ UNCHANGED <<backlog, conn, regs, clientVars, netVars, historyVars>>

(* ... and the transaction logged.                                         *)
LogTxn ==
  /\ device = "logging" /\ device' = "serving"
  /\ log' = Append(log, DeviceRow(conn))
  /\ UNCHANGED <<backlog, conn, regs, clientVars, netVars, historyVars>>

(* Mutants: the old connection kept; end of file taken for "no data yet".  *)
EndOfFileKeepsConn ==
  /\ device = "serving"
  /\ toDevice[conn] = <<>> /\ shut[conn] = "fin"
  /\ device' = "closed"
  /\ UNCHANGED <<backlog, conn, regs, log, clientVars, netVars, historyVars>>

EndOfFileIgnored ==
  /\ device = "serving"
  /\ toDevice[conn] = <<>> /\ shut[conn] = "fin"
  /\ UNCHANGED vars

(* recv() returns b"": serve() returns, the link is closed, and the loop   *)
(* in main() opens the transport again.                                    *)
EndOfFile ==
  /\ device = "serving"
  /\ toDevice[conn] = <<>> /\ shut[conn] = "fin"
  /\ device' = "closed" /\ conn' = None
  /\ UNCHANGED <<backlog, regs, log, clientVars, netVars, historyVars>>

(* recv() raises ConnectionResetError; LoopbackTransport.read() and main() *)
(* catch other exceptions only, and the process ends.                      *)
Die ==
  /\ device = "serving"
  /\ toDevice[conn] = <<>> /\ shut[conn] = "reset"
  /\ device' = "down" /\ conn' = None
  /\ UNCHANGED <<backlog, regs, log, clientVars, netVars, historyVars>>

-----------------------------------------------------------------------------
(* A c2 process.                                                           *)
Exit(c, status) ==
  /\ client' = [client EXCEPT ![c] = "finished"]
  /\ exit' = [exit EXCEPT ![c] = status]

Status(c) == IF report[c] = NoAnswer THEN 1 ELSE 0

(* main() refuses its command line before it opens anything.               *)
Refuse(c) ==
  /\ client[c] = "idle" /\ opts[c].status # 0
  /\ Exit(c, opts[c].status)
  /\ report' = [report EXCEPT ![c] = NoAnswer]
  /\ UNCHANGED <<deviceVars, opts, fileVars, netVars, historyVars>>

Connect(c) ==
  /\ client[c] = "idle" /\ opts[c].status = 0 /\ device = "listening" /\ Len(backlog) < Backlog
  /\ client' = [client EXCEPT ![c] = "connected"]
  /\ backlog' = Append(backlog, c)
  /\ before' = [before EXCEPT ![c] = {d \in Commands : opts[d].status = 0 /\ exit[d] # Running}]
  /\ UNCHANGED <<device, conn, regs, log, report, exit, opts, fileVars, netVars, answer, order>>

(* Connection refused, or a write on a connection the device has reset:    *)
(* the transport throws and c2 exits without a result.                     *)
Fail(c) ==
  /\ \/ client[c] = "idle" /\ opts[c].status = 0 /\ device # "listening"
     \/ client[c] = "connected" /\ conn # c /\ \A i \in DOMAIN backlog : backlog[i] # c
  /\ Exit(c, 1)
  /\ report' = [report EXCEPT ![c] = NoAnswer]
  /\ UNCHANGED <<deviceVars, opts, fileVars, netVars, historyVars>>

SendRequest(c) ==
  /\ client[c] = "connected"
  /\ client' = [client EXCEPT ![c] = "waiting"]
  /\ toDevice' = [toDevice EXCEPT ![c] = Append(@, opts[c].request)]
  /\ UNCHANGED <<deviceVars, report, opts, exit, fileVars, toClient, shut, historyVars>>

ReceiveReply(c) ==
  /\ client[c] = "waiting" /\ toClient[c] # <<>>
  /\ client' = [client EXCEPT ![c] = "closing"]
  /\ report' = [report EXCEPT ![c] = Head(toClient[c])]
  /\ toClient' = [toClient EXCEPT ![c] = Tail(@)]
  /\ UNCHANGED <<deviceVars, opts, exit, fileVars, toDevice, shut, historyVars>>

(* next() found nothing to read at the deadline, or the connection gone.   *)
GiveUp(c) ==
  /\ client[c] = "waiting" /\ toClient[c] = <<>>
  /\ client' = [client EXCEPT ![c] = "closing"]
  /\ report' = [report EXCEPT ![c] = NoAnswer]
  /\ UNCHANGED <<deviceVars, opts, exit, fileVars, netVars, historyVars>>

ShutDown(c) ==
  shut' = [shut EXCEPT ![c] = IF toClient[c] = <<>> THEN "fin" ELSE "reset"]

CloseLink(c) ==
  /\ client[c] = "closing" /\ ShutDown(c)
  /\ IF opts[c].path = NoLog THEN Exit(c, Status(c))
     ELSE client' = [client EXCEPT ![c] = "probing"] /\ exit' = exit
  /\ UNCHANGED <<deviceVars, report, opts, fileVars, toDevice, toClient, historyVars>>

-----------------------------------------------------------------------------
(* append_log().  Is there something in the file?                          *)
(* Mutant: is there a file?                                                *)
ProbeLogThere(c) ==
  /\ client[c] = "probing" /\ client' = [client EXCEPT ![c] = "opening"]
  /\ headed' = [headed EXCEPT ![c] = audit[opts[c].path].there]
  /\ UNCHANGED <<deviceVars, report, opts, exit, audit, netVars, historyVars>>

ProbeLog(c) ==
  /\ client[c] = "probing" /\ client' = [client EXCEPT ![c] = "opening"]
  /\ headed' = [headed EXCEPT ![c] = audit[opts[c].path].lines # <<>>]
  /\ UNCHANGED <<deviceVars, report, opts, exit, audit, netVars, historyVars>>

(* Mutant: mode "w".                                                       *)
OpenLogTruncates(c) ==
  /\ client[c] = "opening" /\ client' = [client EXCEPT ![c] = "writing"]
  /\ audit' = [audit EXCEPT ![opts[c].path] = [there |-> TRUE, lines |-> <<>>]]
  /\ UNCHANGED <<deviceVars, report, opts, exit, headed, netVars, historyVars>>

(* fopen(path, "a") makes it if need be, or fails.                         *)
OpenLog(c) ==
  /\ client[c] = "opening" /\ client' = [client EXCEPT ![c] = "writing"]
  /\ audit' = [audit EXCEPT ![opts[c].path].there = TRUE]
  /\ UNCHANGED <<deviceVars, report, opts, exit, headed, netVars, historyVars>>

OpenLogFails(c) ==
  /\ client[c] = "opening" /\ Exit(c, 1)
  /\ UNCHANGED <<deviceVars, report, opts, fileVars, netVars, historyVars>>

Header == [op |-> "op"]

(* The header, if it is missing, and the row are buffered and reach the end*)
(* of the file, wherever it is by then, with fclose().  The disk has room: *)
(* c2 looks at none of these calls' results.                               *)
WriteLog(c) ==
  /\ client[c] = "writing" /\ Exit(c, Status(c))
  /\ LET row == Row(c, opts[c].request.addr, opts[c].arg, report[c])
     IN  audit' = [audit EXCEPT ![opts[c].path].lines =
                     @ \o (IF headed[c] THEN <<row>> ELSE <<Header, row>>)]
  /\ UNCHANGED <<deviceVars, report, opts, headed, netVars, historyVars>>

(* c2 handles no signal: Ctrl-C ends it anywhere, and its socket closes.   *)
Kill(c) ==
  /\ client[c] \notin {"idle", "finished"} /\ Exit(c, Killed)
  /\ Cardinality({d \in Commands : exit[d] = Killed}) < MaxKills
  /\ report' = [report EXCEPT ![c] = IF @ = Open THEN NoAnswer ELSE @]
  /\ IF shut[c] = "open" THEN ShutDown(c) ELSE shut' = shut
  /\ UNCHANGED <<deviceVars, opts, fileVars, toDevice, toClient, historyVars>>

-----------------------------------------------------------------------------
Device == Listen \/ Accept \/ Execute \/ SendReply \/ LogTxn \/ EndOfFile \/ Die

Going(c) ==
  \/ SendRequest(c) \/ ReceiveReply(c) \/ GiveUp(c) \/ CloseLink(c)
  \/ ProbeLog(c) \/ OpenLog(c) \/ WriteLog(c)

Next ==
  \/ Device
  \/ \E c \in Commands :
       Refuse(c) \/ Connect(c) \/ Fail(c) \/ Going(c) \/ OpenLogFails(c) \/ Kill(c)

Spec == Init /\ [][Next]_vars

(* The device loops, and a c2 process that has connected runs to its end:  *)
(* its wait is bounded by the deadline.                                    *)
FairSpec == Spec /\ WF_vars(Device) /\ \A c \in Commands : WF_vars(Going(c))

-----------------------------------------------------------------------------
Serving == device \in {"serving", "replying", "logging"}

TypeOK ==
  /\ device \in {"closed", "listening", "serving", "replying", "logging", "down"}
  /\ backlog \in Seq(Usable) /\ Len(backlog) <= Backlog
  /\ conn \in Usable \cup {None} /\ (conn # None <=> Serving)
  /\ regs \in Bank
  /\ client \in [Commands -> {"idle", "connected", "waiting", "closing", "probing", "opening",
                             "writing", "finished"}]
  /\ \A c \in Commands : exit[c] = Running <=> client[c] # "finished"
  /\ shut \in [Commands -> {"open", "fin", "reset"}]
  /\ order \in Seq(Usable) /\ before \in [Commands -> SUBSET Commands]

Bank0 == INSTANCE RegisterBank
         WITH Commands <- Usable, answer <- [c \in Usable |-> answer[c]],
              report <- [c \in Usable |-> report[c]]

(* One-shot commands over TCP have the atomic bank's semantics: executed   *)
(* once at most, and reported with their own reply or none, although       *)
(* frames carry no transaction number.                                     *)
ImplementsBank == Bank0!Spec

(* A command that has ended, abandoned ones included, has no effect after a*)
(* command that connected later has been executed: the device drains a     *)
(* connection to its end before it listens for the next.                   *)
NoLateEffects ==
  \A i, j \in DOMAIN order : i < j => order[j] \notin before[order[i]]

(* The device's audit log has every executed request, in order, but for    *)
(* the one being answered, also the ones whose issuer was gone by then.    *)
AuditComplete ==
  LET logged == [k \in DOMAIN log |-> log[k].by]
  IN  order = IF device \in {"replying", "logging"} THEN Append(logged, conn) ELSE logged

(* Whoever logs first, together or after a file was left empty: no row     *)
(* comes before the header.  (There may be more than one header.)          *)
HeaderFirst ==
  \A p \in DOMAIN audit : audit[p].lines # <<>> => Head(audit[p].lines) = Header

(* The two audit logs tell of the same transactions: one that the host     *)
(* logs as answered is in the device's log too, or about to be, with the   *)
(* same operation, address and result and with what the field could hold   *)
(* of the host's argument.                                                 *)
Rows(p) == {audit[p].lines[k] : k \in DOMAIN audit[p].lines} \ {Header}
DeviceRows == ToSet(log) \cup (IF device = "logging" THEN {DeviceRow(conn)} ELSE {})

AuditsAgree ==
  \A p \in DOMAIN audit : \A row \in Rows(p) : row.result # "timeout" =>
    \E other \in DeviceRows :
      other = [row EXCEPT !.arg = IF row.op = "ReadRegister" THEN UInt8(@) ELSE UInt16(@)]

(* The rows of a command in the log that it was told to use.               *)
RowsOf(c) ==
  IF opts[c].status # 0 \/ opts[c].path = NoLog THEN {}
  ELSE LET lines == audit[opts[c].path].lines
       IN  {k \in DOMAIN lines : lines[k] # Header /\ lines[k].by = c}

Once(occasions) == \E k \in occasions : occasions = {k}

(* What a script may conclude from the exit status and the log: 0, the     *)
(* device answered, with a Nak perhaps, and did so once; 2, nothing was    *)
(* sent or logged; and a command is in the log once if it has logged.      *)
ExitCodeTells ==
  \A c \in Commands :
    LET turns == {i \in DOMAIN order : order[i] = c}
    IN  /\ exit[c] = 0 => /\ Once(turns) /\ report[c] = answer[c]
                          /\ opts[c].status = 0
                          /\ (opts[c].path # NoLog => Once(RowsOf(c)))
        /\ exit[c] = 2 => turns = {} /\ RowsOf(c) = {}
        /\ exit[c] = 1 => \A k \in RowsOf(c) : audit[opts[c].path].lines[k].result = "timeout"

(* A command that connects always sets the device free again, or kills it: *)
(* c2 waits for a bounded time and then closes.  serve() itself has no     *)
(* limit, so a client that stayed connected and sent nothing, which c2 is  *)
(* not, would keep the device from everybody else.                         *)
ServingEnds == Serving ~> device \in {"closed", "down"}

(* "the device keeps its register state and re-accepts a new connection    *)
(* after each client disconnects" (device_sim.py).                         *)
KeepsServing == device # "down"
=============================================================================

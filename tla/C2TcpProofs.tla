----------------------------- MODULE C2TcpProofs -----------------------------
(***************************************************************************)
(* One-shot commands over TCP, for any number of commands, any bank and    *)
(* any audit logs.                                                         *)
(***************************************************************************)
EXTENDS C2Tcp, DataFacts

-----------------------------------------------------------------------------
(* A field of 16 bits, whatever number was put into it.                    *)
LEMMA U16Value == ASSUME NEW v \in Int PROVE U16(v) \in Value
<1> DEFINE m == 65536
<1>1. m \in Nat \ {0} OBVIOUS
<1>2. m - 1 = 65535 BY SMT
<1>3. U16(v) = v % m BY DEF U16
<1>4. Value = 0..(m - 1) BY <1>2 DEF Value
<1> HIDE DEF m
<1> QED BY <1>1, <1>3, <1>4, Division

(* The registers hold 16 bits each when the device starts, ...             *)
LEMMA InitialRegsBank == InitialRegs \in Bank
<1> SUFFICES ASSUME NEW a \in Address
             PROVE  (IF a \in DOMAIN Seed THEN U16(Seed[a]) ELSE 0) \in Value
  BY DEF InitialRegs, Bank
<1>1. CASE a \in DOMAIN Seed
  <2>1. Seed[a] \in Int BY <1>1, RegistersAssumption
  <2>2. U16(Seed[a]) \in Value BY <2>1, U16Value
  <2> QED BY <1>1, <2>2
<1>2. CASE a \notin DOMAIN Seed BY <1>2 DEF Value
<1> QED BY <1>1, <1>2

(* ... and whatever message it is sent.                                    *)
LEMMA RegsAfterBank ==
  ASSUME NEW r \in Bank, NEW m, m.type = "WriteRegister" => m.value \in Int
  PROVE  RegsAfter(r, m) \in Bank
<1>1. CASE m.type = "WriteRegister"
  <2>1. m.value \in Int BY <1>1
  <2>2. U16(m.value) \in Value BY <2>1, U16Value
  <2> QED BY <2>2 DEF RegsAfter, Bank
<1>2. CASE m.type # "WriteRegister" BY <1>2 DEF RegsAfter
<1> QED BY <1>1, <1>2
-----------------------------------------------------------------------------
(* What the commands make of their command lines does not change.          *)
Parsed ==
  [c \in Commands |->
     IF c \in Usable
     THEN [status |-> 0, request |-> RequestOf[c], arg |-> C2Arg(ArgsOf[c]),
           path |-> LogPath(ArgsOf[c])]
     ELSE [status |-> C2Exit(ArgsOf[c])]]

(* What a usable command line parses to, and the status a refused one ends *)
(* with.                                                                   *)
LEMMA ParsedFacts ==
  /\ Usable \subseteq Commands
  /\ \A c \in Usable :
       /\ Parsed[c].status = 0
       /\ Parsed[c].request = C2Request(ArgsOf[c]) /\ Parsed[c].request = RequestOf[c]
       /\ Parsed[c].arg = C2Arg(ArgsOf[c])
       /\ Parsed[c].path = LogPath(ArgsOf[c])
       /\ Parsed[c].path # NoLog => Parsed[c].path \in Paths
  /\ \A c \in Commands : c \notin Usable => Parsed[c].status \in {1, 2}
<1>1. \A a : C2Exit(a) \in {0, 1, 2} BY DEF C2Exit
<1>2. Usable \subseteq Commands /\ \A c \in Commands : c \notin Usable => C2Exit(ArgsOf[c]) # 0
  BY DEF Usable
<1>3. ASSUME NEW c \in Usable
      PROVE  /\ Parsed[c].status = 0
             /\ Parsed[c].request = C2Request(ArgsOf[c]) /\ Parsed[c].request = RequestOf[c]
             /\ Parsed[c].arg = C2Arg(ArgsOf[c])
             /\ Parsed[c].path = LogPath(ArgsOf[c])
             /\ Parsed[c].path # NoLog => Parsed[c].path \in Paths
  BY <1>2 DEF Parsed, RequestOf, Paths
<1>4. ASSUME NEW c \in Commands, c \notin Usable
      PROVE  Parsed[c].status \in {1, 2}
  BY <1>1, <1>2, <1>4 DEF Parsed
<1> QED BY <1>2, <1>3, <1>4

(* A usable command line is a command line, and none is not a command.     *)
LEMMA UsableCommands == Usable \subseteq Commands /\ None \notin Usable
BY C2TcpAssumption DEF Usable

(* The status of a parsed command line is 0 when it is usable, and a real  *)
(* exit status when it is not.                                             *)
LEMMA RefusedFacts ==
  ASSUME NEW c \in Commands
  PROVE  /\ Parsed[c].status = 0 <=> c \in Usable
         /\ Parsed[c].status # Running
<1>1. CASE c \in Usable
  <2>1. Parsed[c].status = 0 BY <1>1, ParsedFacts
  <2>2. 0 # Running BY DEF Running
  <2> QED BY <1>1, <2>1, <2>2
<1>2. CASE c \notin Usable
  <2>1. Parsed[c].status \in {1, 2} BY <1>2, ParsedFacts
  <2> QED BY <1>2, <2>1 DEF Running
<1> QED BY <1>1, <1>2

(* The value that a usable command line gives is a number, and its request *)
(* is one of the two that the program knows.                               *)
LEMMA RequestFacts ==
  ASSUME NEW c \in Usable
  PROVE  /\ C2Arg(ArgsOf[c]) \in Int
         /\ \/ RequestOf[c].type = "ReadRegister"
            \/ RequestOf[c].type = "WriteRegister" /\ RequestOf[c].value \in Int
<1> DEFINE pos == Positional(ArgsOf[c])
           arg == C2Arg(ArgsOf[c])
<1>1. C2Exit(ArgsOf[c]) = 0 BY DEF Usable
<1>2. \A i \in DOMAIN pos \cap {2, 3} : pos[i] \in DOMAIN NumberOf BY <1>1 DEF C2Exit
<1>3. arg \in Int
  <2>1. CASE 3 \in DOMAIN pos
    <3>1. pos[3] \in DOMAIN NumberOf BY <1>2, <2>1
    <3>2. arg = NumberOf[pos[3]] BY <2>1 DEF C2Arg
    <3> QED BY <3>1, <3>2, NumberOfAssumption
  <2>2. CASE 3 \notin DOMAIN pos BY <2>2 DEF C2Arg
  <2> QED BY <2>1, <2>2
<1>4. UInt16(arg) \in Int
  <2> HIDE DEF arg
  <2> QED BY <1>3 DEF UInt16
<1>5. RequestOf[c] = C2Request(ArgsOf[c]) BY DEF RequestOf
<1> QED BY <1>3, <1>4, <1>5 DEF C2Request

(* A register bank stays one, whatever a command asks of it.               *)
LEMMA RegsAfterRequest ==
  ASSUME NEW r \in Bank, NEW c \in Usable
  PROVE  RegsAfter(r, RequestOf[c]) \in Bank
BY RequestFacts, RegsAfterBank

(* Types, as far as the steps depend on them.                              *)
Types ==
  /\ TypeOK
  /\ opts = Parsed
  /\ DOMAIN report = Commands /\ DOMAIN exit = Commands /\ DOMAIN headed = Commands
  /\ DOMAIN toDevice = Commands /\ DOMAIN toClient = Commands /\ DOMAIN answer = Commands

(* A command that is on its way has a usable command line.  Its socket     *)
(* holds its request, once, from when it is sent to when it is executed.   *)
Requests ==
  \A c \in Commands :
    /\ client[c] \notin {"idle", "finished"} => c \in Usable
    /\ toDevice[c] # <<>> =>
         c \in Usable /\ toDevice[c] = <<RequestOf[c]>> /\ answer[c] = NoReply
    /\ client[c] \in {"idle", "connected"} => toDevice[c] = <<>> /\ answer[c] = NoReply

(* What is on the way to a command is the reply to it.                     *)
Replies ==
  /\ \A c \in Commands :
       /\ answer[c] \notin {Open, NoAnswer}
       /\ toClient[c] # <<>> => toClient[c] = <<answer[c]>> /\ answer[c] # NoReply
  /\ device = "replying" => toClient[conn] = <<>> /\ report[conn] \in {Open, NoAnswer}
  /\ device \in {"replying", "logging"} => answer[conn] # NoReply

(* A command reports once, the reply to it or that there was none.         *)
Reports ==
  \A c \in Commands :
    /\ report[c] = Open <=> client[c] \in {"idle", "connected", "waiting"}
    /\ report[c] \notin {Open, NoAnswer} => report[c] = answer[c] /\ answer[c] # NoReply

(* Only the listening device has connections waiting, all of them made by  *)
(* commands that have begun, and so is the one that it serves.             *)
Connections ==
  /\ backlog # <<>> => device = "listening"
  /\ \A i \in DOMAIN backlog : client[backlog[i]] # "idle"
  /\ conn # None => client[conn] # "idle"

(* Commands that were over before one that has been executed connected are *)
(* not served any more, nor waiting to be.                                 *)
Earlier ==
  /\ \A c \in Commands : \A d \in before[c] : d # c /\ exit[d] # Running
  /\ \A i \in DOMAIN order :
       /\ client[order[i]] # "idle"
       /\ \A d \in before[order[i]] :
            d # conn /\ \A j \in DOMAIN backlog : backlog[j] # d
  /\ NoLateEffects

(* The commands that have been answered are those that the device executed,*)
(* and its log has a row for each but the one it is busy with.             *)
Busy == device \in {"replying", "logging"}
Logged == IF Busy THEN Len(order) - 1 ELSE Len(order)

Logs ==
  /\ \A c \in Commands : answer[c] # NoReply => \E i \in DOMAIN order : order[i] = c
  /\ \A i \in DOMAIN order : answer[order[i]] # NoReply
  /\ \A i, j \in DOMAIN order : order[i] = order[j] => i = j
  /\ Busy => order # <<>> /\ order[Len(order)] = conn
  /\ log = [k \in 1..Logged |-> DeviceRow(order[k])]

(* The files hold headers and rows of the commands, and a row with a result*)
(* is that of a command that has reported it.                              *)
HostRows ==
  {[by |-> c, op |-> RequestOf[c].type, addr |-> RequestOf[c].addr,
    arg |-> C2Arg(ArgsOf[c]), result |-> r] : c \in Usable, r \in {"timeout", "nak", "ok"}}

Lines == {Header} \cup HostRows
File == [there : BOOLEAN, lines : Seq(Lines)]

Told(row) ==
  row # Header /\ row.result # "timeout" =>
    report[row.by] \notin {Open, NoAnswer} /\ row.result = Result(report[row.by])

Files ==
  /\ audit \in [Paths -> File]
  /\ \A p \in Paths : \A k \in DOMAIN audit[p].lines : Told(audit[p].lines[k])
  /\ HeaderFirst
  /\ \A c \in Commands :
       /\ client[c] \in {"probing", "opening", "writing"} => opts[c].path \in Paths
       /\ client[c] \in {"opening", "writing"} /\ headed[c] =>
            audit[opts[c].path].lines # <<>>

(* The types hold when no command has begun.                               *)
LEMMA TypesInit == Init => Types
<1> SUFFICES ASSUME Init PROVE Types OBVIOUS
<1>1. regs \in Bank BY InitialRegsBank DEF Init
<1>2. backlog \in Seq(Usable) /\ Len(backlog) <= Backlog /\ order \in Seq(Usable)
  BY EmptySeq DEF Init, Backlog
<1>3. opts = Parsed BY DEF Init, Parsed
<1>4. /\ device = "closed" /\ conn = None
      /\ client = [c \in Commands |-> "idle"] /\ exit = [c \in Commands |-> Running]
      /\ shut = [c \in Commands |-> "open"] /\ before = [c \in Commands |-> {}]
      /\ DOMAIN report = Commands /\ DOMAIN headed = Commands
      /\ DOMAIN toDevice = Commands /\ DOMAIN toClient = Commands /\ DOMAIN answer = Commands
  BY DEF Init
<1>5. TypeOK BY <1>1, <1>2, <1>4 DEF TypeOK, Serving
<1> QED BY <1>3, <1>4, <1>5 DEF Types

(* Every step keeps the types.                                             *)
LEMMA TypesStep == Types /\ Requests /\ [Next]_vars => Types'
<1> SUFFICES ASSUME Types, Requests, [Next]_vars PROVE Types' OBVIOUS
<1> USE C2TcpAssumption DEF Types, TypeOK, Serving, deviceVars, fileVars, clientVars, netVars, historyVars
<1>1. CASE Listen BY <1>1 DEF Listen
<1>2. CASE Accept
  <2>1. Head(backlog) \in Usable BY <1>2, HeadTailProperties DEF Accept
  <2>2. Head(backlog) # None BY <2>1, ParsedFacts
  <2>3. <<>> \in Seq(Usable) /\ Len(<<>>) <= Backlog BY EmptySeq DEF Backlog
  <2> QED BY <1>2, <2>1, <2>2, <2>3 DEF Accept
<1>3. CASE Execute
  <2>1. conn \in Usable /\ conn \in Commands BY <1>3, ParsedFacts DEF Execute
  <2>2. Head(toDevice[conn]) = RequestOf[conn]
    <3>1. toDevice[conn] = <<RequestOf[conn]>> BY <1>3, <2>1 DEF Execute, Requests
    <3> QED BY <3>1
  <2>3. regs' \in Bank BY <1>3, <2>1, <2>2, RegsAfterRequest DEF Execute
  <2>4. order' \in Seq(Usable) BY <1>3, <2>1, AppendProperties DEF Execute
  <2> QED BY <1>3, <2>3, <2>4 DEF Execute
<1>4. CASE SendReply BY <1>4 DEF SendReply
<1>5. CASE LogTxn BY <1>5 DEF LogTxn
<1>6. CASE EndOfFile BY <1>6 DEF EndOfFile
<1>7. CASE Die BY <1>7 DEF Die
<1>8. ASSUME NEW c \in Commands, Refuse(c) PROVE Types'
  <2>1. opts[c].status # Running BY <1>8, RefusedFacts DEF Refuse
  <2> DEFINE status == opts[c].status
  <2>2. exit' = [exit EXCEPT ![c] = status] /\ client' = [client EXCEPT ![c] = "finished"]
    BY <1>8 DEF Refuse, Exit
  <2> HIDE DEF status
  <2>3. \A d \in Commands : exit'[d] = Running <=> client'[d] # "finished"
    BY <2>1, <2>2 DEF status
  <2> QED BY <1>8, <2>2, <2>3 DEF Refuse
<1>9. ASSUME NEW c \in Commands, Connect(c) PROVE Types'
  <2>1. c \in Usable BY <1>9, RefusedFacts DEF Connect
  <2>2. backlog' \in Seq(Usable) /\ Len(backlog') <= Backlog
    BY <1>9, <2>1, AppendProperties DEF Connect, Backlog
  <2> DEFINE over == {d \in Commands : opts[d].status = 0 /\ exit[d] # Running}
  <2>3. before' = [before EXCEPT ![c] = over] /\ over \subseteq Commands BY <1>9 DEF Connect
  <2> HIDE DEF over
  <2>4. before' \in [Commands -> SUBSET Commands] BY <2>3
  <2> QED BY <1>9, <2>2, <2>4 DEF Connect
<1>10. ASSUME NEW c \in Commands, Fail(c) PROVE Types' BY <1>10 DEF Fail, Exit, Running
<1>11. ASSUME NEW c \in Commands, SendRequest(c) PROVE Types' BY <1>11 DEF SendRequest
<1>12. ASSUME NEW c \in Commands, ReceiveReply(c) PROVE Types' BY <1>12 DEF ReceiveReply
<1>13. ASSUME NEW c \in Commands, GiveUp(c) PROVE Types' BY <1>13 DEF GiveUp
<1>14. ASSUME NEW c \in Commands, CloseLink(c) PROVE Types'
  <2>1. shut' \in [Commands -> {"open", "fin", "reset"}] BY <1>14 DEF CloseLink, ShutDown
  <2>2. Status(c) # Running BY DEF Status, Running
  <2>3. CASE opts[c].path = NoLog BY <1>14, <2>1, <2>2, <2>3 DEF CloseLink, Exit
  <2>4. CASE opts[c].path # NoLog BY <1>14, <2>1, <2>4 DEF CloseLink
  <2> QED BY <2>3, <2>4
<1>15. ASSUME NEW c \in Commands, ProbeLog(c) PROVE Types' BY <1>15 DEF ProbeLog
<1>16. ASSUME NEW c \in Commands, OpenLog(c) PROVE Types' BY <1>16 DEF OpenLog
<1>17. ASSUME NEW c \in Commands, WriteLog(c) PROVE Types'
  BY <1>17 DEF WriteLog, Exit, Status, Running
<1>18. ASSUME NEW c \in Commands, OpenLogFails(c) PROVE Types' BY <1>18 DEF OpenLogFails, Exit, Running
<1>19. ASSUME NEW c \in Commands, Kill(c) PROVE Types' BY <1>19 DEF Kill, ShutDown, Exit, Running, Killed
<1>20. CASE UNCHANGED vars BY <1>20 DEF vars
<1> QED
  BY <1>1, <1>2, <1>3, <1>4, <1>5, <1>6, <1>7, <1>8, <1>9, <1>10, <1>11, <1>12, <1>13, <1>14,
     <1>15, <1>16, <1>17, <1>18, <1>19, <1>20
  DEF Next, Device, Going

-----------------------------------------------------------------------------
(* What a command may be told are three different things: nothing yet,     *)
(* that there was no answer, and an answer.                                *)
LEMMA OpenUntilOver == Open # NoAnswer
<1>1. Open.type = "open" /\ NoAnswer.type = "no answer" BY DEF Open, NoAnswer
<1> QED BY <1>1

(* A usable command is answered with a reply, which is none of the things  *)
(* that a command reports without one.                                     *)
LEMMA ReplyFacts ==
  ASSUME NEW r, NEW c \in Usable
  PROVE  Reply(r, RequestOf[c]) \notin {NoReply, Open, NoAnswer}
<1>1. Reply(r, RequestOf[c]).type \in {"ReadResponse", "WriteAck", "Nak"}
  <2>1. CASE RequestOf[c].type = "ReadRegister" BY <2>1 DEF Reply
  <2>2. CASE RequestOf[c].type = "WriteRegister" BY <2>2 DEF Reply
  <2> QED BY <2>1, <2>2, RequestFacts
<1>2. NoReply.type = "none" /\ Open.type = "open" /\ NoAnswer.type = "no answer"
  BY DEF NoReply, Open, NoAnswer
<1> QED BY <1>1, <1>2

(* Every step keeps the requests where they belong: on the socket of the   *)
(* command that sent it until the device reads it, which answers it.       *)
LEMMA RequestsStep == Types /\ Requests /\ [Next]_vars => Requests'
<1> SUFFICES ASSUME Types, Requests, [Next]_vars PROVE Requests' OBVIOUS
<1> USE DEF Types, TypeOK, Requests, deviceVars, fileVars, clientVars, netVars, historyVars
<1>1. CASE Listen BY <1>1 DEF Listen
<1>2. CASE Accept BY <1>2 DEF Accept
<1>3. CASE Execute
  <2>1. conn \in Usable /\ conn \in Commands BY <1>3, UsableCommands DEF Execute, Serving
  <2>2. toDevice[conn] = <<RequestOf[conn]>> /\ client[conn] \notin {"idle", "connected"}
    BY <1>3, <2>1 DEF Execute
  <2>3. toDevice' = [toDevice EXCEPT ![conn] = <<>>]
    <3>1. Tail(<<RequestOf[conn]>>) = <<>> OBVIOUS
    <3> QED BY <1>3, <2>2, <3>1 DEF Execute
  <2>4. /\ client' = client
        /\ \A d \in Commands : d # conn => answer'[d] = answer[d]
    BY <1>3 DEF Execute
  <2> QED BY <2>1, <2>2, <2>3, <2>4
<1>4. CASE SendReply BY <1>4 DEF SendReply
<1>5. CASE LogTxn BY <1>5 DEF LogTxn
<1>6. CASE EndOfFile BY <1>6 DEF EndOfFile
<1>7. CASE Die BY <1>7 DEF Die
<1>8. ASSUME NEW c \in Commands, Refuse(c) PROVE Requests' BY <1>8, RefusedFacts DEF Refuse, Exit
<1>9. ASSUME NEW c \in Commands, Connect(c) PROVE Requests' BY <1>9, RefusedFacts DEF Connect
<1>10. ASSUME NEW c \in Commands, Fail(c) PROVE Requests' BY <1>10 DEF Fail, Exit
<1>11. ASSUME NEW c \in Commands, SendRequest(c) PROVE Requests'
  <2>1. c \in Usable /\ toDevice[c] = <<>> /\ answer[c] = NoReply BY <1>11 DEF SendRequest
  <2>2. opts[c].request = RequestOf[c] BY <2>1, ParsedFacts
  <2>3. toDevice' = [toDevice EXCEPT ![c] = <<RequestOf[c]>>]
    <3>1. Append(<<>>, RequestOf[c]) = <<RequestOf[c]>> OBVIOUS
    <3> QED BY <1>11, <2>1, <2>2, <3>1 DEF SendRequest
  <2>4. client' = [client EXCEPT ![c] = "waiting"] /\ answer' = answer BY <1>11 DEF SendRequest
  <2> QED BY <2>1, <2>3, <2>4
<1>12. ASSUME NEW c \in Commands, ReceiveReply(c) PROVE Requests' BY <1>12 DEF ReceiveReply
<1>13. ASSUME NEW c \in Commands, GiveUp(c) PROVE Requests' BY <1>13 DEF GiveUp
<1>14. ASSUME NEW c \in Commands, CloseLink(c) PROVE Requests' BY <1>14 DEF CloseLink, ShutDown, Exit
<1>15. ASSUME NEW c \in Commands, ProbeLog(c) PROVE Requests' BY <1>15 DEF ProbeLog
<1>16. ASSUME NEW c \in Commands, OpenLog(c) PROVE Requests' BY <1>16 DEF OpenLog
<1>17. ASSUME NEW c \in Commands, WriteLog(c) PROVE Requests' BY <1>17 DEF WriteLog, Exit
<1>18. ASSUME NEW c \in Commands, OpenLogFails(c) PROVE Requests' BY <1>18 DEF OpenLogFails, Exit
<1>19. ASSUME NEW c \in Commands, Kill(c) PROVE Requests' BY <1>19 DEF Kill, ShutDown, Exit
<1>20. CASE UNCHANGED vars BY <1>20 DEF vars
<1> QED
  BY <1>1, <1>2, <1>3, <1>4, <1>5, <1>6, <1>7, <1>8, <1>9, <1>10, <1>11, <1>12, <1>13, <1>14,
     <1>15, <1>16, <1>17, <1>18, <1>19, <1>20
  DEF Next, Device, Going

(* Every step keeps the backlog to connections of commands that have       *)
(* begun.                                                                  *)
LEMMA ConnectionsStep == Types /\ Connections /\ [Next]_vars => Connections'
<1> SUFFICES ASSUME Types, Connections, [Next]_vars PROVE Connections' OBVIOUS
<1> USE DEF Types, TypeOK, Connections, Serving, deviceVars, fileVars, clientVars, netVars, historyVars
<1>1. CASE Listen BY <1>1 DEF Listen
<1>2. CASE Accept BY <1>2 DEF Accept
<1>3. CASE Execute BY <1>3 DEF Execute
<1>4. CASE SendReply BY <1>4 DEF SendReply
<1>5. CASE LogTxn BY <1>5 DEF LogTxn
<1>6. CASE EndOfFile BY <1>6 DEF EndOfFile
<1>7. CASE Die BY <1>7 DEF Die
<1>8. ASSUME NEW c \in Commands, Refuse(c) PROVE Connections' BY <1>8 DEF Refuse, Exit
<1>9. ASSUME NEW c \in Commands, Connect(c) PROVE Connections' BY <1>9 DEF Connect
<1>10. ASSUME NEW c \in Commands, Fail(c) PROVE Connections' BY <1>10 DEF Fail, Exit
<1>11. ASSUME NEW c \in Commands, SendRequest(c) PROVE Connections' BY <1>11 DEF SendRequest
<1>12. ASSUME NEW c \in Commands, ReceiveReply(c) PROVE Connections' BY <1>12 DEF ReceiveReply
<1>13. ASSUME NEW c \in Commands, GiveUp(c) PROVE Connections' BY <1>13 DEF GiveUp
<1>14. ASSUME NEW c \in Commands, CloseLink(c) PROVE Connections'
  <2>1. \A d \in Commands : client'[d] = "idle" => client[d] = "idle"
    BY <1>14 DEF CloseLink, Exit
  <2>2. \A i \in DOMAIN backlog : backlog[i] \in Commands BY UsableCommands, SeqElements
  <2>3. conn # None => conn \in Commands BY UsableCommands
  <2>4. UNCHANGED <<device, backlog, conn>> BY <1>14 DEF CloseLink
  <2> QED BY <2>1, <2>2, <2>3, <2>4
<1>15. ASSUME NEW c \in Commands, ProbeLog(c) PROVE Connections' BY <1>15 DEF ProbeLog
<1>16. ASSUME NEW c \in Commands, OpenLog(c) PROVE Connections' BY <1>16 DEF OpenLog
<1>17. ASSUME NEW c \in Commands, WriteLog(c) PROVE Connections' BY <1>17 DEF WriteLog, Exit
<1>18. ASSUME NEW c \in Commands, OpenLogFails(c) PROVE Connections' BY <1>18 DEF OpenLogFails, Exit
<1>19. ASSUME NEW c \in Commands, Kill(c) PROVE Connections' BY <1>19 DEF Kill, ShutDown, Exit
<1>20. CASE UNCHANGED vars BY <1>20 DEF vars
<1> QED
  BY <1>1, <1>2, <1>3, <1>4, <1>5, <1>6, <1>7, <1>8, <1>9, <1>10, <1>11, <1>12, <1>13, <1>14,
     <1>15, <1>16, <1>17, <1>18, <1>19, <1>20
  DEF Next, Device, Going

(* Every step leaves only the reply to a command on the way to it.         *)
LEMMA RepliesStep == Types /\ Requests /\ Replies /\ Reports /\ [Next]_vars => Replies'
<1> SUFFICES ASSUME Types, Requests, Replies, Reports, [Next]_vars PROVE Replies' OBVIOUS
<1> USE DEF Types, TypeOK, Requests, Replies, Reports, Serving, deviceVars, fileVars, clientVars, netVars, historyVars
<1>1. CASE Listen BY <1>1 DEF Listen
<1>2. CASE Accept BY <1>2 DEF Accept
<1>3. CASE Execute
  <2>1. conn \in Usable /\ conn \in Commands BY <1>3, UsableCommands DEF Execute
  <2>2. toDevice[conn] = <<RequestOf[conn]>> /\ answer[conn] = NoReply /\ toClient[conn] = <<>>
    BY <1>3, <2>1 DEF Execute
  <2>3. Head(toDevice[conn]) = RequestOf[conn]
    <3>1. Head(<<RequestOf[conn]>>) = RequestOf[conn] OBVIOUS
    <3> QED BY <2>2, <3>1
  <2>4. /\ answer'[conn] \notin {NoReply, Open, NoAnswer}
        /\ \A d \in Commands : d # conn => answer'[d] = answer[d]
    BY <1>3, <2>1, <2>3, ReplyFacts DEF Execute
  <2>5. report[conn] \in {Open, NoAnswer} BY <2>1, <2>2
  <2>6. UNCHANGED <<conn, toClient, report>> /\ device' = "replying" BY <1>3 DEF Execute
  <2> QED BY <2>1, <2>2, <2>4, <2>5, <2>6
<1>4. CASE SendReply
  <2>1. conn \in Commands BY <1>4, UsableCommands DEF SendReply
  <2>2. toClient[conn] = <<>> /\ answer[conn] # NoReply BY <1>4 DEF SendReply
  <2>3. \A d \in Commands :
          toClient'[d] = toClient[d] \/ (d = conn /\ toClient'[d] = <<answer[d]>>)
    <3>1. Append(toClient[conn], answer[conn]) = <<answer[conn]>>
      <4>1. Append(<<>>, answer[conn]) = <<answer[conn]>> OBVIOUS
      <4> QED BY <2>2, <4>1
    <3>2. CASE shut[conn] = "open"
      <4>1. toClient' = [toClient EXCEPT ![conn] = <<answer[conn]>>]
        BY <1>4, <3>1, <3>2 DEF SendReply
      <4> QED BY <2>1, <4>1
    <3>3. CASE shut[conn] # "open" BY <1>4, <3>3 DEF SendReply
    <3> QED BY <3>2, <3>3
  <2>4. UNCHANGED <<answer, conn>> /\ device' = "logging" BY <1>4 DEF SendReply
  <2> QED BY <2>1, <2>2, <2>3, <2>4
<1>5. CASE LogTxn BY <1>5 DEF LogTxn
<1>6. CASE EndOfFile BY <1>6 DEF EndOfFile
<1>7. CASE Die BY <1>7 DEF Die
<1>8. ASSUME NEW c \in Commands, Refuse(c) PROVE Replies' BY <1>8 DEF Refuse, Exit
<1>9. ASSUME NEW c \in Commands, Connect(c) PROVE Replies' BY <1>9 DEF Connect
<1>10. ASSUME NEW c \in Commands, Fail(c) PROVE Replies' BY <1>10 DEF Fail, Exit
<1>11. ASSUME NEW c \in Commands, SendRequest(c) PROVE Replies' BY <1>11 DEF SendRequest
<1>12. ASSUME NEW c \in Commands, ReceiveReply(c) PROVE Replies'
  <2>1. toClient[c] = <<answer[c]>> BY <1>12 DEF ReceiveReply
  <2>2. toClient' = [toClient EXCEPT ![c] = <<>>]
    <3>1. Tail(<<answer[c]>>) = <<>> OBVIOUS
    <3> QED BY <1>12, <2>1, <3>1 DEF ReceiveReply
  <2>3. device = "replying" => conn # c BY <1>12 DEF ReceiveReply
  <2>4. \A d \in Commands : d # c => report'[d] = report[d] BY <1>12 DEF ReceiveReply
  <2>5. UNCHANGED <<device, conn, answer>> BY <1>12 DEF ReceiveReply
  <2>6. device = "replying" => conn \in Commands BY UsableCommands
  <2> QED BY <2>2, <2>3, <2>4, <2>5, <2>6
<1>13. ASSUME NEW c \in Commands, GiveUp(c) PROVE Replies' BY <1>13 DEF GiveUp
<1>14. ASSUME NEW c \in Commands, CloseLink(c) PROVE Replies' BY <1>14 DEF CloseLink, ShutDown, Exit
<1>15. ASSUME NEW c \in Commands, ProbeLog(c) PROVE Replies' BY <1>15 DEF ProbeLog
<1>16. ASSUME NEW c \in Commands, OpenLog(c) PROVE Replies' BY <1>16 DEF OpenLog
<1>17. ASSUME NEW c \in Commands, WriteLog(c) PROVE Replies' BY <1>17 DEF WriteLog, Exit
<1>18. ASSUME NEW c \in Commands, OpenLogFails(c) PROVE Replies' BY <1>18 DEF OpenLogFails, Exit
<1>19. ASSUME NEW c \in Commands, Kill(c) PROVE Replies' BY <1>19 DEF Kill, ShutDown, Exit
<1>20. CASE UNCHANGED vars BY <1>20 DEF vars
<1> QED
  BY <1>1, <1>2, <1>3, <1>4, <1>5, <1>6, <1>7, <1>8, <1>9, <1>10, <1>11, <1>12, <1>13, <1>14,
     <1>15, <1>16, <1>17, <1>18, <1>19, <1>20
  DEF Next, Device, Going

(* A command reports once, at the end of its wait, and the answer to       *)
(* itself.                                                                 *)
LEMMA ReportsStep == Types /\ Requests /\ Replies /\ Reports /\ [Next]_vars => Reports'
<1> SUFFICES ASSUME Types, Requests, Replies, Reports, [Next]_vars PROVE Reports' OBVIOUS
<1> USE DEF Types, TypeOK, Requests, Replies, Reports, Serving, deviceVars, fileVars, clientVars, netVars, historyVars
<1>1. CASE Listen BY <1>1 DEF Listen
<1>2. CASE Accept BY <1>2 DEF Accept
<1>3. CASE Execute BY <1>3 DEF Execute
<1>4. CASE SendReply BY <1>4 DEF SendReply
<1>5. CASE LogTxn BY <1>5 DEF LogTxn
<1>6. CASE EndOfFile BY <1>6 DEF EndOfFile
<1>7. CASE Die BY <1>7 DEF Die
<1>8. ASSUME NEW c \in Commands, Refuse(c) PROVE Reports' BY <1>8, OpenUntilOver DEF Refuse, Exit
<1>9. ASSUME NEW c \in Commands, Connect(c) PROVE Reports' BY <1>9 DEF Connect
<1>10. ASSUME NEW c \in Commands, Fail(c) PROVE Reports' BY <1>10, OpenUntilOver DEF Fail, Exit
<1>11. ASSUME NEW c \in Commands, SendRequest(c) PROVE Reports' BY <1>11 DEF SendRequest
<1>12. ASSUME NEW c \in Commands, ReceiveReply(c) PROVE Reports'
  <2>1. toClient[c] = <<answer[c]>> /\ answer[c] # NoReply BY <1>12 DEF ReceiveReply
  <2>2. report' = [report EXCEPT ![c] = answer[c]]
    <3>1. Head(<<answer[c]>>) = answer[c] OBVIOUS
    <3> QED BY <1>12, <2>1, <3>1 DEF ReceiveReply
  <2>3. answer[c] \notin {Open, NoAnswer} OBVIOUS
  <2>4. client' = [client EXCEPT ![c] = "closing"] /\ answer' = answer BY <1>12 DEF ReceiveReply
  <2> QED BY <2>1, <2>2, <2>3, <2>4
<1>13. ASSUME NEW c \in Commands, GiveUp(c) PROVE Reports' BY <1>13, OpenUntilOver DEF GiveUp
<1>14. ASSUME NEW c \in Commands, CloseLink(c) PROVE Reports' BY <1>14 DEF CloseLink, ShutDown, Exit
<1>15. ASSUME NEW c \in Commands, ProbeLog(c) PROVE Reports' BY <1>15 DEF ProbeLog
<1>16. ASSUME NEW c \in Commands, OpenLog(c) PROVE Reports' BY <1>16 DEF OpenLog
<1>17. ASSUME NEW c \in Commands, WriteLog(c) PROVE Reports' BY <1>17 DEF WriteLog, Exit
<1>18. ASSUME NEW c \in Commands, OpenLogFails(c) PROVE Reports' BY <1>18 DEF OpenLogFails, Exit
<1>19. ASSUME NEW c \in Commands, Kill(c) PROVE Reports' BY <1>19, OpenUntilOver DEF Kill, ShutDown, Exit
<1>20. CASE UNCHANGED vars BY <1>20 DEF vars
<1> QED
  BY <1>1, <1>2, <1>3, <1>4, <1>5, <1>6, <1>7, <1>8, <1>9, <1>10, <1>11, <1>12, <1>13, <1>14,
     <1>15, <1>16, <1>17, <1>18, <1>19, <1>20
  DEF Next, Device, Going

(* Every step keeps those that were over before an executed command        *)
(* connected out of the backlog and off the line.                          *)
LEMMA EarlierStep == Types /\ Requests /\ Connections /\ Earlier /\ [Next]_vars => Earlier'
<1> SUFFICES ASSUME Types, Requests, Connections, Earlier, [Next]_vars PROVE Earlier' OBVIOUS
<1> USE DEF Types, TypeOK, Connections, Earlier, NoLateEffects, Serving, deviceVars, fileVars, clientVars, netVars, historyVars
<1>1. CASE Listen BY <1>1 DEF Listen
<1>2. CASE Accept BY <1>2 DEF Accept
<1>3. CASE Execute
  <2>1. conn \in Commands /\ conn # None /\ backlog = <<>> BY <1>3, UsableCommands DEF Execute
  <2>2. /\ DOMAIN order = 1..Len(order) /\ DOMAIN order' = 1..Len(order')
        /\ Len(order) \in Nat /\ Len(order') = Len(order) + 1
        /\ \A i \in 1..Len(order) : order'[i] = order[i]
        /\ order'[Len(order) + 1] = conn
    <3>1. conn \in Usable BY <1>3 DEF Execute
    <3>2. order \in Seq(Usable) /\ order' = Append(order, conn) BY <1>3 DEF Execute
    <3> QED BY <3>1, <3>2, AppendProperties, LenProperties
  <2>3. UNCHANGED <<before, client, exit, conn, backlog>> BY <1>3 DEF Execute
  <2>4. \A i \in DOMAIN order' :
          /\ client'[order'[i]] # "idle"
          /\ \A d \in before'[order'[i]] :
               d # conn' /\ \A k \in DOMAIN backlog' : backlog'[k] # d
    <3> TAKE i \in DOMAIN order'
    <3>1. CASE i \in 1..Len(order) BY <2>2, <2>3, <3>1
    <3>2. CASE i = Len(order) + 1 BY <2>1, <2>2, <2>3, <3>2
    <3> QED BY <2>2, <3>1, <3>2
  <2>5. NoLateEffects'
    <3> SUFFICES ASSUME NEW i \in DOMAIN order', NEW j \in DOMAIN order', i < j
                 PROVE  order'[j] \notin before'[order'[i]]
      BY DEF NoLateEffects
    <3>1. CASE j \in 1..Len(order) BY <2>2, <2>3, <3>1
    <3>2. CASE j = Len(order) + 1
      <4>1. i \in 1..Len(order) BY <2>2, <3>2
      <4> QED BY <2>2, <2>3, <3>2, <4>1
    <3> QED BY <2>2, <3>1, <3>2
  <2> QED BY <2>3, <2>4, <2>5
<1>4. CASE SendReply BY <1>4 DEF SendReply
<1>5. CASE LogTxn BY <1>5 DEF LogTxn
<1>6. CASE EndOfFile \/ Die
  <2>1. \A i \in DOMAIN order : order[i] \in Commands BY UsableCommands, SeqElements
  <2>2. \A c \in Commands : None \notin before[c] BY C2TcpAssumption
  <2>3. conn' = None /\ UNCHANGED <<before, client, exit, order, backlog>>
    BY <1>6 DEF EndOfFile, Die
  <2> QED BY <2>1, <2>2, <2>3
<1>8. ASSUME NEW c \in Commands, Refuse(c) PROVE Earlier' BY <1>8 DEF Refuse, Exit
<1>9. ASSUME NEW c \in Commands, Connect(c) PROVE Earlier'
  <2> DEFINE over == {d \in Commands : opts[d].status = 0 /\ exit[d] # Running}
  <2>1. client[c] = "idle" /\ exit[c] = Running BY <1>9 DEF Connect
  <2>2. /\ before' = [before EXCEPT ![c] = over]
        /\ \A d \in over : d # c /\ exit[d] # Running
    BY <1>9, <2>1 DEF Connect
  <2>3. /\ client' = [client EXCEPT ![c] = "connected"]
        /\ UNCHANGED <<conn, order, exit>>
    BY <1>9 DEF Connect
  <2> HIDE DEF over
  <2>4. \A d \in Commands : \A e \in before'[d] : e # d /\ exit'[e] # Running
    BY <2>2, <2>3
  <2>5. \A i \in DOMAIN order : order[i] \in Commands /\ order[i] # c
    BY <2>1, UsableCommands, SeqElements
  <2>6. \A i \in DOMAIN order : \A d \in before[order[i]] : d # c BY <2>1, <2>5
  <2>7. \A k \in DOMAIN backlog' : backlog'[k] = c \/ \E j \in DOMAIN backlog : backlog'[k] = backlog[j]
    <3>1. c \in Usable BY <1>9, RefusedFacts DEF Connect
    <3>2. backlog \in Seq(Usable) /\ backlog' = Append(backlog, c) BY <1>9 DEF Connect
    <3> QED BY <3>1, <3>2, AppendProperties, LenProperties
  <2>8. \A i \in DOMAIN order' :
          /\ client'[order'[i]] # "idle"
          /\ \A d \in before'[order'[i]] :
               d # conn' /\ \A k \in DOMAIN backlog' : backlog'[k] # d
    BY <2>2, <2>3, <2>5, <2>6, <2>7
  <2>9. NoLateEffects' BY <2>2, <2>3, <2>5 DEF NoLateEffects
  <2> QED BY <2>4, <2>8, <2>9
<1>10. ASSUME NEW c \in Commands, Fail(c) PROVE Earlier' BY <1>10 DEF Fail, Exit
<1>11. ASSUME NEW c \in Commands, SendRequest(c) PROVE Earlier' BY <1>11 DEF SendRequest
<1>12. ASSUME NEW c \in Commands, ReceiveReply(c) PROVE Earlier' BY <1>12 DEF ReceiveReply
<1>13. ASSUME NEW c \in Commands, GiveUp(c) PROVE Earlier' BY <1>13 DEF GiveUp
<1>14. ASSUME NEW c \in Commands, CloseLink(c) PROVE Earlier'
  <2>1. /\ \A d \in Commands : client'[d] = "idle" => client[d] = "idle"
        /\ \A d \in Commands : exit[d] # Running => exit'[d] # Running
    <3>1. Status(c) # Running BY DEF Status, Running
    <3>2. CASE opts[c].path = NoLog BY <1>14, <3>1, <3>2 DEF CloseLink, Exit
    <3>3. CASE opts[c].path # NoLog BY <1>14, <3>1, <3>3 DEF CloseLink
    <3> QED BY <3>2, <3>3
  <2>2. \A i \in DOMAIN order : order[i] \in Commands BY UsableCommands, SeqElements
  <2>3. UNCHANGED <<before, order, conn, backlog>> BY <1>14 DEF CloseLink
  <2> QED BY <2>1, <2>2, <2>3
<1>15. ASSUME NEW c \in Commands, ProbeLog(c) PROVE Earlier' BY <1>15 DEF ProbeLog
<1>16. ASSUME NEW c \in Commands, OpenLog(c) PROVE Earlier' BY <1>16 DEF OpenLog
<1>17. ASSUME NEW c \in Commands, WriteLog(c) PROVE Earlier' BY <1>17 DEF WriteLog, Exit
<1>18. ASSUME NEW c \in Commands, OpenLogFails(c) PROVE Earlier' BY <1>18 DEF OpenLogFails, Exit
<1>19. ASSUME NEW c \in Commands, Kill(c) PROVE Earlier' BY <1>19 DEF Kill, ShutDown, Exit
<1>20. CASE UNCHANGED vars BY <1>20 DEF vars
<1> QED
  BY <1>1, <1>2, <1>3, <1>4, <1>5, <1>6, <1>8, <1>9, <1>10, <1>11, <1>12, <1>13, <1>14,
     <1>15, <1>16, <1>17, <1>18, <1>19, <1>20
  DEF Next, Device, Going

(* A step that leaves the device's log and what it was busy with alone.    *)
LEMMA LogsKept ==
  ASSUME Logs, UNCHANGED <<opts, answer, order, log>>, Busy' <=> Busy, Busy => conn' = conn
  PROVE  Logs'
<1>1. \A c : DeviceRow(c)' = DeviceRow(c) BY DEF DeviceRow, Row
<1>2. Logged' = Logged BY DEF Logged
<1> QED BY <1>1, <1>2 DEF Logs

(* Every step keeps the device's log that of what it executed.             *)
LEMMA LogsStep == Types /\ Requests /\ Replies /\ Logs /\ [Next]_vars => Logs'
<1> SUFFICES ASSUME Types, Requests, Replies, Logs, [Next]_vars PROVE Logs' OBVIOUS
<1> USE DEF deviceVars, fileVars, clientVars, netVars, historyVars
<1>1. CASE Listen \/ Accept \/ SendReply \/ EndOfFile \/ Die
  BY <1>1, LogsKept DEF Listen, Accept, SendReply, EndOfFile, Die, Busy
<1>2. CASE Execute
  <2>1. conn \in Usable /\ conn \in Commands /\ answer[conn] = NoReply
    BY <1>2, UsableCommands DEF Execute, Types, TypeOK, Serving, Requests
  <2>2. /\ DOMAIN order = 1..Len(order) /\ DOMAIN order' = 1..Len(order')
        /\ Len(order) \in Nat /\ Len(order') = Len(order) + 1
        /\ \A i \in 1..Len(order) : order'[i] = order[i]
        /\ order'[Len(order) + 1] = conn
    <3>1. order \in Seq(Usable) /\ order' = Append(order, conn)
      BY <1>2 DEF Execute, Types, TypeOK
    <3> QED BY <2>1, <3>1, AppendProperties, LenProperties
  <2>3. /\ answer'[conn] # NoReply
        /\ \A d \in Commands : d # conn => answer'[d] = answer[d]
    <3>1. Head(toDevice[conn]) = RequestOf[conn]
      <4>1. toDevice[conn] = <<RequestOf[conn]>> BY <1>2, <2>1 DEF Execute, Requests
      <4> QED BY <4>1
    <3>2. DOMAIN answer = Commands BY DEF Types
    <3> QED BY <1>2, <2>1, <3>1, <3>2, ReplyFacts DEF Execute
  <2>4. \A i \in 1..Len(order) : order[i] # conn /\ order[i] \in Commands
    <3>1. \A i \in 1..Len(order) : answer[order[i]] # NoReply BY <2>2 DEF Logs
    <3>2. order \in Seq(Usable) BY DEF Types, TypeOK
    <3> QED BY <2>1, <3>1, <3>2, SeqElements, UsableCommands
  <2>5. \A c \in Commands : answer'[c] # NoReply => \E i \in DOMAIN order' : order'[i] = c
    <3> TAKE c \in Commands
    <3>1. CASE c = conn BY <2>2, <3>1
    <3>2. CASE c # conn BY <2>2, <2>3, <3>2 DEF Logs
    <3> QED BY <3>1, <3>2
  <2>6. \A i \in DOMAIN order' : answer'[order'[i]] # NoReply
    <3> TAKE i \in DOMAIN order'
    <3>1. CASE i \in 1..Len(order) BY <2>2, <2>3, <2>4, <3>1 DEF Logs
    <3>2. CASE i = Len(order) + 1 BY <2>2, <2>3, <3>2
    <3> QED BY <2>2, <3>1, <3>2
  <2>7. order' # <<>> /\ order'[Len(order')] = conn'
        /\ \A i, j \in DOMAIN order' : order'[i] = order'[j] => i = j
    <3>1. order' # <<>> /\ order'[Len(order')] = conn' BY <1>2, <2>2 DEF Execute
    <3>2. ASSUME NEW i \in DOMAIN order', NEW j \in DOMAIN order', order'[i] = order'[j]
          PROVE  i = j
      <4>1. CASE i \in 1..Len(order) /\ j \in 1..Len(order)
        BY <2>2, <3>2, <4>1 DEF Logs
      <4>2. CASE i = Len(order) + 1 \/ j = Len(order) + 1 BY <2>2, <2>4, <3>2, <4>2
      <4> QED BY <2>2, <4>1, <4>2
    <3> QED BY <3>1, <3>2
  <2>8. Logged = Len(order) /\ Logged' = Len(order)
    BY <1>2, <2>2 DEF Execute, Logged, Busy
  <2>9. log' = [k \in 1..Logged |-> DeviceRow(order[k])]'
    <3>1. \A k \in 1..Len(order) : DeviceRow(order[k])' = DeviceRow(order[k])
      <4> TAKE k \in 1..Len(order)
      <4>1. order'[k] = order[k] /\ answer'[order[k]] = answer[order[k]] BY <2>2, <2>3, <2>4
      <4>2. opts' = opts BY <1>2 DEF Execute
      <4> QED BY <4>1, <4>2 DEF DeviceRow, Row
    <3>2. log' = log /\ log = [k \in 1..Len(order) |-> DeviceRow(order[k])]
      BY <1>2, <2>8 DEF Execute, Logs
    <3> QED BY <2>8, <3>1, <3>2
  <2> QED BY <2>5, <2>6, <2>7, <2>9 DEF Logs
<1>3. CASE LogTxn
  <2>1. UNCHANGED <<opts, answer, order, conn>> /\ log' = Append(log, DeviceRow(conn))
    BY <1>3 DEF LogTxn
  <2>2. Busy /\ ~Busy' BY <1>3 DEF LogTxn, Busy
  <2>3. order # <<>> /\ order[Len(order)] = conn BY <2>2 DEF Logs
  <2> DEFINE n == Len(order)
  <2>4. n \in Nat /\ n >= 1 BY <2>3, EmptySeq, LenProperties DEF Types, TypeOK
  <2>5. Logged = n - 1 /\ Logged' = n BY <2>1, <2>2 DEF Logged
  <2>6. log = [k \in 1..(n - 1) |-> DeviceRow(order[k])] BY <2>5 DEF Logs
  <2> HIDE DEF n
  <2> DEFINE S == {DeviceRow(order[k]) : k \in 1..n}
  <2>7. log \in Seq(S) /\ Len(log) = n - 1
    <3>1. log \in [1..(n - 1) -> S] BY <2>4, <2>6
    <3> HIDE DEF S
    <3> QED BY <2>4, <3>1, FunctionIsSeq
  <2>8. DeviceRow(conn) \in S /\ DeviceRow(order[n]) = DeviceRow(conn) BY <2>3, <2>4 DEF n
  <2> HIDE DEF S
  <2>9. /\ DOMAIN log' = 1..n
        /\ \A k \in 1..(n - 1) : log'[k] = log[k]
        /\ log'[n] = DeviceRow(conn)
        /\ log' \in Seq(S)
    BY <2>1, <2>4, <2>7, <2>8, AppendProperties, LenProperties
  <2>10. \A k \in 1..n : log'[k] = DeviceRow(order[k])
    <3> TAKE k \in 1..n
    <3>1. CASE k \in 1..(n - 1) BY <2>6, <2>9, <3>1
    <3>2. CASE k = n BY <2>8, <2>9, <3>2
    <3> QED BY <2>4, <3>1, <3>2
  <2>11. log' = [k \in 1..n |-> DeviceRow(order[k])]
    <3>1. log' = [k \in DOMAIN log' |-> log'[k]] BY <2>9, LenProperties
    <3> QED BY <2>9, <2>10, <3>1
  <2>12. \A c : DeviceRow(c)' = DeviceRow(c) BY <2>1 DEF DeviceRow, Row
  <2> QED BY <2>1, <2>2, <2>5, <2>11, <2>12 DEF Logs
<1>4. ASSUME NEW c \in Commands,
             \/ Refuse(c) \/ Connect(c) \/ Fail(c) \/ SendRequest(c) \/ ReceiveReply(c)
             \/ GiveUp(c) \/ CloseLink(c) \/ ProbeLog(c) \/ OpenLog(c) \/ WriteLog(c)
             \/ OpenLogFails(c) \/ Kill(c)
      PROVE  Logs'
  <2>1. UNCHANGED <<opts, answer, order, log, device, conn>>
    BY <1>4 DEF Refuse, Connect, Fail, SendRequest, ReceiveReply, GiveUp, CloseLink, ProbeLog,
                OpenLog, WriteLog, OpenLogFails, Kill
  <2>2. Logs /\ (Busy' <=> Busy) BY <2>1 DEF Busy
  <2> QED BY <2>1, <2>2, LogsKept
<1>5. CASE UNCHANGED vars BY <1>5, LogsKept DEF vars, Busy
<1> QED BY <1>1, <1>2, <1>3, <1>4, <1>5 DEF Next, Device, Going

-----------------------------------------------------------------------------
(* A row of a file stays true as long as its command's report does not     *)
(* change.                                                                 *)
LEMMA ToldKept ==
  ASSUME NEW row \in Lines,
         \A c \in Commands : report[c] \notin {Open, NoAnswer} => report'[c] = report[c],
         Told(row)
  PROVE  Told(row)'
<1>1. CASE row = Header BY <1>1 DEF Told
<1>2. CASE row \in HostRows
  <2>1. row.by \in Commands BY <1>2, UsableCommands DEF HostRows
  <2> QED BY <2>1 DEF Told, Result
<1> QED BY <1>1, <1>2 DEF Lines

(* What is in a file stays true, and a command that goes on where it was   *)
(* still knows the file.                                                   *)
LEMMA FilesKept ==
  ASSUME Files, UNCHANGED <<opts, audit, headed>>,
         \A c \in Commands : report[c] \notin {Open, NoAnswer} => report'[c] = report[c],
         \A c \in Commands : client'[c] \in {"probing", "opening", "writing"} =>
           client[c] = client'[c] \/ (client'[c] = "probing" /\ opts[c].path \in Paths)
  PROVE  Files'
<1>1. \A p \in Paths : \A k \in DOMAIN audit[p].lines : Told(audit[p].lines[k])'
  <2> TAKE p \in Paths
  <2> TAKE k \in DOMAIN audit[p].lines
  <2> DEFINE row == audit[p].lines[k]
  <2>1. audit[p].lines \in Seq(Lines) BY DEF Files, File
  <2>2. row \in Lines /\ Told(row) BY <2>1, SeqElements DEF Files
  <2>3. row' = row OBVIOUS
  <2> HIDE DEF row
  <2>4. Told(row)' BY <2>2, <2>3, ToldKept DEF Told, Result
  <2> QED BY <2>4 DEF row
<1>2. HeaderFirst' BY DEF Files, HeaderFirst
<1> QED BY <1>1, <1>2 DEF Files

(* Every step keeps the audit files: their rows, and the header before     *)
(* them.                                                                   *)
LEMMA FilesStep == Types /\ Requests /\ Replies /\ Reports /\ Files /\ [Next]_vars => Files'
<1> SUFFICES ASSUME Types, Requests, Replies, Reports, Files, [Next]_vars PROVE Files' OBVIOUS
<1> USE DEF deviceVars, fileVars, clientVars, netVars, historyVars
<1>1. CASE Device \/ UNCHANGED vars
  <2>1. UNCHANGED <<opts, audit, headed, report, client>>
    BY <1>1 DEF Device, Listen, Accept, Execute, SendReply, LogTxn, EndOfFile, Die, vars
  <2> QED BY <2>1, FilesKept
<1>2. ASSUME NEW c \in Commands,
             Refuse(c) \/ Connect(c) \/ Fail(c) \/ SendRequest(c) \/ ReceiveReply(c) \/ GiveUp(c)
      PROVE  Files'
  <2>1. UNCHANGED <<opts, audit, headed>>
    BY <1>2 DEF Refuse, Connect, Fail, SendRequest, ReceiveReply, GiveUp
  <2>2. client[c] \in {"idle", "connected", "waiting"}
    BY <1>2 DEF Refuse, Connect, Fail, SendRequest, ReceiveReply, GiveUp
  <2>3. report[c] = Open BY <2>2 DEF Reports
  <2>4. \A d \in Commands : d # c => report'[d] = report[d]
    BY <1>2 DEF Types, Refuse, Connect, Fail, SendRequest, ReceiveReply, GiveUp
  <2>5. /\ client'[c] \in {"connected", "waiting", "closing", "finished"}
        /\ \A d \in Commands : d # c => client'[d] = client[d]
    BY <1>2 DEF Types, TypeOK, Refuse, Exit, Connect, Fail, SendRequest, ReceiveReply, GiveUp
  <2> QED BY <2>1, <2>3, <2>4, <2>5, FilesKept
<1>3. ASSUME NEW c \in Commands, CloseLink(c) PROVE Files'
  <2>1. UNCHANGED <<opts, audit, headed, report>> BY <1>3 DEF CloseLink
  <2>2. c \in Usable BY <1>3 DEF CloseLink, Requests
  <2>3. opts[c].path # NoLog => opts[c].path \in Paths BY <2>2, ParsedFacts DEF Types
  <2>4. CASE opts[c].path = NoLog
    <3>1. client' = [client EXCEPT ![c] = "finished"] BY <1>3, <2>4 DEF CloseLink, Exit
    <3>2. \A d \in Commands : client'[d] = client[d] \/ client'[d] = "finished"
      BY <3>1 DEF Types, TypeOK
    <3> QED BY <2>1, <3>2, FilesKept
  <2>5. CASE opts[c].path # NoLog
    <3>1. client' = [client EXCEPT ![c] = "probing"] BY <1>3, <2>5 DEF CloseLink
    <3>2. \A d \in Commands : client'[d] = client[d] \/ (d = c /\ client'[d] = "probing")
      BY <3>1 DEF Types, TypeOK
    <3> QED BY <2>1, <2>3, <2>5, <3>2, FilesKept
  <2> QED BY <2>4, <2>5
<1>4. ASSUME NEW c \in Commands, OpenLogFails(c) \/ Kill(c) PROVE Files'
  <2>1. UNCHANGED <<opts, audit, headed>> BY <1>4 DEF OpenLogFails, Kill
  <2>2. client' = [client EXCEPT ![c] = "finished"] BY <1>4 DEF OpenLogFails, Kill, Exit
  <2>3. \A d \in Commands : client'[d] = client[d] \/ client'[d] = "finished"
    BY <2>2 DEF Types, TypeOK
  <2>4. \A d \in Commands : report[d] \notin {Open, NoAnswer} => report'[d] = report[d]
    BY <1>4 DEF OpenLogFails, Kill, Types
  <2> QED BY <2>1, <2>3, <2>4, FilesKept
<1>5. ASSUME NEW c \in Commands, ProbeLog(c) PROVE Files'
  <2>1. UNCHANGED <<opts, audit, report>> BY <1>5 DEF ProbeLog
  <2>2. /\ client[c] = "probing" /\ client' = [client EXCEPT ![c] = "opening"]
        /\ headed' = [headed EXCEPT ![c] = audit[opts[c].path].lines # <<>>]
    BY <1>5 DEF ProbeLog
  <2>3. \A d \in Commands :
          /\ client'[d] \in {"probing", "opening", "writing"} => opts[d].path \in Paths
          /\ client'[d] \in {"opening", "writing"} /\ headed'[d] => audit[opts[d].path].lines # <<>>
    <3> TAKE d \in Commands
    <3>1. CASE d = c
      <4>1. opts[c].path \in Paths BY <2>2 DEF Files
      <4>2. headed'[c] => audit[opts[c].path].lines # <<>> BY <2>2 DEF Types
      <4> QED BY <3>1, <4>1, <4>2
    <3>2. CASE d # c
      <4>1. client'[d] = client[d] /\ headed'[d] = headed[d] BY <2>2, <3>2 DEF Types, TypeOK
      <4> QED BY <4>1 DEF Files
    <3> QED BY <3>1, <3>2
  <2>4. \A p \in Paths : \A k \in DOMAIN audit[p].lines : Told(audit[p].lines[k])'
    BY <2>1 DEF Files, Told, Result
  <2>5. HeaderFirst' BY <2>1 DEF Files, HeaderFirst
  <2> QED BY <2>1, <2>3, <2>4, <2>5 DEF Files
<1>6. ASSUME NEW c \in Commands, OpenLog(c) PROVE Files'
  <2>1. UNCHANGED <<opts, headed, report>> BY <1>6 DEF OpenLog
  <2>2. client[c] = "opening" /\ client' = [client EXCEPT ![c] = "writing"] BY <1>6 DEF OpenLog
  <2>3. opts[c].path \in Paths BY <2>2 DEF Files
  <2>4. audit' = [audit EXCEPT ![opts[c].path].there = TRUE] BY <1>6 DEF OpenLog
  <2>5. /\ audit' \in [Paths -> File]
        /\ \A p \in Paths : audit'[p].lines = audit[p].lines
    BY <2>3, <2>4 DEF Files, File
  <2>6. \A d \in Commands :
          /\ client'[d] \in {"probing", "opening", "writing"} => opts[d].path \in Paths
          /\ client'[d] \in {"opening", "writing"} /\ headed[d] => audit[opts[d].path].lines # <<>>
    <3>1. \A d \in Commands : client'[d] = client[d] \/ (d = c /\ client'[d] = "writing")
      BY <2>2 DEF Types, TypeOK
    <3> QED BY <2>2, <3>1 DEF Files
  <2>7. \A p \in Paths : \A k \in DOMAIN audit'[p].lines : Told(audit[p].lines[k])'
    BY <2>1, <2>5 DEF Files, Told, Result
  <2>8. HeaderFirst' BY <2>5 DEF Files, HeaderFirst
  <2> QED BY <2>1, <2>5, <2>6, <2>7, <2>8 DEF Files
<1>7. ASSUME NEW c \in Commands, WriteLog(c) PROVE Files'
  <2> DEFINE path == opts[c].path
             row  == Row(c, opts[c].request.addr, opts[c].arg, report[c])
             new  == IF headed[c] THEN <<row>> ELSE <<Header, row>>
             old  == audit[path].lines
  <2>1. /\ UNCHANGED <<opts, headed, report>> /\ client[c] = "writing"
        /\ client' = [client EXCEPT ![c] = "finished"]
        /\ audit' = [audit EXCEPT ![path].lines = old \o new]
    BY <1>7 DEF WriteLog, Exit
  <2>2. c \in Usable /\ path \in Paths /\ report[c] # Open
    BY <2>1 DEF Requests, Reports, Files
  <2>3. row \in HostRows /\ (row.result # "timeout" => report[c] # NoAnswer)
        /\ row.by = c /\ row.result = Result(report[c])
    <3>1. opts[c].request = RequestOf[c] /\ opts[c].arg = C2Arg(ArgsOf[c])
      BY <2>2, ParsedFacts DEF Types
    <3>2. Result(report[c]) \in {"timeout", "nak", "ok"}
          /\ (Result(report[c]) # "timeout" => report[c] # NoAnswer)
      <4>1. NoAnswer.type # "Nak" BY DEF NoAnswer
      <4>2. CASE report[c] = NoAnswer BY <4>1, <4>2 DEF Result
      <4>3. CASE report[c] # NoAnswer BY <4>3 DEF Result
      <4> QED BY <4>2, <4>3
    <3>3. row = [by |-> c, op |-> RequestOf[c].type, addr |-> RequestOf[c].addr,
                 arg |-> C2Arg(ArgsOf[c]), result |-> Result(report[c])]
      BY <3>1 DEF Row
    <3> HIDE DEF row
    <3> QED BY <2>2, <3>2, <3>3 DEF HostRows
  <2>4. old \in Seq(Lines) BY <2>2 DEF Files, File
  <2>5. (headed[c] => old # <<>>) /\ (old # <<>> => Head(old) = Header)
    BY <2>1, <2>2 DEF Files, HeaderFirst
  <2>6. Told(row) BY <2>2, <2>3 DEF Told
  <2> HIDE DEF row
  <2>7. /\ new \in Seq(Lines) /\ Len(new) \in {1, 2}
        /\ \A k \in 1..Len(new) : new[k] = Header \/ new[k] = row
        /\ ~headed[c] => new[1] = Header
    <3>1. row \in Lines /\ Header \in Lines BY <2>3 DEF Lines
    <3>2. CASE headed[c] BY <3>1, <3>2
    <3>3. CASE ~headed[c] BY <3>1, <3>3
    <3> QED BY <3>2, <3>3
  <2> HIDE DEF new, old, path
  <2> DEFINE lines == old \o new
  <2>8. /\ lines \in Seq(Lines) /\ lines # <<>>
        /\ \A k \in DOMAIN lines :
             lines[k] = Header \/ lines[k] = row \/ \E j \in DOMAIN old : lines[k] = old[j]
        /\ Head(lines) = Header
    <3>1. /\ lines \in Seq(Lines) /\ Len(lines) = Len(old) + Len(new)
          /\ \A k \in 1..(Len(old) + Len(new)) :
               lines[k] = IF k <= Len(old) THEN old[k] ELSE new[k - Len(old)]
      BY <2>4, <2>7, ConcatProperties
    <3>2. Len(old) \in Nat /\ DOMAIN old = 1..Len(old) BY <2>4, SeqElements
    <3>3. DOMAIN lines = 1..(Len(old) + Len(new)) BY <3>1, LenProperties
    <3> HIDE DEF lines
    <3>4. lines # <<>> /\ Head(lines) = lines[1]
      BY <2>7, <3>1, <3>2, EmptySeq, HeadTailProperties
    <3>5. ASSUME NEW k \in DOMAIN lines
          PROVE  lines[k] = Header \/ lines[k] = row \/ \E j \in DOMAIN old : lines[k] = old[j]
      <4>1. CASE k <= Len(old) BY <3>1, <3>2, <3>3, <3>5, <4>1
      <4>2. CASE k > Len(old)
        <5>1. k - Len(old) \in 1..Len(new) BY <2>7, <3>2, <3>3, <4>2
        <5> QED BY <2>7, <3>1, <3>2, <3>3, <4>2, <5>1
      <4> QED BY <2>7, <3>2, <3>3, <4>1, <4>2
    <3>6. lines[1] = Header
      <4>1. CASE old = <<>>
        <5>1. Len(old) = 0 BY <4>1
        <5> QED BY <2>5, <2>7, <3>1, <4>1, <5>1
      <4>2. CASE old # <<>>
        <5>1. Len(old) >= 1 /\ Head(old) = old[1] BY <2>4, <3>2, <4>2, EmptySeq, HeadTailProperties
        <5> QED BY <2>5, <2>7, <3>1, <3>2, <4>2, <5>1
      <4> QED BY <4>1, <4>2
    <3> QED BY <3>1, <3>4, <3>5, <3>6
  <2>9. /\ audit' \in [Paths -> File]
        /\ audit'[path].lines = lines
        /\ \A p \in Paths : p # path => audit'[p].lines = audit[p].lines
    <3> HIDE DEF lines
    <3>1. audit' = [audit EXCEPT ![path].lines = lines] BY <2>1 DEF lines
    <3> QED BY <2>2, <2>8, <3>1 DEF Files, File
  <2> HIDE DEF lines
  <2>10. path \in Paths BY <2>2
  <2>11. \A j \in DOMAIN old : Told(old[j]) BY <2>10 DEF Files, old
  <2>12. Told(Header) BY DEF Told
  <2>13. ASSUME NEW p \in Paths, NEW k \in DOMAIN audit'[p].lines
         PROVE  Told(audit[p].lines[k])'
    <3>1. CASE p = path
      <4>1. \/ lines[k] = Header \/ lines[k] = row \/ \E j \in DOMAIN old : lines[k] = old[j]
        BY <2>8, <2>9, <2>13, <3>1
      <4>2. Told(lines[k]) BY <2>6, <2>11, <2>12, <4>1
      <4> QED BY <2>1, <2>9, <3>1, <4>2 DEF Told
    <3>2. CASE p # path BY <2>1, <2>9, <2>13, <3>2 DEF Files, Told, Result
    <3> QED BY <3>1, <3>2
  <2>14. HeaderFirst' BY <2>8, <2>9 DEF Files, HeaderFirst
  <2>15. \A d \in Commands :
           /\ client'[d] \in {"probing", "opening", "writing"} => opts[d].path \in Paths
           /\ client'[d] \in {"opening", "writing"} /\ headed[d] => audit'[opts[d].path].lines # <<>>
    <3>1. \A d \in Commands : client'[d] = client[d] \/ client'[d] = "finished"
      BY <2>1 DEF Types, TypeOK
    <3> QED BY <2>8, <2>9, <3>1 DEF Files
  <2> QED BY <2>1, <2>9, <2>13, <2>14, <2>15 DEF Files
<1> QED BY <1>1, <1>2, <1>3, <1>4, <1>5, <1>6, <1>7 DEF Next, Going

-----------------------------------------------------------------------------
(* Rows come with the exit, and at most one for each command.              *)
Endings ==
  \A c \in Commands :
    /\ exit[c] = 2 => c \notin Usable
    /\ exit[c] = 0 =>
         /\ c \in Usable /\ report[c] \notin {Open, NoAnswer}
         /\ opts[c].path # NoLog => RowsOf(c) # {}
    /\ \A k \in RowsOf(c) : exit[c] = Status(c) /\ \A m \in RowsOf(c) : m = k

(* A command that is over has ended with a status of the program.          *)
LEMMA StatusIsStatus ==
  ASSUME NEW c
  PROVE  Status(c) \in {0, 1} /\ Status(c) # Running
BY DEF Status, Running

(* A step that leaves a file's rows, the exits and the reports alone.      *)
LEMMA EndingsKept ==
  ASSUME NEW c \in Commands, Endings,
         UNCHANGED opts, \A d \in Commands : RowsOf(d)' = RowsOf(d),
         \A d \in Commands : d # c => exit'[d] = exit[d] /\ report'[d] = report[d],
         exit[c] = Running,
         exit'[c] = 2 => c \notin Usable,
         exit'[c] = 0 =>
           c \in Usable /\ report'[c] \notin {Open, NoAnswer} /\ opts[c].path = NoLog
  PROVE  Endings'
<1>1. RowsOf(c) = {} BY StatusIsStatus DEF Endings
<1>2. \A d \in Commands : d # c => Status(d)' = Status(d) BY DEF Status
<1> QED BY <1>1, <1>2 DEF Endings

(* Every step keeps the exit statuses and the rows of those that have      *)
(* ended what they were told and what they logged.                         *)
LEMMA EndingsStep ==
  Types /\ Requests /\ Reports /\ Files /\ Endings /\ [Next]_vars => Endings'
<1> SUFFICES ASSUME Types, Requests, Reports, Files, Endings, [Next]_vars PROVE Endings' OBVIOUS
<1> USE DEF deviceVars, fileVars, clientVars, netVars, historyVars
<1>1. \A c \in Commands : client[c] # "finished" => exit[c] = Running BY DEF Types, TypeOK
<1>2. CASE Device \/ UNCHANGED vars
  <2>1. UNCHANGED <<opts, audit, exit, report>>
    BY <1>2 DEF Device, Listen, Accept, Execute, SendReply, LogTxn, EndOfFile, Die, vars
  <2> QED BY <2>1 DEF Endings, RowsOf, Status
<1>3. ASSUME NEW c \in Commands,
             Connect(c) \/ SendRequest(c) \/ ReceiveReply(c) \/ GiveUp(c) \/ ProbeLog(c)
      PROVE  Endings'
  <2>1. UNCHANGED <<opts, audit, exit>>
    BY <1>3 DEF Connect, SendRequest, ReceiveReply, GiveUp, ProbeLog
  <2>2. \A d \in Commands : RowsOf(d)' = RowsOf(d) BY <2>1 DEF RowsOf
  <2>3. exit[c] = Running
    BY <1>1, <1>3 DEF Connect, SendRequest, ReceiveReply, GiveUp, ProbeLog
  <2>4. \A d \in Commands : d # c => report'[d] = report[d]
    BY <1>3 DEF Connect, SendRequest, ReceiveReply, GiveUp, ProbeLog, Types
  <2>5. exit'[c] \notin {0, 2} BY <2>1, <2>3 DEF Running
  <2> QED BY <2>1, <2>2, <2>3, <2>4, <2>5, EndingsKept
<1>4. ASSUME NEW c \in Commands, Refuse(c) \/ Fail(c) \/ OpenLogFails(c) \/ Kill(c)
      PROVE  Endings'
  <2>1. UNCHANGED <<opts, audit>> BY <1>4 DEF Refuse, Fail, OpenLogFails, Kill
  <2>2. \A d \in Commands : RowsOf(d)' = RowsOf(d) BY <2>1 DEF RowsOf
  <2>3. exit[c] = Running BY <1>1, <1>4 DEF Refuse, Fail, OpenLogFails, Kill
  <2>4. \A d \in Commands : d # c => exit'[d] = exit[d] /\ report'[d] = report[d]
    BY <1>4 DEF Refuse, Fail, OpenLogFails, Kill, Exit, Types
  <2>5. exit'[c] # 0 /\ (exit'[c] = 2 => c \notin Usable)
    <3>1. CASE Refuse(c)
      <4>1. exit'[c] = opts[c].status /\ opts[c].status # 0 BY <3>1 DEF Refuse, Exit, Types
      <4> QED BY <4>1, RefusedFacts DEF Types
    <3>2. CASE Fail(c) \/ OpenLogFails(c) \/ Kill(c)
      BY <3>2 DEF Fail, OpenLogFails, Kill, Exit, Types, Killed
    <3> QED BY <1>4, <3>1, <3>2
  <2> QED BY <2>1, <2>2, <2>3, <2>4, <2>5, EndingsKept
<1>5. ASSUME NEW c \in Commands, CloseLink(c) PROVE Endings'
  <2>1. UNCHANGED <<opts, audit, report>> /\ client[c] = "closing" BY <1>5 DEF CloseLink
  <2>2. \A d \in Commands : RowsOf(d)' = RowsOf(d) BY <2>1 DEF RowsOf
  <2>3. exit[c] = Running BY <1>1, <2>1
  <2>4. c \in Usable /\ report[c] # Open BY <2>1 DEF Requests, Reports
  <2>5. CASE opts[c].path = NoLog
    <3>1. exit' = [exit EXCEPT ![c] = Status(c)] BY <1>5, <2>5 DEF CloseLink, Exit
    <3>2. Status(c) # 2 /\ (Status(c) = 0 => report[c] # NoAnswer) BY DEF Status
    <3>3. exit'[c] = Status(c) /\ \A d \in Commands : d # c => exit'[d] = exit[d]
      BY <3>1 DEF Types
    <3> QED BY <2>1, <2>2, <2>3, <2>4, <2>5, <3>2, <3>3, EndingsKept
  <2>6. CASE opts[c].path # NoLog
    <3>1. exit' = exit BY <1>5, <2>6 DEF CloseLink
    <3>2. exit'[c] \notin {0, 2} BY <2>3, <3>1 DEF Running
    <3> QED BY <2>1, <2>2, <2>3, <3>1, <3>2, EndingsKept
  <2> QED BY <2>5, <2>6
<1>6. ASSUME NEW c \in Commands, OpenLog(c) PROVE Endings'
  <2>1. UNCHANGED <<opts, exit, report>> /\ client[c] = "opening" BY <1>6 DEF OpenLog
  <2>2. opts[c].path \in Paths BY <2>1 DEF Files
  <2>3. \A p \in Paths : audit'[p].lines = audit[p].lines
    BY <1>6, <2>2 DEF OpenLog, Files, File
  <2>4. \A d \in Commands : RowsOf(d)' = RowsOf(d)
    <3> TAKE d \in Commands
    <3>1. CASE opts[d].status # 0 \/ opts[d].path = NoLog BY <2>1, <3>1 DEF RowsOf
    <3>2. CASE opts[d].status = 0 /\ opts[d].path # NoLog
      <4>1. opts[d].path \in Paths BY <3>2, RefusedFacts, ParsedFacts DEF Types
      <4> QED BY <2>1, <2>3, <3>2, <4>1 DEF RowsOf
    <3> QED BY <3>1, <3>2
  <2>5. exit[c] = Running BY <1>1, <2>1
  <2>6. exit'[c] \notin {0, 2} BY <2>1, <2>5 DEF Running
  <2> QED BY <2>1, <2>4, <2>5, <2>6, EndingsKept
<1>7. ASSUME NEW c \in Commands, WriteLog(c) PROVE Endings'
  <2> DEFINE path == opts[c].path
             row  == Row(c, opts[c].request.addr, opts[c].arg, report[c])
             new  == IF headed[c] THEN <<row>> ELSE <<Header, row>>
             old  == audit[path].lines
             lines == old \o new
  <2>1. /\ UNCHANGED <<opts, report>> /\ client[c] = "writing"
        /\ exit' = [exit EXCEPT ![c] = Status(c)]
        /\ audit' = [audit EXCEPT ![path].lines = lines]
    BY <1>7 DEF WriteLog, Exit
  <2>2. c \in Usable /\ path \in Paths /\ report[c] # Open /\ exit[c] = Running
    BY <1>1, <2>1 DEF Requests, Reports, Files
  <2>3. row.by = c /\ row # Header
    <3>1. row.by = c /\ row.result = Result(report[c]) BY DEF Row
    <3>2. \A r : r.by = c /\ DOMAIN r = {"by", "op", "addr", "arg", "result"} => r # Header
      BY DEF Header
    <3>3. DOMAIN row = {"by", "op", "addr", "arg", "result"} BY DEF Row
    <3> QED BY <3>1, <3>2, <3>3
  <2>4. old \in Seq(Lines) BY <2>2 DEF Files, File
  <2> HIDE DEF row
  <2>5. /\ Len(new) \in {1, 2} /\ new \in Seq({Header, row}) /\ new[Len(new)] = row
        /\ \A k \in 1..Len(new) : k # Len(new) => new[k] = Header
    <3>1. CASE headed[c] BY <3>1
    <3>2. CASE ~headed[c] BY <3>2
    <3> QED BY <3>1, <3>2
  <2> HIDE DEF new, old, path
  <2> DEFINE n == Len(old) + Len(new)
  <2>6. /\ DOMAIN lines = 1..n /\ n \in Nat /\ n > Len(old) /\ Len(old) \in Nat
        /\ DOMAIN old = 1..Len(old)
        /\ \A k \in 1..Len(old) : lines[k] = old[k]
        /\ lines[n] = row
        /\ \A k \in 1..n : k > Len(old) /\ k # n => lines[k] = Header
    <3>1. old \in Seq(Lines \cup {row}) /\ new \in Seq(Lines \cup {row})
      BY <2>4, <2>5, SeqMonotonic DEF Lines
    <3>2. /\ lines \in Seq(Lines \cup {row}) /\ Len(lines) = n
          /\ \A k \in 1..n : lines[k] = IF k <= Len(old) THEN old[k] ELSE new[k - Len(old)]
      BY <3>1, ConcatProperties
    <3>3. Len(old) \in Nat /\ DOMAIN old = 1..Len(old) BY <2>4, SeqElements
    <3>4. DOMAIN lines = 1..n BY <3>2, LenProperties
    <3> HIDE DEF lines
    <3>5. ASSUME NEW k \in 1..n, k > Len(old)
          PROVE  lines[k] = new[k - Len(old)] /\ k - Len(old) \in 1..Len(new)
      BY <2>5, <3>2, <3>3, <3>5
    <3>6. \A k \in 1..Len(old) : lines[k] = old[k] BY <2>5, <3>2, <3>3
    <3>7. lines[n] = row
      <4>1. n \in 1..n /\ n > Len(old) /\ n - Len(old) = Len(new)
        <5>1. Len(old) \in Nat /\ (Len(new) = 1 \/ Len(new) = 2) BY <2>5, <3>3
        <5>2. ASSUME NEW i \in Nat, NEW j, j = 1 \/ j = 2
              PROVE  i + j \in 1..(i + j) /\ i + j > i /\ (i + j) - i = j
          BY <5>2
        <5> QED BY <5>1, <5>2
      <4>2. lines[n] = new[n - Len(old)] BY <3>5, <4>1
      <4> QED BY <2>5, <4>1, <4>2
    <3>8. ASSUME NEW k \in 1..n, k > Len(old), k # n PROVE lines[k] = Header
      <4>1. k - Len(old) # Len(new) BY <2>5, <3>3, <3>8
      <4> QED BY <2>5, <3>5, <3>8, <4>1
    <3>9. n \in Nat /\ n > Len(old)
      <4>1. Len(old) \in Nat /\ (Len(new) = 1 \/ Len(new) = 2) BY <2>5, <3>3
      <4> QED BY <4>1
    <3> QED BY <3>3, <3>4, <3>6, <3>7, <3>8, <3>9
  <2> HIDE DEF n, lines
  <2>7. /\ audit'[path].lines = lines
        /\ \A p \in Paths : p # path => audit'[p].lines = audit[p].lines
    BY <2>1, <2>2 DEF Files, File
  <2>8. opts[c].status = 0 /\ path # NoLog /\ path = opts[c].path
    <3>1. opts[c].status = 0 BY <2>2, ParsedFacts DEF Types
    <3>2. path # NoLog BY <2>2 DEF Paths
    <3> QED BY <3>1, <3>2 DEF path
  <2>9. RowsOf(c) = {}
    <3>1. Status(c) # Running BY DEF Status, Running
    <3> QED BY <2>2, <3>1 DEF Endings
  <2>10. RowsOf(c)' = {n}
    <3>1. RowsOf(c) = {k \in DOMAIN old : old[k] # Header /\ old[k].by = c}
      BY <2>8 DEF RowsOf, old, path
    <3>2. RowsOf(c)' = {k \in DOMAIN lines : lines[k] # Header /\ lines[k].by = c}
      BY <2>1, <2>7, <2>8 DEF RowsOf
    <3>3. \A k \in 1..n : lines[k] # Header /\ lines[k].by = c <=> k = n
      <4> TAKE k \in 1..n
      <4>1. CASE k = n BY <2>3, <2>6, <4>1
      <4>2. CASE k # n /\ k > Len(old) BY <2>6, <4>2
      <4>3. CASE k # n /\ k <= Len(old)
        <5>1. k \in DOMAIN old /\ lines[k] = old[k] BY <2>6, <4>3
        <5> QED BY <2>9, <3>1, <4>3, <5>1
      <4> QED BY <2>6, <4>1, <4>2, <4>3
    <3> QED BY <2>6, <3>2, <3>3
  <2>11. ASSUME NEW d \in Commands, d # c
         PROVE  RowsOf(d)' = RowsOf(d)
    <3>1. CASE opts[d].status # 0 \/ opts[d].path = NoLog BY <2>1, <3>1 DEF RowsOf
    <3>2. CASE opts[d].status = 0 /\ opts[d].path # NoLog /\ opts[d].path # path
      <4>1. opts[d].path \in Paths BY <3>2, RefusedFacts, ParsedFacts DEF Types
      <4> QED BY <2>1, <2>7, <3>2, <4>1 DEF RowsOf
    <3>3. CASE opts[d].status = 0 /\ opts[d].path # NoLog /\ opts[d].path = path
      <4>1. RowsOf(d) = {k \in DOMAIN old : old[k] # Header /\ old[k].by = d}
        BY <3>3 DEF RowsOf, old
      <4>2. RowsOf(d)' = {k \in DOMAIN lines : lines[k] # Header /\ lines[k].by = d}
        BY <2>1, <2>7, <3>3 DEF RowsOf
      <4>3. \A k \in 1..n : lines[k] # Header /\ lines[k].by = d =>
              k \in 1..Len(old) /\ lines[k] = old[k]
        BY <2>3, <2>6, <2>11
      <4>4. \A k \in 1..Len(old) : k \in 1..n /\ lines[k] = old[k] BY <2>6
      <4> QED BY <2>6, <4>1, <4>2, <4>3, <4>4
    <3> QED BY <3>1, <3>2, <3>3
  <2>12. /\ exit'[c] = Status(c) /\ Status(c)' = Status(c)
         /\ Status(c) # 2 /\ (Status(c) = 0 => report[c] # NoAnswer)
         /\ \A d \in Commands : d # c => exit'[d] = exit[d] /\ Status(d)' = Status(d)
    BY <2>1 DEF Types, Status
  <2> QED BY <2>1, <2>2, <2>10, <2>11, <2>12 DEF Endings
<1> QED BY <1>2, <1>3, <1>4, <1>5, <1>6, <1>7 DEF Next, Going

-----------------------------------------------------------------------------
IInv ==
  /\ Types /\ Requests /\ Replies /\ Reports
  /\ Connections /\ Earlier /\ Logs /\ Files /\ Endings

(* The invariant holds when no command has begun.                          *)
LEMMA Starts == Init => IInv
<1> SUFFICES ASSUME Init PROVE IInv OBVIOUS
<1>1. /\ client = [c \in Commands |-> "idle"] /\ report = [c \in Commands |-> Open]
      /\ toDevice = [c \in Commands |-> <<>>] /\ toClient = [c \in Commands |-> <<>>]
      /\ answer = [c \in Commands |-> NoReply] /\ before = [c \in Commands |-> {}]
      /\ exit = [c \in Commands |-> Running] /\ headed = [c \in Commands |-> FALSE]
  BY DEF Init
<1>2. device = "closed" /\ backlog = <<>> /\ conn = None /\ order = <<>> /\ log = <<>>
  BY DEF Init
<1>3. audit = [p \in Paths |-> [there |-> FALSE, lines |-> <<>>]] BY DEF Init
<1>4. NoReply \notin {Open, NoAnswer}
  <2>1. NoReply.type = "none" /\ Open.type = "open" /\ NoAnswer.type = "no answer"
    BY DEF NoReply, Open, NoAnswer
  <2> QED BY <2>1
<1>5. Types BY TypesInit
<1>6. Requests BY <1>1 DEF Requests
<1>7. Replies BY <1>1, <1>2, <1>4 DEF Replies
<1>8. Reports BY <1>1 DEF Reports
<1>9. Connections BY <1>2, EmptySeq DEF Connections
<1>10. Earlier BY <1>1, <1>2, EmptySeq DEF Earlier, NoLateEffects
<1>11. Logs
  <2>1. Logged = 0 /\ ~Busy BY <1>2, EmptySeq DEF Logged, Busy
  <2>2. log = [k \in 1..0 |-> DeviceRow(order[k])]
    <3>1. 1..0 = {} /\ DOMAIN <<>> = {} OBVIOUS
    <3> QED BY <1>2, <3>1
  <2>3. DOMAIN order = {} BY <1>2
  <2> QED BY <1>1, <2>1, <2>2, <2>3 DEF Logs
<1>12. Files
  <2>1. \A p \in Paths : audit[p].lines = <<>> BY <1>3
  <2>2. audit \in [Paths -> File] BY <1>3, EmptySeq DEF File
  <2>3. DOMAIN <<>> = {} OBVIOUS
  <2> QED BY <1>1, <1>3, <2>1, <2>2, <2>3 DEF Files, HeaderFirst
<1>13. Endings
  <2>1. \A p \in Paths : DOMAIN audit[p].lines = {}
    <3>1. DOMAIN <<>> = {} OBVIOUS
    <3> QED BY <1>3, <3>1
  <2>2. \A c \in Commands : exit[c] \notin {0, 2} BY <1>1 DEF Running
  <2>3. \A c \in Commands : RowsOf(c) = {}
    BY <1>5, <2>1, RefusedFacts, ParsedFacts DEF RowsOf, Types
  <2> QED BY <2>2, <2>3 DEF Endings
<1> QED BY <1>5, <1>6, <1>7, <1>8, <1>9, <1>10, <1>11, <1>12, <1>13 DEF IInv

(* Every step keeps the invariant.                                         *)
LEMMA Steps == IInv /\ [Next]_vars => IInv'
BY TypesStep, RequestsStep, RepliesStep, ReportsStep, ConnectionsStep, EarlierStep, LogsStep,
   FilesStep, EndingsStep
DEF IInv

(* The inductive invariant: what every step of the device                  *)
(* (apps/device_sim, tools/apps/device_sim) and of the commands (apps/c2)  *)
(* leaves true.                                                            *)
THEOREM C2TcpInvariant == Spec => []IInv
BY Starts, Steps, PTL DEF Spec

(* The types of C2Tcp, for any number of commands and any bank: the        *)
(* device's socket queue stays within its backlog, the bank holds 16-bit   *)
(* values and a command's exit status is one that main() returns.          *)
THEOREM C2TcpTypes == Spec => []TypeOK
<1>1. IInv => TypeOK BY DEF IInv, Types
<1> QED BY <1>1, C2TcpInvariant, PTL

(* A command that has ended, an abandoned one included, has no effect      *)
(* after a command that connected later has been executed, for any number  *)
(* of commands: the device drains a connection to its end before it        *)
(* listens for the next.                                                   *)
THEOREM NothingLate == Spec => []NoLateEffects
<1>1. IInv => NoLateEffects BY DEF IInv, Earlier
<1> QED BY <1>1, C2TcpInvariant, PTL

(* No row comes before the header in an audit file, whichever of the       *)
(* commands sharing it wrote first and whenever one was killed.            *)
THEOREM HeadersFirst == Spec => []HeaderFirst
<1>1. IInv => HeaderFirst BY DEF IInv, Files
<1> QED BY <1>1, C2TcpInvariant, PTL

(* The rows of the device's log, by the command that each is about.        *)
LEMMA LoggedRows ==
  ASSUME IInv
  PROVE  /\ order \in Seq(Usable) /\ DOMAIN order = 1..Len(order) /\ Len(order) \in Nat
         /\ DOMAIN log = 1..Logged
         /\ \A k \in 1..Logged : log[k] = DeviceRow(order[k]) /\ log[k].by = order[k]
         /\ Busy => Len(order) >= 1 /\ order[Len(order)] = conn
<1>1. order \in Seq(Usable) BY DEF IInv, Types, TypeOK
<1>2. DOMAIN order = 1..Len(order) /\ Len(order) \in Nat BY <1>1, SeqElements
<1>3. log = [k \in 1..Logged |-> DeviceRow(order[k])] BY DEF IInv, Logs
<1>4. \A c : DeviceRow(c).by = c BY DEF DeviceRow, Row
<1>5. Busy => order # <<>> /\ order[Len(order)] = conn BY DEF IInv, Logs
<1>6. order # <<>> => Len(order) >= 1 BY <1>1, <1>2, EmptySeq
<1> QED BY <1>1, <1>2, <1>3, <1>4, <1>5, <1>6

(* The device's audit log has every executed request, in order, but for    *)
(* the one being answered, also those whose issuer was gone by then.       *)
THEOREM AuditIsComplete == Spec => []AuditComplete
<1>1. ASSUME IInv PROVE AuditComplete
  <2> DEFINE logged == [k \in DOMAIN log |-> log[k].by]
             n == Len(order)
  <2>1. /\ order \in Seq(Usable) /\ DOMAIN order = 1..n /\ n \in Nat
        /\ DOMAIN log = 1..Logged
        /\ \A k \in 1..Logged : log[k].by = order[k]
        /\ Busy => n >= 1 /\ order[n] = conn
    BY <1>1, LoggedRows
  <2>2. logged = [k \in 1..Logged |-> order[k]] BY <2>1
  <2> HIDE DEF logged, n
  <2>3. order = [k \in 1..n |-> order[k]]
    <3>1. order = [k \in DOMAIN order |-> order[k]] BY <2>1
    <3> QED BY <2>1, <3>1
  <2>4. ~Busy => order = logged BY <2>2, <2>3 DEF Logged, n
  <2>5. Busy => order = Append(logged, conn)
    <3> SUFFICES ASSUME Busy PROVE order = Append(logged, conn) OBVIOUS
    <3>1. Logged = n - 1 BY DEF Logged, n
    <3>2. \A k \in 1..n : order[k] \in Usable BY <2>1, SeqElements
    <3>3. logged \in [1..(n - 1) -> Usable] BY <2>1, <2>2, <3>1, <3>2
    <3>4. logged \in Seq(Usable) /\ Len(logged) = n - 1 BY <2>1, <3>3, FunctionIsSeq
    <3>5. conn \in Usable BY <2>1, <3>2
    <3>6. /\ Append(logged, conn) \in Seq(Usable) /\ Len(Append(logged, conn)) = n
          /\ \A k \in 1..(n - 1) : Append(logged, conn)[k] = order[k]
          /\ Append(logged, conn)[n] = conn
      BY <2>1, <2>2, <3>1, <3>4, <3>5, AppendProperties
    <3>7. \A k \in 1..n : Append(logged, conn)[k] = order[k]
      <4> TAKE k \in 1..n
      <4>1. CASE k \in 1..(n - 1) BY <3>6, <4>1
      <4>2. CASE k = n BY <2>1, <3>6, <4>2
      <4>3. k \in 1..(n - 1) \/ k = n BY <2>1
      <4> QED BY <4>1, <4>2, <4>3
    <3> QED BY <2>1, <3>6, <3>7, SeqEqual DEF n
  <2> QED BY <2>4, <2>5 DEF AuditComplete, Busy, logged
<1> QED BY <1>1, C2TcpInvariant, PTL

(* The two audit logs tell of the same transactions: one that the host     *)
(* logs as answered is in the device's log too, or about to be, with the   *)
(* same operation, address and result and with what the field could hold   *)
(* of the host's argument.                                                 *)
THEOREM AuditsDoAgree == Spec => []AuditsAgree
<1>1. ASSUME IInv, NEW p \in DOMAIN audit, NEW row \in Rows(p), row.result # "timeout"
      PROVE  \E other \in DeviceRows :
               other = [row EXCEPT !.arg = IF row.op = "ReadRegister" THEN UInt8(@)
                                           ELSE UInt16(@)]
  <2> DEFINE c == row.by
             request == RequestOf[c]
  <2>1. audit[p].lines \in Seq(Lines) BY <1>1 DEF IInv, Files, File
  <2>2. /\ \E k \in DOMAIN audit[p].lines : row = audit[p].lines[k]
        /\ row # Header
    BY <1>1 DEF Rows
  <2>3. row \in Lines BY <2>1, <2>2, SeqElements
  <2>4. /\ c \in Usable
        /\ row = [by |-> c, op |-> request.type, addr |-> request.addr,
                  arg |-> C2Arg(ArgsOf[c]), result |-> row.result]
    BY <2>2, <2>3 DEF Lines, HostRows
  <2>5. Told(row) BY <1>1, <2>2 DEF IInv, Files
  <2>6. report[c] \notin {Open, NoAnswer} /\ row.result = Result(report[c])
    BY <1>1, <2>2, <2>5 DEF Told
  <2>7. c \in Commands /\ answer[c] = report[c] /\ answer[c] # NoReply
    BY <1>1, <2>4, <2>6, UsableCommands DEF IInv, Reports
  <2>8. PICK i \in DOMAIN order : order[i] = c BY <1>1, <2>7 DEF IInv, Logs
  <2>9. DeviceRow(c) \in DeviceRows
    <3>1. /\ DOMAIN order = 1..Len(order) /\ Len(order) \in Nat
          /\ DOMAIN log = 1..Logged
          /\ \A k \in 1..Logged : log[k] = DeviceRow(order[k])
          /\ Busy => order[Len(order)] = conn
      BY <1>1, LoggedRows
    <3>2. CASE i \in 1..Logged
      <4>1. i \in DOMAIN log /\ log[i] = DeviceRow(c) BY <2>8, <3>1, <3>2
      <4> QED BY <4>1 DEF DeviceRows, ToSet
    <3>3. CASE i \notin 1..Logged
      <4>1. Busy /\ i = Len(order) BY <2>8, <3>1, <3>3 DEF Logged
      <4>2. c = conn BY <2>8, <3>1, <4>1
      <4>3. device # "replying" BY <1>1, <2>6, <4>2 DEF IInv, Replies
      <4>4. device = "logging" BY <4>1, <4>3 DEF Busy
      <4> QED BY <4>2, <4>4 DEF DeviceRows
    <3> QED BY <3>2, <3>3
  <2>10. /\ opts[c].request = request
         /\ request.type = "ReadRegister" => request.count = UInt8(C2Arg(ArgsOf[c]))
         /\ request.type # "ReadRegister" => request.value = UInt16(C2Arg(ArgsOf[c]))
    <3>1. opts = Parsed BY <1>1 DEF IInv, Types
    <3>2. opts[c].request = request /\ request = C2Request(ArgsOf[c])
      BY <2>4, <3>1, ParsedFacts
    <3> QED BY <3>2 DEF C2Request
  <2> DEFINE arg == IF request.type = "ReadRegister" THEN request.count ELSE request.value
  <2>11. DeviceRow(c) = [by |-> c, op |-> request.type, addr |-> request.addr,
                         arg |-> arg, result |-> row.result]
    BY <2>6, <2>7, <2>10 DEF DeviceRow, Row
  <2>12. arg = IF request.type = "ReadRegister" THEN UInt8(C2Arg(ArgsOf[c]))
               ELSE UInt16(C2Arg(ArgsOf[c]))
    BY <2>10
  <2> HIDE DEF arg, request, c
  <2>13. DeviceRow(c) = [row EXCEPT !.arg = IF row.op = "ReadRegister" THEN UInt8(@)
                                            ELSE UInt16(@)]
    BY <2>4, <2>11, <2>12
  <2> QED BY <2>9, <2>13
<1>2. IInv => AuditsAgree BY <1>1 DEF AuditsAgree
<1> QED BY <1>2, C2TcpInvariant, PTL

(* What a script may conclude from the exit status: 0, the device          *)
(* answered, and did so once; 2, nothing was sent or logged; and a command *)
(* is in its log once if it has logged.                                    *)
THEOREM ExitCodesTell == Spec => []ExitCodeTells
<1>1. ASSUME IInv, NEW c \in Commands, NEW turns, turns = {i \in DOMAIN order : order[i] = c}
      PROVE  /\ exit[c] = 0 => /\ Once(turns) /\ report[c] = answer[c]
                               /\ opts[c].status = 0
                               /\ (opts[c].path # NoLog => Once(RowsOf(c)))
             /\ exit[c] = 2 => turns = {} /\ RowsOf(c) = {}
             /\ exit[c] = 1 => \A k \in RowsOf(c) : audit[opts[c].path].lines[k].result = "timeout"
  <2>1. opts[c].status = 0 <=> c \in Usable BY <1>1, RefusedFacts DEF IInv, Types
  <2>2. ASSUME exit[c] = 0
        PROVE  /\ Once(turns) /\ report[c] = answer[c] /\ opts[c].status = 0
               /\ opts[c].path # NoLog => Once(RowsOf(c))
    <3>1. c \in Usable /\ report[c] \notin {Open, NoAnswer} BY <1>1, <2>2 DEF IInv, Endings
    <3>2. report[c] = answer[c] /\ answer[c] # NoReply BY <1>1, <3>1 DEF IInv, Reports
    <3>3. PICK i \in DOMAIN order : order[i] = c BY <1>1, <3>2 DEF IInv, Logs
    <3>4. turns = {i} BY <1>1, <3>3 DEF IInv, Logs
    <3>5. ASSUME opts[c].path # NoLog PROVE Once(RowsOf(c))
      <4>1. PICK k \in RowsOf(c) : TRUE BY <1>1, <2>2, <3>5 DEF IInv, Endings
      <4>2. RowsOf(c) = {k} BY <1>1, <4>1 DEF IInv, Endings
      <4> QED BY <4>2 DEF Once
    <3>6. Once(turns) BY <3>4 DEF Once
    <3> QED BY <2>1, <3>1, <3>2, <3>5, <3>6
  <2>3. ASSUME exit[c] = 2 PROVE turns = {} /\ RowsOf(c) = {}
    <3>1. c \notin Usable BY <1>1, <2>3 DEF IInv, Endings
    <3>2. \A i \in DOMAIN order : order[i] \in Usable
      BY <1>1, SeqElements DEF IInv, Types, TypeOK
    <3> QED BY <1>1, <2>1, <3>1, <3>2 DEF RowsOf
  <2>4. ASSUME exit[c] = 1, NEW k \in RowsOf(c)
        PROVE  audit[opts[c].path].lines[k].result = "timeout"
    <3> DEFINE path == opts[c].path
               row == audit[path].lines[k]
    <3>1. /\ opts[c].status = 0 /\ path # NoLog /\ k \in DOMAIN audit[path].lines
          /\ row # Header /\ row.by = c
      BY <2>4 DEF RowsOf
    <3>2. path \in Paths BY <1>1, <2>1, <3>1, ParsedFacts DEF IInv, Types
    <3>3. Status(c) = 1 BY <1>1, <2>4 DEF IInv, Endings
    <3>4. report[c] = NoAnswer BY <3>3 DEF Status
    <3>5. Told(row) BY <1>1, <3>1, <3>2 DEF IInv, Files
    <3> QED BY <3>1, <3>4, <3>5 DEF Told
  <2> QED BY <2>2, <2>3, <2>4
<1>2. IInv => ExitCodeTells BY <1>1 DEF ExitCodeTells
<1> QED BY <1>2, C2TcpInvariant, PTL

-----------------------------------------------------------------------------
(* The refinement of RegisterBank: initially no command has been taken.    *)
LEMMA BankStarts == Init => Bank0!Init
<1> SUFFICES ASSUME Init PROVE Bank0!Init OBVIOUS
<1>1. \A c \in Usable : answer[c] = NoReply /\ report[c] = Open
  BY UsableCommands DEF Init
<1>2. regs = InitialRegs BY DEF Init
<1> QED
  BY <1>1, <1>2
  DEF Bank0!Init, Bank0!InitialRegs, InitialRegs, Bank0!NoReply, NoReply, Bank0!Open, Open,
      Bank0!Address, Address, Bank0!U16, U16

(* What the bank sees of a step that reports.                              *)
LEMMA ReportIsReport ==
  ASSUME NEW c \in Usable, NEW said, Types, report[c] = Open,
         UNCHANGED <<regs, answer>>, report' = [report EXCEPT ![c] = said],
         said = NoAnswer \/ (said = answer[c] /\ answer[c] # NoReply)
  PROVE  Bank0!Next
<1>1. c \in Commands /\ DOMAIN report = Commands BY UsableCommands DEF Types
<1>2. [d \in Usable |-> report'[d]] = [[d \in Usable |-> report[d]] EXCEPT ![c] = said]
  BY <1>1, UsableCommands
<1>3. [d \in Usable |-> answer'[d]] = [d \in Usable |-> answer[d]] OBVIOUS
<1>4. Bank0!Report(c)
  BY <1>2, <1>3 DEF Bank0!Report, Bank0!Open, Open, Bank0!NoAnswer, NoAnswer, Bank0!NoReply, NoReply
<1> QED BY <1>4 DEF Bank0!Next

(* Every step is one of the abstract bank's, or changes nothing of it.     *)
LEMMA BankSteps == IInv /\ [Next]_vars => [Bank0!Next]_Bank0!vars
<1> SUFFICES ASSUME IInv, [Next]_vars PROVE [Bank0!Next]_Bank0!vars OBVIOUS
<1> USE DEF deviceVars, fileVars, clientVars, netVars, historyVars
<1>1. ASSUME UNCHANGED <<regs, answer, report>> PROVE UNCHANGED Bank0!vars
  BY <1>1 DEF Bank0!vars
<1>2. CASE Execute
  <2>1. conn \in Usable /\ conn \in Commands BY <1>2, UsableCommands DEF Execute, IInv, Types, TypeOK, Serving
  <2>2. answer[conn] = NoReply /\ Head(toDevice[conn]) = RequestOf[conn]
    <3>1. toDevice[conn] = <<RequestOf[conn]>> /\ answer[conn] = NoReply
      BY <1>2, <2>1 DEF Execute, IInv, Requests
    <3> QED BY <3>1
  <2>3. /\ regs' = RegsAfter(regs, RequestOf[conn])
        /\ answer' = [answer EXCEPT ![conn] = Reply(regs, RequestOf[conn])]
        /\ report' = report
    BY <1>2, <2>2 DEF Execute
  <2>4. [d \in Usable |-> answer'[d]] =
          [[d \in Usable |-> answer[d]] EXCEPT ![conn] = Reply(regs, RequestOf[conn])]
    BY <2>1, <2>3, UsableCommands DEF IInv, Types
  <2>5. Reply(regs, RequestOf[conn]) = Bank0!Reply(regs, RequestOf[conn])
    BY DEF Reply, Bank0!Reply, Readable, Bank0!Readable, Writable, Bank0!Writable, U16, Bank0!U16,
           NoReply, Bank0!NoReply, NAK_BAD_ADDR, Bank0!NAK_BAD_ADDR, NAK_READ_ONLY,
           Bank0!NAK_READ_ONLY, NAK_UNKNOWN_CMD, Bank0!NAK_UNKNOWN_CMD
  <2>6. RegsAfter(regs, RequestOf[conn]) = Bank0!RegsAfter(regs, RequestOf[conn])
    BY DEF RegsAfter, Bank0!RegsAfter, Writable, Bank0!Writable, U16, Bank0!U16
  <2>7. NoReply = Bank0!NoReply BY DEF NoReply, Bank0!NoReply
  <2>8. PICK c \in Usable : c = conn BY <2>1
  <2>9. Bank0!Take(c) BY <2>1, <2>2, <2>3, <2>4, <2>5, <2>6, <2>7, <2>8 DEF Bank0!Take
  <2> QED BY <2>9 DEF Bank0!Next
<1>3. CASE Listen \/ Accept \/ SendReply \/ LogTxn \/ EndOfFile \/ Die \/ UNCHANGED vars
  <2>1. UNCHANGED <<regs, answer, report>>
    BY <1>3, SMTT(20) DEF Listen, Accept, SendReply, LogTxn, EndOfFile, Die, vars
  <2> QED BY <1>1, <2>1
<1>4. ASSUME NEW c \in Commands,
             \/ Connect(c) \/ SendRequest(c) \/ CloseLink(c) \/ ProbeLog(c) \/ OpenLog(c)
             \/ WriteLog(c) \/ OpenLogFails(c)
      PROVE  UNCHANGED Bank0!vars
  <2>1. UNCHANGED <<regs, answer, report>>
    BY <1>4, SMTT(20)
    DEF Connect, SendRequest, CloseLink, ProbeLog, OpenLog, WriteLog, OpenLogFails
  <2> QED BY <1>1, <2>1
<1>5. ASSUME NEW c \in Commands, Refuse(c) PROVE UNCHANGED Bank0!vars
  <2>1. c \notin Usable BY <1>5, RefusedFacts DEF Refuse, IInv, Types
  <2>2. \A d \in Usable : report'[d] = report[d]
    BY <1>5, <2>1, UsableCommands DEF Refuse, IInv, Types
  <2>3. UNCHANGED <<regs, answer>> BY <1>5 DEF Refuse
  <2> QED BY <2>2, <2>3 DEF Bank0!vars
<1>6. ASSUME NEW c \in Commands, Fail(c) \/ GiveUp(c) PROVE Bank0!Next
  <2>1. c \in Usable
    BY <1>6, RefusedFacts DEF Fail, GiveUp, IInv, Types, Requests
  <2>2. client[c] \in {"idle", "connected", "waiting"} BY <1>6 DEF Fail, GiveUp
  <2>3. report[c] = Open BY <2>2 DEF IInv, Reports
  <2>4. UNCHANGED <<regs, answer>> /\ report' = [report EXCEPT ![c] = NoAnswer]
    BY <1>6 DEF Fail, GiveUp
  <2> QED BY <2>1, <2>3, <2>4, ReportIsReport DEF IInv
<1>7. ASSUME NEW c \in Commands, ReceiveReply(c) PROVE Bank0!Next
  <2>1. c \in Usable /\ report[c] = Open BY <1>7 DEF ReceiveReply, IInv, Requests, Reports
  <2>2. toClient[c] = <<answer[c]>> /\ answer[c] # NoReply
    BY <1>7 DEF ReceiveReply, IInv, Replies
  <2>3. Head(toClient[c]) = answer[c] BY <2>2
  <2>4. UNCHANGED <<regs, answer>> /\ report' = [report EXCEPT ![c] = answer[c]]
    BY <1>7, <2>3 DEF ReceiveReply
  <2> QED BY <2>1, <2>2, <2>4, ReportIsReport DEF IInv
<1>8. ASSUME NEW c \in Commands, Kill(c) PROVE [Bank0!Next]_Bank0!vars
  <2>1. UNCHANGED <<regs, answer>> BY <1>8 DEF Kill
  <2>2. CASE report[c] = Open
    <3>1. c \in Usable BY <1>8 DEF Kill, IInv, Types, TypeOK, Requests
    <3>2. report' = [report EXCEPT ![c] = NoAnswer] BY <1>8, <2>2 DEF Kill
    <3> QED BY <2>1, <2>2, <3>1, <3>2, ReportIsReport DEF IInv
  <2>3. CASE report[c] # Open
    <3>1. \A d \in Usable : report'[d] = report[d]
      BY <1>8, <2>3, UsableCommands DEF Kill, IInv, Types
    <3> QED BY <2>1, <3>1 DEF Bank0!vars
  <2> QED BY <2>2, <2>3
<1> QED BY <1>2, <1>3, <1>4, <1>5, <1>6, <1>7, <1>8 DEF Next, Device, Going

(* For any number of commands, any bank and any interleaving of them with  *)
(* the device and with kills, the one-shot commands behave like the        *)
(* abstract bank: each is taken at most once, in one step, and its issuer  *)
(* is told its own answer or that there was none.                          *)
THEOREM BankImplemented == Spec => ImplementsBank
<1>1. Spec => Bank0!Init BY BankStarts DEF Spec
<1>2. Spec => [][Bank0!Next]_Bank0!vars BY C2TcpInvariant, BankSteps, PTL DEF Spec
<1> QED BY <1>1, <1>2 DEF ImplementsBank, Bank0!Spec
=============================================================================

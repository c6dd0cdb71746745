----------------------------- MODULE RegisterBank -----------------------------
(***************************************************************************)
(* What one-shot register commands may rely on: a bank that takes each     *)
(* command at most once, all of it in one step, and a report to whoever    *)
(* issued it that is the answer to that command or says that none came.    *)
(***************************************************************************)
EXTENDS Registers

CONSTANTS Commands, RequestOf

VARIABLES
  regs,     \* the bank
  answer,   \* what the bank answered to the commands it has taken
  report    \* what the issuer was told

vars == <<regs, answer, report>>

Open == [type |-> "open"]
NoAnswer == [type |-> "no answer"]

Init ==
  /\ regs = InitialRegs
  /\ answer = [c \in Commands |-> NoReply]
  /\ report = [c \in Commands |-> Open]

Take(c) ==
  /\ answer[c] = NoReply
  /\ answer' = [answer EXCEPT ![c] = Reply(regs, RequestOf[c])]
  /\ regs' = RegsAfter(regs, RequestOf[c])
  /\ UNCHANGED report

Report(c) ==
  /\ report[c] = Open
  /\ \/ answer[c] # NoReply /\ report' = [report EXCEPT ![c] = answer[c]]
     \/ report' = [report EXCEPT ![c] = NoAnswer]
  /\ UNCHANGED <<regs, answer>>

Next == \E c \in Commands : Take(c) \/ Report(c)

Spec == Init /\ [][Next]_vars
=============================================================================

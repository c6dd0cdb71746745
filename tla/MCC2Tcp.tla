------------------------------- MODULE MCC2Tcp -------------------------------
(* C2Tcp: a write, a read of the same register and a write that is refused,*)
(* at once, two of them typed wider than their fields and all with the     *)
(* same audit log, and a command with a value missing.                     *)
EXTENDS C2Tcp, TLC

CONSTANTS w1, r1, n1, u1

MCCommands == {w1, r1, n1, u1}
MCNumberOf == "0" :> 0 @@ "1" :> 1 @@ "257" :> 257 @@ "65536" :> 65536 @@ "65545" :> 65545
MCOperands == {}
MCEndpoints == {"host:1"}

Line(words) == <<"--tcp", "host:1">> \o words
MCArgsOf ==
  w1 :> Line(<<"write", "0", "65545", "--log", "audit">>) @@
  r1 :> Line(<<"read", "65536", "257", "--log", "audit">>) @@
  n1 :> Line(<<"write", "1", "1">>) @@
  u1 :> Line(<<"write", "0">>)
MCSeed == <<>>
=============================================================================

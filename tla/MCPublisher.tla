----------------------------- MODULE MCPublisher -----------------------------
(* Publisher with every command line of up to four tokens, and longer ones *)
(* in every mode, over a recording and a file written by hand.             *)
EXTENDS Publisher, TLC

MCNumberOf == "4" :> 4 @@ "-1" :> -1
MCEndpoints == {"host:1"}
MCOperands == {"flight", "sparse", "headless", "blank", "torn", "host:1", "4"}

Line(seq, t_ms) == [roll |-> 0, pitch |-> 0, yaw |-> 0, seq |-> seq, t_ms |-> t_ms]

(* A recording with a number that wraps and a sensor that started again;   *)
(* a file without times, whose second line is short; files that are not    *)
(* read.                                                                   *)
MCFileOf ==
  ("flight" :> [columns |-> LogColumns, lines |-> <<Line(6, 3), Line(8, 5), Line(0, 2)>>]) @@
  ("sparse" :> [columns |-> Required \cup {"seq"},
                lines |-> <<Line(5, 0), [roll |-> 0, pitch |-> 0, yaw |-> 0]>>]) @@
  ("headless" :> [columns |-> {"roll", "pitch"}, lines |-> <<Line(0, 0)>>]) @@
  ("torn" :> [columns |-> LogColumns, lines |-> <<Line(0, 0), Line(1, Text)>>]) @@
  ("blank" :> [columns |-> LogColumns, lines |-> <<Line(0, 0), Line(None, None)>>])

MCTokens == {"--pty", "--port", "--tcp", "host:1", "--count", "4", "--loop", "flight", ""}
Short == UNION {[1..n -> MCTokens] : n \in 0..4}

Transports == {<<"--pty">>, <<"--tcp", "host:1">>, <<"--listen", "--tcp", "host:1">>}
Modes == {<<>>, <<"--loop">>, <<"--realtime">>, <<"--loop", "--realtime">>}
Counts == {<<>>, <<"--count", "4">>, <<"--count", "-1">>}
Long == {t \o m \o <<f>> \o c : t \in Transports, m \in Modes, c \in Counts, f \in DOMAIN MCFileOf}

MCCommandLines == Short \cup Long

(* The flight replayed in real time, once and in a loop.                   *)
Paced == {<<"--pty">> \o m \o <<"--realtime", "flight">> : m \in {<<>>, <<"--loop">>}}
=============================================================================

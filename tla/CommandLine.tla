----------------------------- MODULE CommandLine -----------------------------
(***************************************************************************)
(* What the C++ programs make of their command line: the shared transport  *)
(* options (src/src/cli.cpp), and the options of attitude_publisher and c2,*)
(* which those two parse from what is left.  All of them walk along the    *)
(* tokens, and an option with a value takes the next token, whatever it is.*)
(***************************************************************************)
EXTENDS Integers, SequencesExt

CONSTANTS
  NumberOf,   \* what std::stol and its like make of a token; others throw
  Endpoints,  \* tokens of the form HOST:PORT
  Operands    \* tokens that are not empty and do not begin with a dash

ASSUME NumberOfAssumption ==
  /\ \A token \in DOMAIN NumberOf : NumberOf[token] \in Int
  /\ "--listen" \notin DOMAIN NumberOf /\ "--listen" \notin Endpoints

(* One token more: the value of an option that has none yet, or a group of *)
(* its own.                                                                *)
Joined(groups, token, valued) ==
  IF groups # <<>> /\ Len(Last(groups)) = 1 /\ Last(groups)[1] \in valued
  THEN [groups EXCEPT ![Len(groups)] = Append(@, token)]
  ELSE Append(groups, <<token>>)

(* The tokens each turn of the parsing loop consumes: an option and its    *)
(* value, or a single token.  An option at the end gets no value.          *)
Grouped(tokens, valued) ==
  LET upTo[n \in 0..Len(tokens)] ==
        IF n = 0 THEN <<>> ELSE Joined(upTo[n - 1], tokens[n], valued)
  IN  upTo[Len(tokens)]

Lone(groups) == FlattenSeq(SelectSeq(groups, LAMBDA g : Len(g) = 1))

(* The value an option has in the end: the last one given, or the default. *)
ValueOf(groups, option, default) ==
  LET given == {k \in DOMAIN groups : groups[k][1] = option /\ Len(groups[k]) = 2}
  IN  IF given = {} THEN default ELSE groups[Max(given)][2]

NotNumeric(group) == Len(group) = 2 /\ group[2] \notin DOMAIN NumberOf

-----------------------------------------------------------------------------
(* parse_transport_args() and open_transport().                            *)
TransportGroups(args) == Grouped(args, {"--port", "--tcp", "--baud"})

Rest(args) ==
  Lone(SelectSeq(TransportGroups(args),
                 LAMBDA g : g[1] \notin {"--port", "--tcp", "--pty", "--baud", "--listen"}))

Selections(args) ==
  LET groups == TransportGroups(args)
  IN  {k \in DOMAIN groups : groups[k][1] \in {"--port", "--tcp", "--pty"}}

(* Mutant: a second transport is overlooked.                               *)
MalformedNone(args) ==
  LET groups == ToSet(TransportGroups(args))
  IN  \/ \E g \in groups : g[1] \in {"--port", "--tcp", "--baud"} /\ Len(g) = 1
      \/ \E g \in groups : g[1] = "--baud" /\ NotNumeric(g)
      \/ Cardinality(Selections(args)) < 1

Malformed(args) ==
  LET groups == ToSet(TransportGroups(args))
  IN  \/ \E g \in groups : g[1] \in {"--port", "--tcp", "--baud"} /\ Len(g) = 1
      \/ \E g \in groups : g[1] = "--baud" /\ NotNumeric(g)
      \/ Cardinality(Selections(args)) # 1

(* An empty value leaves the default, and the choice falls on the terminal.*)
OpenAs(args) ==
  LET groups == TransportGroups(args)
      port   == ValueOf(groups, "--port", "")
      tcp    == ValueOf(groups, "--tcp", "")
  IN  IF port # "" THEN "serial"
      ELSE IF tcp = "" THEN "pty"
      ELSE IF tcp \notin Endpoints THEN "nothing"
      ELSE IF <<"--listen">> \in ToSet(groups) THEN "listen" ELSE "connect"

-----------------------------------------------------------------------------
(* attitude_publisher: exit statuses stop it before it reads anything.     *)
PublisherGroups(args) == Grouped(Rest(args), {"--rate", "--count"})

PublisherExit(args) ==
  LET groups == PublisherGroups(args)
      operand(i) == Len(groups[i]) = 1 /\ groups[i][1] \in Operands
      bad(i) == \/ NotNumeric(groups[i])
                \/ operand(i) /\ \E j \in 1..(i - 1) : operand(j)
                \/ /\ Len(groups[i]) = 1 /\ ~operand(i)
                   /\ groups[i][1] \notin {"--realtime", "--loop"}
      first == {i \in DOMAIN groups : bad(i) /\ \A j \in 1..(i - 1) : ~bad(j)}
  IN  IF Malformed(args) THEN 1
      ELSE IF \E i \in first : NotNumeric(groups[i]) THEN 1
      ELSE IF first # {} \/ \A i \in DOMAIN groups : ~operand(i) THEN 2
      ELSE 0

CsvPath(args) == Head(SelectSeq(Lone(PublisherGroups(args)), LAMBDA t : t \in Operands))
Given(args, option) == <<option>> \in ToSet(PublisherGroups(args))

(* --count, or as many as there are; std::stoull wraps a negative number to*)
(* nearly 2^64, and what is no number ended the program.                   *)
CountOf(args, unlimited) ==
  LET token == ValueOf(PublisherGroups(args), "--count", "")
  IN  IF token \in DOMAIN NumberOf /\ NumberOf[token] >= 0 THEN NumberOf[token] ELSE unlimited

-----------------------------------------------------------------------------
(* c2: `read ADDR [COUNT]' or `write ADDR VALUE'.                          *)
C2Groups(args) == Grouped(Rest(args), {"--timeout", "--log"})
Positional(args) == Lone(C2Groups(args))
LogPath(args) == ValueOf(C2Groups(args), "--log", "")

C2Exit(args) ==
  LET pos == Positional(args)
  IN  IF Malformed(args) \/ \E g \in ToSet(C2Groups(args)) : g[1] = "--timeout" /\ NotNumeric(g)
      THEN 1
      ELSE IF \/ pos = <<>> \/ pos[1] \notin {"read", "write"}
              \/ Len(pos) < (IF pos[1] = "read" THEN 2 ELSE 3)
      THEN 2
      ELSE IF \E i \in DOMAIN pos \cap {2, 3} : pos[i] \notin DOMAIN NumberOf THEN 1
      ELSE 0

(* `arg', which the audit log gets: the count or value as it was typed.    *)
C2Arg(args) ==
  LET pos == Positional(args) IN IF 3 \in DOMAIN pos THEN NumberOf[pos[3]] ELSE 1

(* The casts to std::uint8_t and std::uint16_t.                            *)
UInt8(v) == v % 256
UInt16(v) == v % 65536

(* Mutant: a count that is too large is taken for the largest.             *)
C2RequestSaturated(args) ==
  LET pos  == Positional(args)
      addr == UInt16(NumberOf[pos[2]])
  IN  IF pos[1] = "read"
      THEN [type |-> "ReadRegister", addr |-> addr,
            count |-> IF C2Arg(args) > 255 THEN 255 ELSE C2Arg(args)]
      ELSE [type |-> "WriteRegister", addr |-> addr, value |-> UInt16(C2Arg(args))]

(* The request, its fields cast to their width.                            *)
C2Request(args) ==
  LET pos  == Positional(args)
      addr == UInt16(NumberOf[pos[2]])
  IN  IF pos[1] = "read"
      THEN [type |-> "ReadRegister", addr |-> addr, count |-> UInt8(C2Arg(args))]
      ELSE [type |-> "WriteRegister", addr |-> addr, value |-> UInt16(C2Arg(args))]
=============================================================================

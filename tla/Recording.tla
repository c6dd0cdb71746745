------------------------------ MODULE Recording ------------------------------
(***************************************************************************)
(* The CSV file between rs422-monitor --log and rs422-attitude-publisher   *)
(* (src/src/attitude_log.cpp): what the monitor writes, what the publisher *)
(* reads back, and the sequence numbers a replay of it carries.            *)
(***************************************************************************)
EXTENDS Integers, SequencesExt

CONSTANTS
  Modulus,    \* 2^32 in the code: sequence numbers and t_ms wrap there
  None,       \* an empty field, a column that is missing
  Text        \* a field std::stoul and std::stof throw on

ASSUME RecordingAssumption ==
  Modulus \in Nat \ {0} /\ None \notin Nat /\ Text \notin Nat \cup {None}

LogColumns == {"rx_unix", "seq", "t_ms", "roll", "pitch", "yaw"}
Required == {"roll", "pitch", "yaw"}

(* AttitudeCsvLogger::write(); the time of reception is left out.          *)
LogLine(sample) == [c \in LogColumns \ {"rx_unix"} |-> sample[c]]

(* A field of a line: lines may be shorter than the header.                *)
Field(file, line, column) ==
  IF column \in file.columns \cap DOMAIN line THEN line[column] ELSE None

(* Mutant: seq and t_ms keep the width they were written in.               *)
WordWide(number) == number

(* seq and t_ms are cast to 32 bits.                                       *)
Word(number) == IF number = None THEN None ELSE number % Modulus

(* read_attitude_csv(): the rows of a file; their attitude is left out ... *)
RowsOf(file) ==
  [i \in DOMAIN file.lines |->
     LET field(c) == Field(file, file.lines[i], c)
     IN  [seq |-> Word(field("seq")), t_ms |-> Word(field("t_ms"))]]

(* ... and when it throws.                                                 *)
Unreadable(file) ==
  \/ ~(Required \subseteq file.columns)
  \/ file.lines = <<>>
  \/ \E i \in DOMAIN file.lines :
       \/ \E c \in Required : Field(file, file.lines[i], c) \in {None, Text}
       \/ \E c \in {"seq", "t_ms"} : Field(file, file.lines[i], c) = Text

-----------------------------------------------------------------------------
(* Mutant: one pass is numbered afresh as well.                            *)
ReplayRenumbered(rows, loop, count) ==
  [i \in 1..(IF loop THEN count ELSE Len(rows)) |-> (i - 1) % Modulus]

(* The numbers of a whole replay, one pass or a loop up to count samples:  *)
(* the recorded ones in a single pass, where there are any, else the number*)
(* of samples sent before.                                                 *)
Replay(rows, loop, count) ==
  [i \in 1..(IF loop \/ count < Len(rows) THEN count ELSE Len(rows)) |->
     IF loop \/ rows[i].seq = None THEN (i - 1) % Modulus ELSE rows[i].seq]
=============================================================================

------------------------------ MODULE Registers ------------------------------
(***************************************************************************)
(* The device's register bank and its reply to every message:              *)
(* RegisterStore and respond() in tools/apps/device_sim/registers.py.      *)
(***************************************************************************)
EXTENDS Codec

CONSTANTS
  Size,       \* number of registers
  ReadOnly,   \* addresses write() refuses
  Seed        \* preset values, a function on some addresses

ASSUME RegistersAssumption ==
  /\ Size \in Nat
  /\ ReadOnly \subseteq Nat
  /\ DOMAIN Seed \subseteq 0..(Size - 1)
  /\ \A a \in DOMAIN Seed : Seed[a] \in Nat

Address == 0..(Size - 1)
U16(v) == v % 65536
Value == 0..65535
Bank == [Address -> Value]

(* Mutant: presets stored without `& U16`.                                 *)
InitialRegsUnmasked == [a \in Address |-> IF a \in DOMAIN Seed THEN Seed[a] ELSE 0]

(* RegisterStore.__init__                                                  *)
InitialRegs == [a \in Address |-> IF a \in DOMAIN Seed THEN U16(Seed[a]) ELSE 0]

(* The conditions under which read() and write() do not raise.             *)
Readable(addr, count) == count >= 1 /\ addr + count <= Size
Writable(addr) == addr < Size /\ addr \notin ReadOnly

NoReply == [type |-> "none"]

(* Mutants: responses and telemetry refused like a bad address; no Nak for *)
(* a bad read; a write stored before the read-only check.                  *)
ReplyBadAddr(regs, m) ==
  IF m.type = "ReadRegister" /\ Readable(m.addr, m.count)
  THEN [type |-> "ReadResponse", addr |-> m.addr,
        values |-> [i \in 1..m.count |-> regs[m.addr + i - 1]]]
  ELSE IF m.type = "WriteRegister" /\ Writable(m.addr)
  THEN [type |-> "WriteAck", addr |-> m.addr, value |-> U16(m.value), status |-> 0]
  ELSE [type |-> "Nak", code |-> NAK_BAD_ADDR, addr |-> 0]

ReplyToGoodReads(regs, m) ==
  IF m.type = "ReadRegister" /\ Readable(m.addr, m.count)
  THEN [type |-> "ReadResponse", addr |-> m.addr,
        values |-> [i \in 1..m.count |-> regs[m.addr + i - 1]]]
  ELSE IF m.type = "WriteRegister"
  THEN [type |-> "WriteAck", addr |-> m.addr, value |-> U16(m.value), status |-> 0]
  ELSE NoReply

RegsAfterAnyWrite(regs, m) ==
  IF m.type = "WriteRegister" /\ m.addr < Size
  THEN [regs EXCEPT ![m.addr] = U16(m.value)]
  ELSE regs

(* respond(): the reply and the bank it leaves behind.                     *)
Reply(regs, m) ==
  CASE m.type = "ReadRegister" ->
         IF Readable(m.addr, m.count)
         THEN [type |-> "ReadResponse", addr |-> m.addr,
               values |-> [i \in 1..m.count |-> regs[m.addr + i - 1]]]
         ELSE [type |-> "Nak", code |-> NAK_BAD_ADDR, addr |-> m.addr]
    [] m.type = "WriteRegister" ->
         IF Writable(m.addr)
         THEN [type |-> "WriteAck", addr |-> m.addr, value |-> U16(m.value), status |-> 0]
         ELSE [type |-> "Nak", addr |-> m.addr,
               code |-> IF m.addr < Size THEN NAK_READ_ONLY ELSE NAK_BAD_ADDR]
    [] m.type \in {"ReadResponse", "WriteAck", "Nak"} -> NoReply
    [] m.type = "AttitudeSample" -> [type |-> "Nak", code |-> NAK_UNKNOWN_CMD, addr |-> 0]

RegsAfter(regs, m) ==
  IF m.type = "WriteRegister" /\ Writable(m.addr)
  THEN [regs EXCEPT ![m.addr] = U16(m.value)]
  ELSE regs
=============================================================================

-------------------------------- MODULE Codec --------------------------------
(***************************************************************************)
(* The message catalogue and the type-id dispatch: src/src/messages.cpp    *)
(* and src/src/codec.cpp (tools/serial_link/codec/ is the same code as     *)
(* declarative field lists).  16-bit fields are numbers; 32-bit fields and *)
(* the three floats are kept as their four big-endian octets, which is all *)
(* the codec does with them.                                               *)
(***************************************************************************)
EXTENDS Integers, SequencesExt

NAK_UNKNOWN_CMD == 1
NAK_BAD_ADDR    == 2
NAK_BAD_LENGTH  == 3
NAK_READ_ONLY   == 4

PutU16(v) == <<v \div 256, v % 256>>

(* Mutant: little-endian.                                                  *)
GetU16Swapped(octets, i) == octets[i] + octets[i + 1] * 256

GetU16(octets, i) == octets[i] * 256 + octets[i + 1]

TypeId == [ReadRegister   |-> 1,   WriteRegister |-> 2,
           AttitudeSample |-> 32,  ReadResponse  |-> 129,
           WriteAck       |-> 130, Nak           |-> 255]

(* The message structs: each field has every value its C++ type has.       *)
U8Field  == 0..255
U16Field == 0..65535
U32Field == [1..4 -> U8Field]

Message ==
  [type : {"ReadRegister"}, addr : U16Field, count : U8Field]
  \cup [type : {"WriteRegister"}, addr : U16Field, value : U16Field]
  \cup [type : {"AttitudeSample"}, seq : U32Field, t_ms : U32Field,
        roll : U32Field, pitch : U32Field, yaw : U32Field]
  \cup [type : {"ReadResponse"}, addr : U16Field, values : Seq(U16Field)]
  \cup [type : {"WriteAck"}, addr : U16Field, value : U16Field, status : U8Field]
  \cup [type : {"Nak"}, code : U8Field, addr : U16Field]

-----------------------------------------------------------------------------
(* encode(): the type id followed by the packed body.                      *)
Body(m) ==
  CASE m.type = "ReadRegister"   -> PutU16(m.addr) \o <<m.count>>
    [] m.type = "WriteRegister"  -> PutU16(m.addr) \o PutU16(m.value)
    [] m.type = "AttitudeSample" -> m.seq \o m.t_ms \o m.roll \o m.pitch \o m.yaw
    [] m.type = "ReadResponse"   ->
         PutU16(m.addr) \o FlattenSeq([i \in DOMAIN m.values |-> PutU16(m.values[i])])
    [] m.type = "WriteAck"       -> PutU16(m.addr) \o PutU16(m.value) \o <<m.status>>
    [] m.type = "Nak"            -> <<m.code>> \o PutU16(m.addr)

EncodeMessage(m) == <<TypeId[m.type]>> \o Body(m)

-----------------------------------------------------------------------------
(* The body lengths unpack_body() accepts.                                 *)
BodyFits(type, n) ==
  CASE type \in {"ReadRegister", "Nak"} -> n = 3
    [] type = "WriteRegister"  -> n = 4
    [] type = "WriteAck"       -> n = 5
    [] type = "AttitudeSample" -> n = 20
    [] type = "ReadResponse"   -> n >= 2 /\ (n - 2) % 2 = 0

Unpack(type, p) ==
  CASE type = "ReadRegister"  ->
         [type |-> type, addr |-> GetU16(p, 1), count |-> p[3]]
    [] type = "WriteRegister" ->
         [type |-> type, addr |-> GetU16(p, 1), value |-> GetU16(p, 3)]
    [] type = "AttitudeSample" ->
         [type |-> type, seq |-> SubSeq(p, 1, 4), t_ms |-> SubSeq(p, 5, 8),
          roll |-> SubSeq(p, 9, 12), pitch |-> SubSeq(p, 13, 16),
          yaw |-> SubSeq(p, 17, 20)]
    [] type = "ReadResponse"  ->
         [type |-> type, addr |-> GetU16(p, 1),
          values |-> [i \in 1..((Len(p) - 2) \div 2) |-> GetU16(p, 2 * i + 1)]]
    [] type = "WriteAck"      ->
         [type |-> type, addr |-> GetU16(p, 1), value |-> GetU16(p, 3),
          status |-> p[5]]
    [] type = "Nak"           ->
         [type |-> type, code |-> p[1], addr |-> GetU16(p, 2)]

(* decode() and the CodecErrors it raises.                                 *)
Decoded(m) == [ok |-> TRUE, message |-> m]
Failed(why) == [ok |-> FALSE, error |-> why]

Decode(info) ==
  IF info = <<>> THEN Failed("empty INFO")
  ELSE LET body  == Tail(info)
           known == {t \in DOMAIN TypeId : TypeId[t] = info[1]}
       IN  IF known = {} THEN Failed("unknown type id")
           ELSE LET type == CHOOSE t \in known : TRUE
                IN  IF BodyFits(type, Len(body)) THEN Decoded(Unpack(type, body))
                    ELSE Failed("bad length")
=============================================================================

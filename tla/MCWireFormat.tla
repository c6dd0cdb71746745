----------------------------- MODULE MCWireFormat -----------------------------
(* WireFormat over every known type id and an unknown one, with body       *)
(* octets that framing must stuff (a control octet, the escape, the flag), *)
(* and attitude samples made of a resting and an all-special word.         *)
EXTENDS WireFormat

MCTypeOctets == {1, 2, 7, 32, 129, 130, 255}
MCOctets == {1, 125, 126}
MCWords == {<<0, 0, 0, 0>>, <<126, 125, 17, 94>>}

MCInterrupted ==
  {[buf |-> buf, in_frame |-> TRUE, esc |-> esc] :
     buf \in {<<>>, <<255>>, <<255, 3, 1>>, <<255, 3, 1, 0>>, Payload(<<255, 2, 9, 153>>)},
     esc \in BOOLEAN} \cup {NewDecoder}

(* The worked examples of the register IDD, section 8.                     *)
ASSUME WorkedExamples ==
  /\ Encode(EncodeMessage([type |-> "ReadRegister", addr |-> 16, count |-> 2]))
       = <<126, 255, 125, 35, 125, 33, 125, 32, 125, 48, 125, 34, 81, 189, 126>>
  /\ Encode(EncodeMessage([type |-> "ReadResponse", addr |-> 16,
                           values |-> <<4660, 48879>>]))
       = <<126, 255, 125, 35, 129, 125, 32, 125, 48, 125, 50, 52, 190, 239,
           125, 49, 138, 126>>
  /\ Encode(EncodeMessage([type |-> "WriteAck", addr |-> 32, value |-> 4660,
                           status |-> 0]))
       = <<126, 255, 125, 35, 130, 125, 32, 32, 125, 50, 52, 125, 32, 124, 186, 126>>
  /\ Encode(EncodeMessage([type |-> "Nak", code |-> 2, addr |-> 2457]))
       = <<126, 255, 125, 35, 255, 125, 34, 125, 41, 153, 83, 185, 126>>
=============================================================================

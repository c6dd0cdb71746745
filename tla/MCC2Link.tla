------------------------------- MODULE MCC2Link -------------------------------
(* C2Link on a bank of two registers, the second one read-only.            *)
EXTENDS C2Link, TLC

ReadReg(addr, count)   == [type |-> "ReadRegister", addr |-> addr, count |-> count]
WriteReg(addr, value)  == [type |-> "WriteRegister", addr |-> addr, value |-> value]

(* A preset wider than a register.                                         *)
MCSeed == (1 :> 70196)

MCRequests ==
  {ReadReg(0, 2), ReadReg(1, 2), WriteReg(0, 7), WriteReg(0, 9), WriteReg(1, 7)}

(* A response, and a sample as attitude_publisher sends it.                *)
MCStrays ==
  {[type |-> "WriteAck", addr |-> 0, value |-> 7, status |-> 0],
   [type |-> "AttitudeSample"]}

NoStrays == {}
=============================================================================

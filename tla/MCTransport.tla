----------------------------- MODULE MCTransport -----------------------------
(* Transport with frames of three octets and a buffer that holds four.     *)
EXTENDS Transport

Setup(device, code) == [device |-> device, code |-> code]

(* Every implementation, and those that run on a pseudo-terminal.          *)
AllSetups == {Setup(d, c) : d \in {"pty", "serial"}, c \in {"cpp", "python"}}
PtySetups == {Setup("pty", "cpp"), Setup("pty", "python")}
=============================================================================

------------------------------ MODULE MCFcsGuard ------------------------------
(* FcsGuard with every octet as possible damage.                           *)
EXTENDS FcsGuard

MCSent == {0, 126}
=============================================================================

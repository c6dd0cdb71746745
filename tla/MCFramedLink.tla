----------------------------- MODULE MCFramedLink -----------------------------
(* FramedLink with real frames, a Nak and a register read: octet by octet  *)
(* over a line with two disturbances, in reads that split frames over a    *)
(* line with one, and in reads that hold two frames over a clean line.     *)
EXTENDS FramedLink

MCNak == [type |-> "Nak", code |-> 64, addr |-> 16448]
MCRead == [type |-> "ReadRegister", addr |-> 16416, count |-> 125]

Noisy ==
  [messages |-> {MCNak, MCRead}, octets |-> {FLAG, ESC, 65}, readSize |-> 1, lineCap |-> 1,
   maxSends |-> 2, maxNoise |-> 2, noisePerFrame |-> 1]

Split ==
  [messages |-> {MCNak}, octets |-> {FLAG}, readSize |-> 3, lineCap |-> 4,
   maxSends |-> 2, maxNoise |-> 1, noisePerFrame |-> 1]

Bursts ==
  [messages |-> {MCNak}, octets |-> {FLAG}, readSize |-> 26, lineCap |-> 26,
   maxSends |-> 2, maxNoise |-> 0, noisePerFrame |-> 0]

MCSettings == {Noisy, Split, Bursts}
=============================================================================

----------------------------- MODULE MCRecvPath -----------------------------
(* Instances of RecvPath for TLC: streams of up to three packets, whole or *)
(* cut short, with every kind of header the code tells apart.              *)
EXTENDS RecvPath

Header(size, flag, check) == <<size, 0, flag, check>>

\* Echo, broadcast, unknown flag, wrong checksum (twice), no data; payload
\* bytes that look like headers.
MCPackets ==
  {Header(1, ECHO, CHECKSUM) \o <<0>>,
   Header(2, BROADCAST, CHECKSUM) \o <<1, 0>>,
   Header(1, 3, CHECKSUM) \o <<2>>,
   Header(2, BROADCAST, 84) \o <<0, 1>>,
   Header(1, ECHO, 0) \o <<1>>,
   Header(0, ECHO, CHECKSUM)}

MCStreams ==
  {<< >>} \cup MCPackets
  \cup {p \o q : p, q \in MCPackets}
  \cup {p \o q \o r : p, q, r \in MCPackets}
  \cup {p \o SubSeq(q, 1, n) : p, q \in MCPackets, n \in 1 .. 3}
=============================================================================

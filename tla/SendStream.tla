----------------------------- MODULE SendStream -----------------------------
(***************************************************************************)
(* What the send side of a TcpClient promises its users: whole packets go  *)
(* into a bounded byte queue, and the peer reads exactly those bytes, in   *)
(* that order, each once, for as long as the connection is up.  Locks,     *)
(* IO_STATE, overlapped operations and worker threads do not appear here.  *)
(***************************************************************************)
EXTENDS Integers, Sequences

CONSTANTS
  Packets,       \* the byte sequences WriteSendBuffer may be given
  BUFFER_SIZE    \* capacity of the byte queue

VARIABLES
  queue,         \* bytes taken from the users and not yet on the wire
  wire,          \* bytes the peer can read
  up             \* the connection still carries data

streamVars == <<queue, wire, up>>

StreamInit == queue = << >> /\ wire = << >> /\ up = TRUE

\* A packet is taken whole.
Accept(p) ==
  /\ up
  /\ Len(queue) + Len(p) <= BUFFER_SIZE
  /\ queue' = queue \o p
  /\ UNCHANGED <<wire, up>>

\* The oldest byte reaches the wire.
Deliver ==
  /\ up
  /\ queue # << >>
  /\ wire' = Append(wire, Head(queue))
  /\ queue' = Tail(queue)
  /\ UNCHANGED up

\* The connection ends; what was queued is dropped, the wire stands.
Disconnect ==
  /\ up
  /\ up' = FALSE
  /\ queue' = << >>
  /\ UNCHANGED wire

StreamNext == (\E p \in Packets : Accept(p)) \/ Deliver \/ Disconnect

StreamSpec == StreamInit /\ [][StreamNext]_streamVars
=============================================================================

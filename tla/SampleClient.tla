---------------------------- MODULE SampleClient ----------------------------
(***************************************************************************)
(* The sample client and a peer that echoes what it gets, in any pieces.   *)
(* Each round reads a line, sends it without its last character and        *)
(* receives until as many bytes are back.                                  *)
(***************************************************************************)
EXTENDS Integers, Sequences

CONSTANTS
  Chars,
  BUF_SIZE,
  MaxRounds      \* bound: lines read

VARIABLES
  at,            \* "prompt", "receiving" or "quit"
  message,       \* the string in the buffer, as strlen sees it
  strLen, readLen,
  wire,          \* sent, not yet echoed
  back,          \* echoed, not yet received
  peerGone,      \* the peer has closed the connection
  underrun,      \* a byte before the buffer was written
  rounds,
  line           \* history: what this round sent

vars == <<at, message, strLen, readLen, wire, back, peerGone, underrun, rounds, line>>

\* The newline is a character of its own; BUF_SIZE leaves room for the 0.
Newline == "\n"
Texts == UNION {[1 .. n -> Chars] : n \in 0 .. BUF_SIZE - 1}
Lines == {Append(s, Newline) : s \in {u \in Texts : Len(u) < BUF_SIZE - 1}}
         \cup {s \in Texts : Len(s) = BUF_SIZE - 1}

Init ==
  /\ at = "prompt"
  /\ message = << >> /\ strLen = 0 /\ readLen = 0
  /\ wire = << >> /\ back = << >> /\ peerGone = FALSE /\ underrun = FALSE
  /\ rounds = 0 /\ line = << >>

Sent_Newline(s) == s
Sent(s) == SubSeq(s, 1, Len(s) - 1)

\* strlen, send; a peer that is gone loses what is sent.
Send(s) ==
  /\ strLen' = Len(s) - 1 /\ readLen' = 0
  /\ message' = s
  /\ line' = Sent(s)
  /\ wire' = IF peerGone THEN wire ELSE wire \o line'
  /\ at' = "receiving"
  /\ rounds' = rounds + 1

\* fgets of a line, or of the first part of one that is too long.
GetLine(s) ==
  /\ at = "prompt" /\ rounds < MaxRounds
  /\ Send(s)
  /\ UNCHANGED <<back, peerGone, underrun>>

\* fgets at the end of the input leaves the last message in the buffer (and what
\* was never initialised in the first round, which is left out).
EndOfInput ==
  /\ at = "prompt" /\ 0 < rounds /\ rounds < MaxRounds
  /\ Send(message)
  /\ UNCHANGED <<back, peerGone, underrun>>

Quit ==
  /\ at = "prompt" /\ at' = "quit"
  /\ UNCHANGED <<message, strLen, readLen, wire, back, peerGone, underrun, rounds, line>>

\* The bytes go over what the message held.
Overwritten(s, from) ==
  [n \in 1 .. (IF from + Len(s) > Len(message) THEN from + Len(s) ELSE Len(message)) |->
     IF n - from \in 1 .. Len(s) THEN s[n - from] ELSE message[n]]

\* One recv, and what follows the loop when enough is there: a 0 at strLen,
\* which is -1 after an empty message.
Received(n, length) ==
  LET text == Overwritten(SubSeq(back, 1, n), readLen)
      done == readLen + length >= strLen IN
  /\ readLen' = readLen + length
  /\ message' = IF done THEN SubSeq(text, 1, strLen) ELSE text
  /\ underrun' = (underrun \/ (done /\ strLen < 0))
  /\ at' = IF done THEN "prompt" ELSE "receiving"
  /\ back' = SubSeq(back, n + 1, Len(back))

Receive(n) ==
  /\ at = "receiving" /\ n <= Len(back)
  /\ Received(n, n)
  /\ UNCHANGED <<strLen, wire, peerGone, rounds, line>>

\* recv returns 0 once the peer has closed, and -1 once it was reset.
ReceiveFails(result) ==
  /\ at = "receiving" /\ peerGone /\ back = << >>
  /\ readLen > -2
  /\ Received(0, result)
  /\ UNCHANGED <<strLen, wire, peerGone, rounds, line>>

Echo(n) ==
  /\ n <= Len(wire)
  /\ back' = back \o SubSeq(wire, 1, n)
  /\ wire' = SubSeq(wire, n + 1, Len(wire))
  /\ UNCHANGED <<at, message, strLen, readLen, peerGone, underrun, rounds, line>>

PeerCloses ==
  /\ ~ peerGone /\ peerGone' = TRUE
  /\ wire' = << >>
  /\ UNCHANGED <<at, message, strLen, readLen, back, underrun, rounds, line>>

Next ==
  \/ \E s \in Lines : GetLine(s)
  \/ EndOfInput \/ Quit \/ PeerCloses
  \/ \E n \in 1 .. BUF_SIZE - 1 : Receive(n) \/ Echo(n)
  \/ \E result \in {0, -1} : ReceiveFails(result)

Spec == Init /\ [][Next]_vars

-----------------------------------------------------------------------------

\* The rounds stay in step with the echo: when the prompt is back the message is
\* what this round sent and nothing of it is still under way, so that no later
\* round sees it; and recv never writes behind the end of what was sent, which
\* is all that keeps its length argument, BUF_SIZE - 1 at any offset, harmless.
\* The 0 after the message is written before the buffer, where the input ends
\* after an empty message, only once the peer is gone: until then recv waits.
RoundsInStep ==
  /\ at = "prompt" => message = line /\ wire = << >> /\ back = << >>
  /\ at = "receiving" => readLen + Len(back) + Len(wire) <= (IF strLen > 0 THEN strLen ELSE 0)
  /\ underrun => peerGone
=============================================================================

---------------------------- MODULE StringHelper ----------------------------
(***************************************************************************)
(* helpers::tokenize and helpers::convertIntegerToString, one turn of a    *)
(* loop at a time, for every string over two characters up to MaxLength    *)
(* and every value of the integer types of the given widths.               *)
(***************************************************************************)
EXTENDS Integers, Sequences, FiniteSetsExt, SequencesExt

CONSTANTS
  MaxLength,     \* bound: length of a string
  Widths         \* widths of integer types, in bits

VARIABLES
  job,           \* what is called, with its arguments
  at,            \* where the function is
  first, i,      \* of tokenize
  result,        \* the tokens, or the characters behind `it'
  value          \* of convertIntegerToString

vars == <<job, at, first, i, result, value>>

Delimiter == "."
Strings == UNION {[1 .. n -> {Delimiter, "a"}] : n \in 0 .. MaxLength}

\* numeric_limits.
min(type) == IF type.isSigned THEN - (2 ^ (type.width - 1)) ELSE 0
max(type) == IF type.isSigned THEN 2 ^ (type.width - 1) - 1 ELSE 2 ^ type.width - 1
digits10(type) == Max({d \in 0 .. 3 : 10 ^ d - 1 <= max(type)})
Types == [width : Widths, isSigned : BOOLEAN]

\* C's division and remainder, and the wrap of a value into its type.
Quotient(a, b)  == IF a < 0 THEN - ((- a) \div b) ELSE a \div b
Remainder(a, b) == a - b * Quotient(a, b)
Wrap(type, v)   == IF v > max(type) THEN v - 2 ^ type.width ELSE v

Init ==
  /\ job \in [name : {"tokenize"}, s : Strings, collapseTokens : BOOLEAN]
             \cup UNION {[name : {"convert"}, type : {y}, value : min(y) .. max(y)] : y \in Types}
  /\ at = "start"
  /\ first = 0 /\ i = 0 /\ result = << >>
  /\ value = IF job.name = "convert" THEN job.value ELSE 0

-----------------------------------------------------------------------------
(* tokenize: indices count from 0 as in the code.                          *)

Char(k) == job.s[k + 1]
Piece(from, to) == SubSeq(job.s, from + 1, to)

\* The last delimiter of the run that starts at k, if runs are collapsed.
RunEnd(k) ==
  IF ~ job.collapseTokens THEN k
  ELSE Max({n \in k .. Len(job.s) - 1 : \A j \in k .. n : Char(j) = Delimiter})

tokenize ==
  /\ job.name = "tokenize" /\ at = "start" /\ i < Len(job.s)
  /\ IF Char(i) = Delimiter
     THEN /\ result' = Append(result, Piece(first, i))
          /\ first' = RunEnd(i) + 1
          /\ i' = RunEnd(i) + 1
     ELSE i' = i + 1 /\ UNCHANGED <<first, result>>
  /\ UNCHANGED <<job, at, value>>

LastToken ==
  /\ job.name = "tokenize" /\ at = "start" /\ i = Len(job.s)
  /\ result' = IF first # i THEN Append(result, Piece(first, i)) ELSE result
  /\ at' = "done"
  /\ UNCHANGED <<job, first, i, value>>

-----------------------------------------------------------------------------
(* convertIntegerToString: characters are put in front of result.          *)

Put(d) == <<d>> \o result

Step1_Negate(v) == Wrap(job.type, - v)

\* step1: the smallest value has no positive counterpart, so that its last digit
\* is taken off first.
Step1(v) == IF v = min(job.type) THEN - Quotient(v, 10) ELSE - v
Step1Digit(v) ==
  LET r == Quotient(v, 10)
      a == (- r) * 10 IN
  - (a + v)

is_negative(v) == job.type.isSigned /\ v < 0

convertIntegerToString ==
  /\ job.name = "convert" /\ at = "start"
  /\ value' = IF is_negative(value) THEN Step1(value) ELSE value
  /\ result' = CASE value = 0 -> Put(0)
                 [] is_negative(value) /\ value = min(job.type) -> Put(Step1Digit(value))
                 [] OTHER -> result
  /\ at' = "digits"
  /\ UNCHANGED <<job, first, i>>

Digit ==
  /\ at = "digits" /\ value # 0
  /\ result' = Put(Remainder(value, 10))
  /\ value' = Quotient(value, 10)
  /\ UNCHANGED <<job, at, first, i>>

Sign ==
  /\ at = "digits" /\ value = 0
  /\ result' = IF is_negative(job.value) THEN Put("-") ELSE result
  /\ at' = "done"
  /\ UNCHANGED <<job, first, i, value>>

Next == tokenize \/ LastToken \/ convertIntegerToString \/ Digit \/ Sign

Spec == Init /\ [][Next]_vars

-----------------------------------------------------------------------------

\* Reference: a token starts at the front and behind each delimiter (each run
\* of them if runs are collapsed) and ends before the next; one that would start
\* behind the end is not there.
Starts ==
  {k \in 1 .. Len(job.s) :
     \/ k = 1
     \/ job.s[k - 1] = Delimiter /\ ~ (job.collapseTokens /\ job.s[k] = Delimiter)}
End(k) == Min({n - 1 : n \in {j \in k .. Len(job.s) : job.s[j] = Delimiter}} \cup {Len(job.s)})
Tokens ==
  LET starts == SetToSortSeq(Starts, <) IN
  [n \in 1 .. Len(starts) |-> SubSeq(job.s, starts[n], End(starts[n]))]

\* Reference: the decimal digits of a number.
Decimal(n) ==
  LET places == Max({0} \cup {d \in 0 .. 3 : 10 ^ d <= n}) IN
  [k \in 1 .. places + 1 |-> (n \div 10 ^ (places + 1 - k)) % 10]

\* tokenize returns the tokens, also with delimiters at both ends and runs of
\* them; convertIntegerToString returns the decimal text of every value, the
\* smallest of a signed type too, and never runs out of its buffer.
StringsAreRight ==
  IF job.name = "tokenize" THEN at = "done" => result = Tokens
  ELSE /\ Len(result) <= digits10(job.type) + 2
       /\ at = "done" =>
            result = IF job.value < 0 THEN <<"-">> \o Decimal(- job.value) ELSE Decimal(job.value)
=============================================================================

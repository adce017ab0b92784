-------------------------- MODULE HardwareResponse --------------------------
(***************************************************************************)
(* The response of a hardware key as the user types or pastes it           *)
(* (decode_hardware_secret, decode_hex_secret in hardware_key.rs).         *)
(*                                                                         *)
(* A character is a hex digit (a number), a prefix "hex:", white space of  *)
(* ASCII, white space beyond it, an underscore or something else.          *)
(***************************************************************************)
EXTENDS Integers, Sequences, FiniteSets

CONSTANTS
  MinResponseBytes,  \* MIN_RESPONSE_BYTES
  Digit,             \* hex digits
  MaxTyped           \* bound: how much is typed

ASSUME HardwareResponseAssumption ==
  /\ MinResponseBytes \in Nat \ {0}
  /\ Digit \subseteq 0..15
  /\ MaxTyped \in Nat

Prefix == -1
Blank == -2
WideBlank == -3
Underscore == -4
Letter == -5

Char == Digit \cup {Prefix, Blank, WideBlank, Underscore, Letter}

VARIABLE typed

IsBlank(c) == c \in {Blank, WideBlank}

Refused == <<Letter>>  \* no bytes: those are at least 0

-----------------------------------------------------------------------------

Trim(s) ==
  LET kept == {i \in 1..Len(s) : ~IsBlank(s[i])}
      first == CHOOSE i \in kept : \A j \in kept : i <= j
      last == CHOOSE i \in kept : \A j \in kept : j <= i
  IN  IF kept = {} THEN <<>> ELSE SubSeq(s, first, last)

\* The characters that are kept, in their order: the k-th is the one with k kept
\* up to it.
Kept(s) == {i \in 1..Len(s) : s[i] \notin {Blank, Underscore}}
UpTo(S, i) == Cardinality({j \in S : j <= i})

Cleaned(s) ==
  [k \in 1..Cardinality(Kept(s)) |-> s[CHOOSE i \in Kept(s) : UpTo(Kept(s), i) = k]]

\* Two digits make a byte.
Pairs(c) == [k \in 1..Len(c) \div 2 |-> 16 * c[2 * k - 1] + c[2 * k]]

\* Mutant: a digit left over at the end is dropped.
DecodeHexLoose(s) ==
  LET c == Cleaned(s)
  IN  IF c = <<>> \/ \E i \in 1..Len(c) : c[i] \notin Digit THEN Refused ELSE Pairs(c)

\* A character that is no digit has the response refused, as a byte that is none
\* or before that by the length that its bytes give.
decode_hex_secret(s) ==
  LET c == Cleaned(s)
  IN  IF c = <<>> \/ Len(c) % 2 # 0 \/ \E i \in 1..Len(c) : c[i] \notin Digit
      THEN Refused ELSE Pairs(c)

decode_hardware_secret(s) ==
  LET trimmed == Trim(s)
      bytes == decode_hex_secret(Tail(trimmed))
  IN  IF trimmed = <<>> \/ trimmed[1] # Prefix THEN Refused
      ELSE IF bytes = Refused \/ Len(bytes) < MinResponseBytes THEN Refused
      ELSE bytes

-----------------------------------------------------------------------------

ResponseInit == typed = <<>>

TypeChar(c) ==
  /\ Len(typed) < MaxTyped
  /\ typed' = Append(typed, c)

ResponseNext == \E c \in Char : TypeChar(c)
ResponseSpec == ResponseInit /\ [][ResponseNext]_typed

\* The digits of what was typed, and what stands among them that means something.
Digits == {i \in 1..Len(typed) : typed[i] \in Digit}
Marks == {i \in 1..Len(typed) : typed[i] \notin Digit \cup {Blank, WideBlank, Underscore}}

\* The response is the digits, however they are grouped: one that is accepted has
\* two digits for each byte and no fewer than the floor asks, every pair its
\* byte, nothing is dropped on the way, and one prefix stands before them.
EveryDigitCounts ==
  LET r == decode_hardware_secret(typed)
  IN  r # Refused =>
        /\ Len(r) >= MinResponseBytes /\ Cardinality(Digits) = 2 * Len(r)
        /\ \A i \in Digits :
             LET n == UpTo(Digits, i)
             IN  typed[i] = IF n % 2 = 1 THEN r[(n + 1) \div 2] \div 16 ELSE r[n \div 2] % 16
        /\ \E p \in 1..Len(typed) :
             Marks = {p} /\ typed[p] = Prefix /\ \A i \in Digits : p < i
=============================================================================

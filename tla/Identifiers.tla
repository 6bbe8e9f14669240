---------------------------- MODULE Identifiers ----------------------------
(***************************************************************************)
(* Trace ids, span ids and the context that travels between processes      *)
(* (fastrace/src/collector/id.rs).                                         *)
(*                                                                         *)
(* An id is a number of digits to the base Half, where Half stands for the *)
(* 2^32 values of the two halves of a span id: a span id has two digits, a *)
(* trace id four.  A traceparent header is the sequence of its fields      *)
(* between dashes, a field the sequence of its digits.                     *)
(***************************************************************************)
EXTENDS Integers, Sequences

CONSTANT Half

ASSUME HalfAssumption == Half \in Nat \ {0} /\ Half % 2 = 0

Word == Half * Half   \* how many values 64 bits have

SpanIds  == 0 .. Word - 1
TraceIds == 0 .. Word * Word - 1

DefaultId == 0   \* SpanId::default(), no parent

\* Mutant: the suffix carries into the prefix of another generator.
IdMutant(gen) == (gen.prefix * Half + gen.suffix) % Half

\* SpanId::next_id: a thread's generator is its random prefix and a counter
\* that wraps around.
NextGen(gen) == [gen EXCEPT !.suffix = (@ + 1) % Half]

Id(gen) == gen.prefix * Half + gen.suffix

Context(trace, span, sampled) == [trace |-> trace, span |-> span, sampled |-> sampled]

-----------------------------------------------------------------------------
(* W3C Trace Context. *)

\* What a digit counts for, from the last to the first.
Place == <<1, Half, Word, Word * Half>>

\* {:0nx}
Digits(x, n) == [i \in 1 .. n |-> (x \div Place[n - i + 1]) % Half]

Digit == 0 .. Half - 1

\* from_str_radix: no digits, anything that is not a digit, and a number that
\* does not fit in the type are errors.  (A plus sign in front is left out.)
Parses(field, n) ==
  /\ field # <<>> /\ \A i \in DOMAIN field : field[i] \in Digit
  /\ \A i \in DOMAIN field : i + n <= Len(field) => field[i] = 0

\* The number written in a field that parses.
Value(field, n) ==
  LET f[i \in 0 .. Len(field)] == IF i = 0 THEN 0 ELSE f[i - 1] * Half + field[i]
  IN  f[Len(field)]

Version == <<0, 0>>   \* "00"

Encode(context) ==
  <<Version, Digits(context.trace, 4), Digits(context.span, 2),
    <<0, IF context.sampled THEN 1 ELSE 0>>>>

\* decode_w3c_traceparent: Some.  A u8 has two digits here.
Decodes(header) ==
  /\ Len(header) = 4 /\ header[1] = Version
  /\ Parses(header[2], 4) /\ Parses(header[3], 2) /\ Parses(header[4], 2)

\* Of the flags only the lowest bit counts.
Decode(header) ==
  Context(Value(header[2], 4), Value(header[3], 2), Value(header[4], 2) % 2 = 1)
=============================================================================

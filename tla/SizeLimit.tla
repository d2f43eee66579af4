------------------------------ MODULE SizeLimit ------------------------------
(***************************************************************************)
(* deserialize_limit, the serde visitor of LoggerDescriptor's              *)
(* rolling_file_size: a YAML integer, or a string "<digits><unit>".        *)
(* A string is abstracted to its shape: leading blank, the value of its    *)
(* leading digit run, blank before the unit, the unit word, trailing blank.*)
(* u64 keeps its overflow: the word has WordBits bits and a kb has         *)
(* 2^UnitBits bytes (64 and 10 in the code; smaller in the runs so that    *)
(* every product fits TLC's integers, with the same boundary cases).       *)
(* ConfigInit composes it with the rest of loading the configuration.      *)
(***************************************************************************)
EXTENDS Integers

CONSTANTS WordBits, UnitBits, Numbers, UnitWords

ASSUME SizeAssumption ==
    /\ WordBits \in Nat \ {0}
    /\ UnitBits \in Nat \ {0}
    /\ Numbers \subseteq Nat
    /\ "" \notin UnitWords

MaxWord == 2 ^ WordBits - 1

\* eq_ignore_ascii_case against the words the visitor accepts: the lower
\* case of each unit word a run offers.
Lower(w) ==
    CASE w \in {"b", "B"}                -> "b"
      [] w \in {"kb", "KB", "Kb"}        -> "kb"
      [] w \in {"kib", "KiB"}            -> "kib"
      [] w \in {"mb", "MB"}              -> "mb"
      [] w \in {"mib", "MiB"}            -> "mib"
      [] w \in {"gb", "GB"}              -> "gb"
      [] w \in {"gib", "GiB"}            -> "gib"
      [] w \in {"tb", "TB"}              -> "tb"
      [] w \in {"tib", "TiB"}            -> "tib"
      [] OTHER                           -> w

\* The multiplier of each accepted unit: 1, 1024, 1024^2, 1024^3, 1024^4.
Multiplier ==
    [u \in {"b", "kb", "kib", "mb", "mib", "gb", "gib", "tb", "tib"} |->
        2 ^ (UnitBits * (CASE u = "b" -> 0
                           [] u \in {"kb", "kib"} -> 1
                           [] u \in {"mb", "mib"} -> 2
                           [] u \in {"gb", "gib"} -> 3
                           [] OTHER -> 4))]

Ok(v) == [ok |-> TRUE, val |-> v]

Err(why) == [ok |-> FALSE, val |-> why]

\* Mutant: plain multiplication, with no overflow test.
CheckedMulUnchecked(n, m) == Ok(n * m)

\* Mutant: the overflow test is off by one.
CheckedMulOffByOne(n, m) == IF n >= MaxWord \div m THEN Err("a byte size") ELSE Ok(n * m)

\* u64::checked_mul: None when the product does not fit the word.
CheckedMul(n, m) == IF n > MaxWord \div m THEN Err("a byte size") ELSE Ok(n * m)

\* visit_u64, visit_i64 and visit_str.  An i64 has one bit fewer than the
\* word: a non-negative one is at most MaxWord \div 2.  A string has a
\* leading digit run when hasDigits, of value digits; "unit" is "none"
\* when no word follows.
Inputs ==
    [kind: {"u64"}, v: {n \in Numbers : n <= MaxWord}]
    \cup [kind: {"i64"}, v: {-1} \cup {n \in Numbers : n <= MaxWord \div 2}]
    \cup [kind: {"str"}, lead: BOOLEAN, hasDigits: BOOLEAN, digits: Numbers,
          gap: BOOLEAN, unit: UnitWords \cup {"none"}, trail: BOOLEAN]

\* v.find(non-digit) splits the string; both halves are trimmed.
VisitStr(i) ==
    LET hasUnit == i.gap \/ i.unit # "none" \/ i.trail
        unit    == IF i.unit = "none" THEN "" ELSE Lower(i.unit)
    IN
    IF i.lead \/ ~i.hasDigits \/ i.digits > MaxWord THEN Err("a number")
    ELSE IF ~hasUnit THEN Ok(i.digits)
    ELSE IF unit \notin DOMAIN Multiplier THEN Err("a valid unit")
    ELSE CheckedMul(i.digits, Multiplier[unit])

DeserializeLimit(i) ==
    CASE i.kind = "u64" -> Ok(i.v)
      [] i.kind = "i64" -> IF i.v < 0 THEN Err("a non-negative number") ELSE Ok(i.v)
      [] OTHER          -> VisitStr(i)

VARIABLES input, called, result

SizeInit ==
    /\ input \in Inputs
    /\ called = FALSE
    /\ result = Err("not called")

\* One call of the visitor on the value the YAML holds.
Deserialize ==
    /\ ~called
    /\ called' = TRUE
    /\ result' = DeserializeLimit(input)
    /\ UNCHANGED input

\* A LoggerDescriptor with no YAML value: serde never calls the visitor.
NoInput == [kind |-> "absent"]

\* The `expecting` texts the visitor's errors name, and the result before
\* the visitor runs.
ErrorMessages ==
    {"not called", "a number", "a valid unit", "a byte size", "a non-negative number"}

SizeTypeOK ==
    /\ input \in Inputs \cup {NoInput}
    /\ called \in BOOLEAN
    /\ \/ result \in [ok: {TRUE}, val: 0..MaxWord]
       \/ result \in [ok: {FALSE}, val: ErrorMessages]

-----------------------------------------------------------------------------
(* The spec's reading (section 6, the logger rows): a size is a number of *)
(* bytes, optionally followed by a unit b/kb/mb/gb/tb (case-insensitive, *)
(* each one x1024).                                                        *)

SpecUnit(w) == Lower(w) \in {"b", "kb", "mb", "gb", "tb"}

SpecDomain(i) ==
    \/ i.kind \in {"u64", "i64"} /\ i.v >= 0
    \/ /\ i.kind = "str" /\ ~i.lead /\ ~i.trail /\ i.hasDigits
       /\ i.unit = "none" => ~i.gap
       /\ i.unit # "none" => SpecUnit(i.unit)

SpecBytes(i) ==
    IF i.kind # "str" THEN i.v
    ELSE IF i.unit = "none" THEN i.digits
    ELSE i.digits * Multiplier[Lower(i.unit)]

\* A size the spec describes is read as exactly its number of bytes when that
\* fits the u64 field, and refused (never wrapped or truncated) when it does
\* not: deserialize_limit's parse::<u64> and checked_mul at the word boundary.
DeserializeMatchesSpec ==
    called /\ SpecDomain(input) =>
        IF SpecBytes(input) <= MaxWord THEN result = Ok(SpecBytes(input))
                                       ELSE ~result.ok

=============================================================================

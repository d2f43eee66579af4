--------------------------- MODULE ConfigInitProofs ---------------------------
(***************************************************************************)
(* Proofs about ConfigInit: Config::initialize never overwrites a time     *)
(* limit the operator set, and deserialize_limit reads every size the     *)
(* spec describes as its byte count or refuses it, never wrapping, for     *)
(* every word and unit width.                                              *)
(***************************************************************************)
EXTENDS TLAPS, ConfigInit

-----------------------------------------------------------------------------

\* The time limits are always a number per field.
LimitsType == timeLimits \in [FieldSet -> Nat]

\* The step UserValuesKept constrains.
KeepsUserValues ==
    hasTimeLimits =>
        \A f \in FieldSet : timeLimits[f] # 0 => timeLimits'[f] = timeLimits[f]

LEMMA DefaultType == Default \in [FieldSet -> Nat]
BY DEF Default

\* When some field is 0, some field is the first 0: the arms are tried in
\* order, so the witness is found by trying them.
LEMMA FirstZeroWitness ==
    ASSUME NEW t \in [FieldSet -> Nat], \E i \in 1..5 : t[Fields[i]] = 0
    PROVE  \E i \in 1..5 : t[Fields[i]] = 0 /\ \A j \in 1..(i-1) : t[Fields[j]] # 0
<1>1. CASE t[Fields[1]] = 0
  BY <1>1
<1>2. CASE t[Fields[1]] # 0 /\ t[Fields[2]] = 0
  BY <1>2
<1>3. CASE t[Fields[1]] # 0 /\ t[Fields[2]] # 0 /\ t[Fields[3]] = 0
  BY <1>3
<1>4. CASE t[Fields[1]] # 0 /\ t[Fields[2]] # 0 /\ t[Fields[3]] # 0
           /\ t[Fields[4]] = 0
  BY <1>4
<1>5. CASE t[Fields[1]] # 0 /\ t[Fields[2]] # 0 /\ t[Fields[3]] # 0
           /\ t[Fields[4]] # 0
  <2>1. t[Fields[5]] = 0
    BY <1>5
  <2>2. QED
    BY <1>5, <2>1
<1>6. QED
  BY <1>1, <1>2, <1>3, <1>4, <1>5

\* The arm the match runs is the first field left at 0.
LEMMA FirstZeroFirst ==
    ASSUME NEW t \in [FieldSet -> Nat], \E i \in 1..5 : t[Fields[i]] = 0
    PROVE  /\ FirstZero(t) \in 1..5
           /\ t[Fields[FirstZero(t)]] = 0
           /\ \A j \in 1..(FirstZero(t) - 1) : t[Fields[j]] # 0
BY FirstZeroWitness DEF FirstZero

\* The arm the match runs is a field left at 0.
LEMMA FirstZeroIsZero ==
    ASSUME NEW t \in [FieldSet -> Nat], FirstZero(t) # 6
    PROVE  /\ FirstZero(t) \in 1..5
           /\ t[Fields[FirstZero(t)]] = 0
<1>1. \E i \in 1..5 : t[Fields[i]] = 0
  BY DEF FirstZero
<1>2. QED
  BY <1>1, FirstZeroFirst

\* initialize's match changes at most the field its arm names, which is 0.
LEMMA InitializeKeeps ==
    ASSUME NEW t \in [FieldSet -> Nat]
    PROVE  /\ InitializeTimeLimits(TRUE, t) \in [FieldSet -> Nat]
           /\ \A f \in FieldSet :
                 t[f] # 0 => InitializeTimeLimits(TRUE, t)[f] = t[f]
<1>1. CASE FirstZero(t) = 6
  BY <1>1 DEF InitializeTimeLimits
<1>2. CASE FirstZero(t) # 6
  <2>1. FirstZero(t) \in 1..5 /\ t[Fields[FirstZero(t)]] = 0
    BY <1>2, FirstZeroIsZero
  <2>2. Fields[FirstZero(t)] \in FieldSet
    BY <2>1 DEF FieldSet
  <2> DEFINE z == Fields[FirstZero(t)]
  <2>3. InitializeTimeLimits(TRUE, t) = [t EXCEPT ![z] = Default[z]]
    BY <1>2 DEF InitializeTimeLimits
  <2>4. Default[z] \in Nat
    BY <2>2, DefaultType
  <2>5. \A f \in FieldSet : t[f] # 0 => f # z
    BY <2>1
  <2>6. QED
    BY <2>2, <2>3, <2>4, <2>5
<1>3. QED
  BY <1>1, <1>2

LEMMA InitLimitsType == Init => LimitsType
<1> SUFFICES ASSUME Init PROVE LimitsType
  OBVIOUS
<1>1. CASE hasTimeLimits
  <2>1. timeLimits \in [FieldSet -> {0, 5}]
    BY <1>1 DEF Init, Loaded
  <2>2. QED
    BY <2>1 DEF LimitsType
<1>2. CASE ~hasTimeLimits
  <2>1. timeLimits = [f \in FieldSet |-> 0]
    BY <1>2 DEF Init
  <2>2. QED
    BY <2>1 DEF LimitsType
<1>3. QED
  BY <1>1, <1>2

LEMMA NextLimitsType == LimitsType /\ [Next]_vars => LimitsType'
<1> SUFFICES ASSUME LimitsType, [Next]_vars PROVE LimitsType'
  OBVIOUS
<1>1. CASE LoadLogger
  BY <1>1 DEF LoadLogger, LimitsType
<1>2. CASE Initialize /\ hasTimeLimits
  BY <1>2, InitializeKeeps DEF Initialize, LimitsType
<1>3. CASE Initialize /\ ~hasTimeLimits
  BY <1>3, DefaultType DEF Initialize, LimitsType, InitializeTimeLimits
<1>4. CASE UNCHANGED vars
  BY <1>4 DEF vars, LimitsType
<1>5. QED
  BY <1>1, <1>2, <1>3, <1>4 DEF Next

LEMMA NextKeeps == LimitsType /\ [Next]_vars => [KeepsUserValues]_vars
<1> SUFFICES ASSUME LimitsType, [Next]_vars PROVE [KeepsUserValues]_vars
  OBVIOUS
<1>1. CASE LoadLogger
  BY <1>1 DEF LoadLogger, KeepsUserValues
<1>2. CASE Initialize
  BY <1>2, InitializeKeeps DEF Initialize, LimitsType, KeepsUserValues
<1>3. CASE UNCHANGED vars
  BY <1>3 DEF vars
<1>4. QED
  BY <1>1, <1>2, <1>3 DEF Next

-----------------------------------------------------------------------------
(* deserialize_limit *)

\* Powers of two are positive naturals.  The provers know no law of ^
\* beyond constant instances, so the proofs below take this one fact of
\* arithmetic as a hypothesis.
PowersPositive == \A n \in Nat : 2 ^ n \in Nat \ {0}

\* The numeric part of SizeAssumption.
LEMMA SizeFacts ==
    /\ WordBits \in Nat \ {0} /\ UnitBits \in Nat \ {0} /\ Numbers \subseteq Nat
BY SizeAssumption, Zenon

LEMMA MaxWordNat == PowersPositive => MaxWord \in Nat
<1> SUFFICES ASSUME PowersPositive PROVE MaxWord \in Nat
  OBVIOUS
<1>1. 2 ^ WordBits \in Nat \ {0}
  BY SizeFacts, Zenon DEF PowersPositive
<1>2. \A x \in Nat \ {0} : x - 1 \in Nat
  OBVIOUS
<1>3. QED
  BY <1>1, <1>2, Zenon DEF MaxWord

\* The units the visitor accepts, in lower case.
LEMMA MultiplierDomain ==
    DOMAIN Multiplier = {"b", "kb", "kib", "mb", "mib", "gb", "gib", "tb", "tib"}
BY Zenon DEF Multiplier

\* Every unit the visitor accepts multiplies by a positive number.
LEMMA MultiplierPositive ==
    PowersPositive => \A u \in DOMAIN Multiplier : Multiplier[u] \in Nat \ {0}
<1> SUFFICES ASSUME PowersPositive, NEW u \in DOMAIN Multiplier
             PROVE  Multiplier[u] \in Nat \ {0}
  OBVIOUS
<1> DEFINE c == CASE u = "b" -> 0 [] u \in {"kb", "kib"} -> 1
                  [] u \in {"mb", "mib"} -> 2 [] u \in {"gb", "gib"} -> 3
                  [] OTHER -> 4
<1>1. c \in 0..4
  OBVIOUS
<1>2. UnitBits * c \in Nat
  <2>1. \A x \in 0..4 : UnitBits * x \in Nat
    BY SizeFacts
  <2>2. QED
    BY <1>1, <2>1, Zenon
<1>3. Multiplier[u] = 2 ^ (UnitBits * c)
  BY MultiplierDomain, Zenon DEF Multiplier
<1>4. 2 ^ (UnitBits * c) \in Nat \ {0}
  BY <1>2, Zenon DEF PowersPositive
<1>5. QED
  BY <1>3, <1>4, Zenon

\* u64::checked_mul overflows exactly when the product exceeds the word.
LEMMA CheckedMulExact ==
    ASSUME PowersPositive, NEW n \in Nat, NEW m \in Nat \ {0}
    PROVE  CheckedMul(n, m) = IF n * m <= MaxWord THEN Ok(n * m) ELSE Err("a byte size")
<1>1. MaxWord \in Nat
  BY MaxWordNat
<1>2. n > MaxWord \div m <=> n * m > MaxWord
  BY <1>1
<1>3. n * m \in Nat
  OBVIOUS
<1>4. CASE n * m <= MaxWord
  <2>1. ~(n > MaxWord \div m)
    BY <1>1, <1>2, <1>3, <1>4
  <2>2. QED
    BY <1>4, <2>1, Zenon DEF CheckedMul
<1>5. CASE ~(n * m <= MaxWord)
  <2>1. n > MaxWord \div m
    BY <1>1, <1>2, <1>3, <1>5
  <2>2. QED
    BY <1>5, <2>1, Zenon DEF CheckedMul
<1>6. QED
  BY <1>4, <1>5

\* A non-negative i64 fits the u64 word.
LEMMA I64Fits ==
    ASSUME NEW W \in Nat, NEW x \in {-1} \cup {n \in Numbers : n <= W \div 2}, x >= 0
    PROVE  x \in Nat /\ x <= W /\ ~(x < 0)
BY SizeFacts

\* A YAML value in the spec's domain: deserialize_limit returns its byte
\* count when it fits the u64 field, and an error when it does not.
LEMMA DeserializeCorrect ==
    ASSUME PowersPositive, NEW i \in Inputs, SpecDomain(i)
    PROVE  IF SpecBytes(i) <= MaxWord THEN DeserializeLimit(i) = Ok(SpecBytes(i))
                                      ELSE ~DeserializeLimit(i).ok
<1>1. MaxWord \in Nat
  BY MaxWordNat
<1> USE SizeFacts, <1>1
<1>2. CASE i.kind = "u64"
  <2>1. i.v \in Nat /\ i.v <= MaxWord
    BY <1>2 DEF Inputs
  <2>2. QED
    BY <1>2, <2>1 DEF DeserializeLimit, SpecBytes, Ok
<1>3. CASE i.kind = "i64"
  <2>1. i.v \in {-1} \cup {n \in Numbers : n <= MaxWord \div 2}
    BY <1>3 DEF Inputs
  <2>2. i.v >= 0
    BY <1>3, Zenon DEF SpecDomain
  <2>3. i.v \in Nat /\ i.v <= MaxWord /\ ~(i.v < 0)
    BY <2>1, <2>2, I64Fits, Zenon
  <2>4. DeserializeLimit(i) = Ok(i.v) /\ SpecBytes(i) = i.v
    BY <1>3, <2>3, Zenon DEF DeserializeLimit, SpecBytes
  <2>5. QED
    BY <2>3, <2>4, Zenon
<1>4. CASE i.kind = "str"
  <2>1. /\ i.lead \in BOOLEAN /\ i.hasDigits \in BOOLEAN /\ i.digits \in Numbers
        /\ i.gap \in BOOLEAN /\ i.unit \in UnitWords \cup {"none"}
        /\ i.trail \in BOOLEAN
    BY <1>4 DEF Inputs
  <2>2. i.digits \in Nat
    BY <2>1
  <2>3. /\ ~i.lead /\ ~i.trail /\ i.hasDigits
        /\ i.unit = "none" => ~i.gap
        /\ i.unit # "none" => SpecUnit(i.unit)
    BY <1>4, Zenon DEF SpecDomain
  <2>4. DeserializeLimit(i) = VisitStr(i)
    BY <1>4, Zenon DEF DeserializeLimit
  \* The leading digit run does not fit the word: "a number".
  <2>5. CASE ~(i.digits <= MaxWord)
    <3>1. i.digits > MaxWord
      BY <2>2, <2>5
    <3>2. ~VisitStr(i).ok
      BY <2>3, <3>1, Zenon DEF VisitStr, Err
    <3>3. SpecBytes(i) \in Nat /\ SpecBytes(i) > MaxWord
      <4>1. CASE i.unit = "none"
        <5>1. SpecBytes(i) = i.digits
          BY <1>4, <4>1, Zenon DEF SpecBytes
        <5>2. QED
          BY <2>2, <3>1, <5>1
      <4>2. CASE i.unit # "none"
        <5>1. Multiplier[Lower(i.unit)] \in Nat \ {0}
          BY <2>3, <4>2, MultiplierPositive, MultiplierDomain DEF SpecUnit
        <5>2. SpecBytes(i) = i.digits * Multiplier[Lower(i.unit)]
          BY <1>4, <4>2, Zenon DEF SpecBytes
        <5>3. QED
          BY <2>2, <3>1, <5>1, <5>2
      <4>3. QED
        BY <4>1, <4>2
    <3>4. ~(SpecBytes(i) <= MaxWord)
      BY <3>3
    <3>5. QED
      BY <2>4, <3>2, <3>4, Zenon
  \* No unit: the digits are the byte count.
  <2>6. CASE i.digits <= MaxWord /\ i.unit = "none"
    <3>1. ~(i.digits > MaxWord)
      BY <2>2, <2>6
    <3>2. VisitStr(i) = Ok(i.digits)
      BY <2>3, <2>6, <3>1, Zenon DEF VisitStr
    <3>3. SpecBytes(i) = i.digits
      BY <1>4, <2>6, Zenon DEF SpecBytes
    <3>4. QED
      BY <2>4, <2>6, <3>2, <3>3, Zenon
  \* A unit: checked_mul by its multiplier.
  <2>7. CASE i.digits <= MaxWord /\ i.unit # "none"
    <3> DEFINE m == Multiplier[Lower(i.unit)]
    <3>1. Lower(i.unit) \in DOMAIN Multiplier
      BY <2>3, <2>7, MultiplierDomain DEF SpecUnit
    <3>2. m \in Nat \ {0}
      BY <3>1, MultiplierPositive
    <3>3. ~(i.digits > MaxWord)
      BY <2>2, <2>7
    <3>4. VisitStr(i) = CheckedMul(i.digits, m)
      BY <2>3, <2>7, <3>1, <3>3, Zenon DEF VisitStr
    <3>5. SpecBytes(i) = i.digits * m
      BY <1>4, <2>7, Zenon DEF SpecBytes
    <3>6. CheckedMul(i.digits, m) =
            IF i.digits * m <= MaxWord THEN Ok(i.digits * m) ELSE Err("a byte size")
      BY <2>2, <3>2, CheckedMulExact
    <3>7. Err("a byte size").ok = FALSE
      BY DEF Err
    <3>8. QED
      BY <2>4, <3>4, <3>5, <3>6, <3>7, Zenon
  <2>8. QED
    BY <2>5, <2>6, <2>7, Zenon
<1>5. QED
  BY <1>2, <1>3, <1>4 DEF Inputs

\* The visitor ran on the YAML's value, and a logger section that has not
\* been read yet holds one of the values the visitor accepts as input.
LoadInv ==
    /\ called => input \in Inputs /\ result = DeserializeLimit(input)
    /\ ~called /\ ~initialized /\ "logger" \in some => input \in Inputs

LEMMA InitLoadInv == Init => LoadInv
<1> SUFFICES ASSUME Init PROVE LoadInv
  OBVIOUS
<1>1. CASE "logger" \in some
  BY <1>1 DEF Init, SizeInit, LoadInv
<1>2. CASE "logger" \notin some
  BY <1>2 DEF Init, LoadInv
<1>3. QED
  BY <1>1, <1>2

LEMMA NextLoadInv == LoadInv /\ [Next]_vars => LoadInv'
<1> SUFFICES ASSUME LoadInv, [Next]_vars PROVE LoadInv'
  OBVIOUS
<1>1. CASE LoadLogger
  <2>1. input \in Inputs
    BY <1>1 DEF LoadLogger, Deserialize, LoadInv
  <2>2. QED
    BY <1>1, <2>1, Zenon DEF LoadLogger, Deserialize, LoadInv
<1>2. CASE Initialize
  BY <1>2, Zenon DEF Initialize, LoadInv
<1>3. CASE UNCHANGED vars
  BY <1>3, Zenon DEF vars, LoadInv
<1>4. QED
  BY <1>1, <1>2, <1>3 DEF Next

LEMMA LoadInvMatches == PowersPositive /\ LoadInv => DeserializeMatchesSpec
<1> SUFFICES ASSUME PowersPositive, LoadInv, called, SpecDomain(input)
             PROVE  IF SpecBytes(input) <= MaxWord THEN result = Ok(SpecBytes(input))
                                                   ELSE ~result.ok
  BY DEF DeserializeMatchesSpec
<1>1. input \in Inputs /\ result = DeserializeLimit(input)
  BY DEF LoadInv
<1>2. QED
  BY <1>1, DeserializeCorrect, Zenon

\* What deserialize_limit may return: a byte count that fits the word, or
\* an error message.
ResultType == [ok: {TRUE}, val: 0..MaxWord] \cup [ok: {FALSE}, val: ErrorMessages]

LEMMA ErrType ==
    ASSUME NEW s \in ErrorMessages PROVE Err(s) \in ResultType
BY DEF Err, ResultType

LEMMA OkType ==
    ASSUME NEW v \in 0..MaxWord PROVE Ok(v) \in ResultType
BY DEF Ok, ResultType

\* An i64 input is negative or fits the word.
LEMMA I64Cases ==
    ASSUME NEW W \in Nat, NEW x \in {-1} \cup {n \in Numbers : n <= W \div 2}
    PROVE  x < 0 \/ x \in 0..W
BY SizeFacts

\* A product of naturals within the word is a byte count.
LEMMA ProductFits ==
    ASSUME NEW W \in Nat, NEW n \in Nat, NEW m \in Nat, n * m <= W
    PROVE  n * m \in 0..W
OBVIOUS

\* Every input of the visitor yields a fitting byte count or an error:
\* checked_mul never lets a product past the word through.
LEMMA DeserializeType ==
    ASSUME PowersPositive, NEW i \in Inputs
    PROVE  DeserializeLimit(i) \in ResultType
<1>1. MaxWord \in Nat
  BY MaxWordNat
<1> USE SizeFacts, <1>1
<1>2. CASE i.kind = "u64"
  <2>1. i.v \in Nat /\ i.v <= MaxWord
    BY <1>2 DEF Inputs
  <2>4. i.v \in 0..MaxWord
    BY <2>1
  <2>2. DeserializeLimit(i) = Ok(i.v)
    BY <1>2, Zenon DEF DeserializeLimit
  <2>3. QED
    BY <2>4, <2>2, OkType, Zenon
<1>3. CASE i.kind = "i64"
  <2>1. i.v \in {-1} \cup {n \in Numbers : n <= MaxWord \div 2}
    BY <1>3 DEF Inputs
  <2>2. CASE i.v < 0
    <3>1. DeserializeLimit(i) = Err("a non-negative number")
      BY <1>3, <2>2, Zenon DEF DeserializeLimit
    <3>2. QED
      BY <3>1, ErrType, Zenon DEF ErrorMessages
  <2>3. CASE ~(i.v < 0)
    <3>1. i.v \in 0..MaxWord
      BY <2>1, <2>3, I64Cases, Zenon
    <3>2. DeserializeLimit(i) = Ok(i.v)
      BY <1>3, <2>3, Zenon DEF DeserializeLimit
    <3>3. QED
      BY <3>1, <3>2, OkType, Zenon
  <2>4. QED
    BY <2>2, <2>3
<1>4. CASE i.kind = "str"
  <2> DEFINE hasUnit == i.gap \/ i.unit # "none" \/ i.trail
             unit    == IF i.unit = "none" THEN "" ELSE Lower(i.unit)
  <2>1. i.digits \in Nat
    BY <1>4 DEF Inputs
  <2>2. DeserializeLimit(i) = VisitStr(i)
    BY <1>4, Zenon DEF DeserializeLimit
  <2>3. CASE i.lead \/ ~i.hasDigits \/ i.digits > MaxWord
    <3>1. VisitStr(i) = Err("a number")
      BY <2>3, Zenon DEF VisitStr
    <3>2. QED
      BY <2>2, <3>1, ErrType, Zenon DEF ErrorMessages
  <2>4. CASE ~(i.lead \/ ~i.hasDigits \/ i.digits > MaxWord) /\ ~hasUnit
    <3>1. VisitStr(i) = Ok(i.digits)
      BY <2>4, Zenon DEF VisitStr
    <3>2. i.digits \in 0..MaxWord
      BY <2>1, <2>4
    <3>3. QED
      BY <2>2, <3>1, <3>2, OkType, Zenon
  <2>5. CASE ~(i.lead \/ ~i.hasDigits \/ i.digits > MaxWord) /\ hasUnit
             /\ unit \notin DOMAIN Multiplier
    <3>1. VisitStr(i) = Err("a valid unit")
      BY <2>5, Zenon DEF VisitStr
    <3>2. QED
      BY <2>2, <3>1, ErrType, Zenon DEF ErrorMessages
  <2>6. CASE ~(i.lead \/ ~i.hasDigits \/ i.digits > MaxWord) /\ hasUnit
             /\ unit \in DOMAIN Multiplier
    <3> DEFINE m == Multiplier[unit]
    <3>1. VisitStr(i) = CheckedMul(i.digits, m)
      BY <2>6, Zenon DEF VisitStr
    <3>2. m \in Nat \ {0}
      BY <2>6, MultiplierPositive
    <3>3. CheckedMul(i.digits, m) =
            IF i.digits * m <= MaxWord THEN Ok(i.digits * m) ELSE Err("a byte size")
      BY <2>1, <3>2, CheckedMulExact
    <3>4. CASE i.digits * m <= MaxWord
      <4>1. i.digits * m \in 0..MaxWord
        BY <2>1, <3>2, <3>4, ProductFits, Zenon
      <4>2. QED
        BY <2>2, <3>1, <3>3, <3>4, <4>1, OkType, Zenon
    <3>5. CASE ~(i.digits * m <= MaxWord)
      BY <2>2, <3>1, <3>3, <3>5, ErrType, Zenon DEF ErrorMessages
    <3>6. QED
      BY <3>4, <3>5
  <2>7. QED
    BY <2>3, <2>4, <2>5, <2>6
<1>5. QED
  BY <1>2, <1>3, <1>4 DEF Inputs

LEMMA InitTypeOK == Init => TypeOK
<1> SUFFICES ASSUME Init PROVE TypeOK
  OBVIOUS
<1>1. LimitsType
  BY InitLimitsType
<1>2. Err("not called") \in [ok: {FALSE}, val: ErrorMessages]
  BY DEF Err, ErrorMessages
<1>3. input \in Inputs \cup {NoInput} /\ called = FALSE /\ result = Err("not called")
  BY DEF Init, SizeInit
<1>4. QED
  BY <1>1, <1>2, <1>3 DEF Init, TypeOK, LimitsType, SizeTypeOK

\* Reading the logger section stores a result of the visitor; initialize
\* fills the options and keeps the limits numbers.
LEMMA NextTypeOK ==
    PowersPositive /\ TypeOK /\ LoadInv /\ [Next]_vars => TypeOK'
<1> SUFFICES ASSUME PowersPositive, TypeOK, LoadInv, [Next]_vars PROVE TypeOK'
  OBVIOUS
<1>1. LimitsType'
  BY NextLimitsType DEF TypeOK, LimitsType
<1>2. CASE LoadLogger
  <2>1. input \in Inputs
    BY <1>2 DEF LoadLogger, Deserialize, LoadInv
  <2>2. result' \in ResultType
    BY <1>2, <2>1, DeserializeType DEF LoadLogger, Deserialize
  <2>3. QED
    BY <1>1, <1>2, <2>2 DEF LoadLogger, Deserialize, TypeOK, LimitsType,
                            SizeTypeOK, ResultType
<1>3. CASE Initialize
  BY <1>1, <1>3 DEF Initialize, TypeOK, LimitsType, SizeTypeOK, Options
<1>4. CASE UNCHANGED vars
  BY <1>4 DEF vars, TypeOK, SizeTypeOK
<1>5. QED
  BY <1>2, <1>3, <1>4 DEF Next

-----------------------------------------------------------------------------
(* Theorems *)

\* Config::initialize never overwrites a time limit the operator configured:
\* whatever the YAML holds, the arm of the match that runs sets a field
\* that is 0, and no other step touches the limits.
THEOREM UserValuesKeptHolds == Spec => UserValuesKept
<1>1. Spec => []LimitsType
  BY InitLimitsType, NextLimitsType, PTL DEF Spec
<1>2. QED
  BY <1>1, NextKeeps, PTL DEF Spec, UserValuesKept, KeepsUserValues

\* For every word and unit width, deserialize_limit reads each
\* rolling_file_size the spec describes (a number of bytes, or digits and a
\* unit b/kb/mb/gb/tb in any case) as exactly its byte count when that fits
\* the u64 field and refuses it when it does not: parse::<u64> and
\* checked_mul never wrap.  The hypothesis is the positivity of powers of
\* two, which the provers cannot derive.
THEOREM DeserializeMatchesSpecHolds ==
    PowersPositive => (Spec => []DeserializeMatchesSpec)
<1> SUFFICES ASSUME PowersPositive PROVE Spec => []DeserializeMatchesSpec
  OBVIOUS
<1>1. Spec => []LoadInv
  BY InitLoadInv, NextLoadInv, PTL DEF Spec
<1>2. LoadInv => DeserializeMatchesSpec
  BY LoadInvMatches
<1>3. QED
  BY <1>1, <1>2, PTL

\* The general form of the InitializedLimitsPositive violation: for every
\* time_limits section, of any values, in which two fields are 0,
\* Config::initialize's match runs the arm of the first and leaves the
\* later one 0, so the node starts with a 0 interval or timeout.
THEOREM OnlyFirstZeroFilled ==
    \A t \in [FieldSet -> Nat] : \A i, j \in 1..5 :
        i < j /\ t[Fields[i]] = 0 /\ t[Fields[j]] = 0 =>
            InitializeTimeLimits(TRUE, t)[Fields[j]] = 0
<1> SUFFICES ASSUME NEW t \in [FieldSet -> Nat], NEW i \in 1..5, NEW j \in 1..5,
                    i < j, t[Fields[i]] = 0, t[Fields[j]] = 0
             PROVE  InitializeTimeLimits(TRUE, t)[Fields[j]] = 0
  OBVIOUS
<1> DEFINE z == FirstZero(t)
<1>1. /\ z \in 1..5
      /\ \A k \in 1..(z - 1) : t[Fields[k]] # 0
  BY FirstZeroFirst
<1>2. z <= i
  BY <1>1
<1>3. Fields[j] # Fields[z]
  BY <1>1, <1>2 DEF Fields
<1>4. InitializeTimeLimits(TRUE, t) = [t EXCEPT ![Fields[z]] = Default[Fields[z]]]
  BY <1>1 DEF InitializeTimeLimits
<1>5. Fields[j] \in FieldSet
  BY DEF FieldSet
<1>6. QED
  BY <1>3, <1>4, <1>5

\* Every reachable state of loading and initializing the configuration is
\* well typed: in particular the stored rolling_file_size is a byte count
\* that fits the u64 field, or the visitor's error.  Same hypothesis.
THEOREM TypeCorrect == PowersPositive => (Spec => []TypeOK)
<1> SUFFICES ASSUME PowersPositive PROVE Spec => []TypeOK
  OBVIOUS
<1>1. Init => TypeOK /\ LoadInv
  BY InitTypeOK, InitLoadInv
<1>2. TypeOK /\ LoadInv /\ [Next]_vars => TypeOK' /\ LoadInv'
  BY NextTypeOK, NextLoadInv
<1>3. QED
  BY <1>1, <1>2, PTL DEF Spec

=============================================================================

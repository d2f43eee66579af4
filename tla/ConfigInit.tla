----------------------------- MODULE ConfigInit -----------------------------
(***************************************************************************)
(* Config::initialize on a loaded configuration.  Four Option fields are   *)
(* defaulted when None (abstracted to whether they are Some).  A time      *)
(* limit left at 0 in the YAML means "use the default"; the code tests the *)
(* fields with the arms of one match, each arm guarded by one field.       *)
(* Values are abstracted to 0 (unset) and one positive value per field;    *)
(* the retry descriptors are kept only when time_limits is None.           *)
(* Loading comes first: when the YAML has a logger section, serde runs     *)
(* deserialize_limit on its rolling_file_size (module SizeLimit).          *)
(***************************************************************************)
EXTENDS Naturals, SizeLimit

\* The five fields initialize inspects, in the order of its match arms.
Fields == <<"listener_interval_millis", "dkg_wait_for_phase_interval_millis",
            "dkg_timeout_duration", "randomness_task_exclusive_window",
            "provider_polling_interval_millis">>

FieldSet == {Fields[i] : i \in 1..5}

\* DEFAULT_LISTENER_INTERVAL_MILLIS, DEFAULT_DKG_WAIT_FOR_PHASE_INTERVAL_MILLIS,
\* DEFAULT_DKG_TIMEOUT_DURATION, DEFAULT_RANDOMNESS_TASK_EXCLUSIVE_WINDOW,
\* DEFAULT_PROVIDER_POLLING_INTERVAL_MILLIS
Default == [f \in FieldSet |->
              CASE f = "dkg_timeout_duration"             -> 40
                [] f = "randomness_task_exclusive_window" -> 10
                [] OTHER                                  -> 10000]

\* node_advertised_committer_rpc_endpoint, data_path, logger, listeners
Options == {"advertised_endpoint", "data_path", "logger", "listeners"}

VARIABLES
    some,          \* which of Options are Some
    hasTimeLimits, \* time_limits is Some
    timeLimits,    \* its fields (meaningless while it is None)
    initialized    \* initialize() has run

vars == <<some, hasTimeLimits, timeLimits, initialized, input, called, result>>

\* Fields a YAML file can give: each either 0 or set by the operator (to 5).
Loaded == [FieldSet -> {0, 5}]

\* Mutant: the arms test the field after the one they set.
FirstZeroShifted(t) ==
    IF \E i \in 1..5 : t[Fields[i]] = 0
      THEN LET z == CHOOSE i \in 1..5 : t[Fields[i]] = 0 /\ \A j \in 1..(i-1) : t[Fields[j]] # 0
           IN IF z = 1 THEN 5 ELSE z - 1
      ELSE 6

\* The index of the first match arm whose guard holds, 6 for `Some(_)`.
FirstZero(t) ==
    IF \E i \in 1..5 : t[Fields[i]] = 0
      THEN CHOOSE i \in 1..5 : t[Fields[i]] = 0 /\ \A j \in 1..(i-1) : t[Fields[j]] # 0
      ELSE 6

\* The match of initialize: None gets the whole default descriptor; Some
\* runs the first arm whose guard holds and only that arm.
InitializeTimeLimits(has, t) ==
    IF ~has
      THEN Default
      ELSE IF FirstZero(t) = 6 THEN t
           ELSE [t EXCEPT ![Fields[FirstZero(t)]] = Default[Fields[FirstZero(t)]]]

Init ==
    /\ some \in SUBSET Options
    /\ hasTimeLimits \in BOOLEAN
    /\ timeLimits \in IF hasTimeLimits THEN Loaded ELSE {[f \in FieldSet |-> 0]}
    /\ initialized = FALSE
    /\ IF "logger" \in some THEN SizeInit
       ELSE input = NoInput /\ called = FALSE /\ result = Err("not called")

\* serde reads the logger section of the YAML before initialize runs.
LoadLogger ==
    /\ ~initialized
    /\ "logger" \in some
    /\ Deserialize
    /\ UNCHANGED <<some, hasTimeLimits, timeLimits, initialized>>

\* initialize(): each None option gets its default (the committer endpoint,
\* "data.sqlite", LoggerDescriptor::default(), the seven default listeners),
\* then the time_limits match.
Initialize ==
    /\ ~initialized
    /\ "logger" \in some => called
    /\ some' = Options
    /\ timeLimits' = InitializeTimeLimits(hasTimeLimits, timeLimits)
    /\ hasTimeLimits' = TRUE
    /\ initialized' = TRUE
    /\ UNCHANGED <<input, called, result>>

Next == LoadLogger \/ Initialize

Spec == Init /\ [][Next]_vars

TypeOK ==
    /\ some \subseteq Options
    /\ hasTimeLimits \in BOOLEAN
    /\ timeLimits \in [FieldSet -> Nat]
    /\ initialized \in BOOLEAN
    /\ SizeTypeOK

\* After initialize every time limit is positive: a 0 in the file means the
\* default (spec 6, time_limits.*), so no listener runs with interval 0 and
\* no DKG times out after 0 blocks.
InitializedLimitsPositive ==
    initialized => \A f \in FieldSet : timeLimits[f] > 0

\* initialize never overwrites what the operator configured: a time limit
\* the file sets to a non-zero value keeps that value.
UserValuesKept ==
    [][hasTimeLimits =>
         \A f \in FieldSet : timeLimits[f] # 0 => timeLimits'[f] = timeLimits[f]]_vars

=============================================================================

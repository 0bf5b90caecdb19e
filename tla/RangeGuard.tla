------------------------------ MODULE RangeGuard ------------------------------
(***************************************************************************)
(* RangeGuard: accepts or rejects the readings of the downward range       *)
(* sensor.  A fault is latched and cleared only by readings that agree with *)
(* each other.  A mean is kept as its sum and count, so it is exact.       *)
(***************************************************************************)
EXTENDS Integers, Sequences

CONSTANTS
    Value,            \* readings within the accepted interval
    MaxJump,          \* max_range_jump_m
    JumpWindow,       \* jump_window_s
    SettleTolerance,  \* jump_settle_tolerance_m
    RecoverySamples,  \* jump_recovery_samples
    Elapse,           \* how far the clock may move between two readings
    MaxNow,           \* bound on the clock
    Calm, CalmValue   \* from this time on every reading is CalmValue

ASSUME RangeAssumption ==
    /\ Value \subseteq Int /\ CalmValue \in Value
    /\ {MaxJump, JumpWindow, SettleTolerance, MaxNow, Calm} \subseteq Nat
    /\ RecoverySamples \in Nat \ {0, 1}  \* SafetyConfig::validate
    /\ Elapse \subseteq Nat

VARIABLES
    lastAccepted,  \* last_accepted_m_, {} or {mean}
    lastAt,        \* last_accepted_at_
    fault,         \* fault_reason_ is set
    candidate,     \* candidate_m_ with candidate_count_, {} or {mean}
    now,
    latest         \* history: the latest values, at most RecoverySamples

rangeVars == <<lastAccepted, lastAt, fault, candidate, now, latest>>

Mean == [sum : Int, count : Nat \ {0}]

\* The reading differs from the mean by at most d.
Near(value, mean, d) ==
    LET off == value * mean.count - mean.sum
    IN  -d * mean.count <= off /\ off <= d * mean.count

\* Fault: the first reading is not counted.
SingleMutant(value) == [sum |-> value, count |-> 0]

Single(value) == [sum |-> value, count |-> 1]

RangeTypeOK ==
    /\ lastAccepted \in SUBSET Mean /\ candidate \in SUBSET Mean
    /\ lastAt \in Int /\ now \in Int /\ fault \in BOOLEAN
    /\ \A mean \in candidate : mean.count < RecoverySamples

RangeInit ==
    /\ lastAccepted = {} /\ candidate = {} /\ fault = FALSE
    /\ lastAt = 0 /\ now = 0 /\ latest = <<>>

\* Fault: a reading apart from the candidate is counted too.
CandidateMutant(value) ==
    IF candidate # {}
      THEN {[sum |-> mean.sum + value, count |-> mean.count + 1] : mean \in candidate}
      ELSE {Single(value)}

\* RangeGuard::recover, the candidate a reading makes.
Candidate(value) ==
    IF \E mean \in candidate : Near(value, mean, SettleTolerance)
      THEN {[sum |-> mean.sum + value, count |-> mean.count + 1] : mean \in candidate}
      ELSE {Single(value)}

\* Fault: a recovered guard keeps its fault.
RecoveredMutant(mean, time) ==
    /\ lastAccepted' = {mean} /\ lastAt' = time
    /\ candidate' = {} /\ fault' = TRUE

\* RangeGuard::recover, enough readings agreed.
Recovered(mean, time) ==
    /\ lastAccepted' = {mean} /\ lastAt' = time
    /\ candidate' = {} /\ fault' = FALSE

Noted(value, time) ==
    /\ now' = time
    /\ latest' = LET longer == Append(latest, value)
                 IN  IF Len(longer) > RecoverySamples THEN Tail(longer) ELSE longer

\* A reading while a fault is latched.
Recover(value, time) ==
    /\ fault /\ Noted(value, time)
    /\ \E mean \in Candidate(value) :
         \/ mean.count >= RecoverySamples /\ Recovered(mean, time)
         \/ /\ mean.count < RecoverySamples /\ candidate' = {mean}
            /\ UNCHANGED <<lastAccepted, lastAt, fault>>

Jumps(value, time) ==
    /\ time - lastAt <= JumpWindow
    /\ \E mean \in lastAccepted : ~Near(value, mean, MaxJump)

\* A reading while there is no fault.
Accept(value, time) ==
    /\ ~fault /\ ~Jumps(value, time)
    /\ lastAccepted' = {Single(value)} /\ lastAt' = time
    /\ UNCHANGED <<candidate, fault>> /\ Noted(value, time)

\* It jumps.  (The other reason, a clock that went back, cannot occur: the time is
\* that of std::chrono::steady_clock.)
Reject(value, time) ==
    /\ ~fault /\ Jumps(value, time)
    /\ candidate' = {Single(value)}
    /\ fault' = TRUE /\ UNCHANGED <<lastAccepted, lastAt>> /\ Noted(value, time)

\* A value or limits that are no numbers, or limits that make no interval.
Unusable(time) ==
    /\ fault' = TRUE /\ now' = time
    /\ UNCHANGED <<lastAccepted, lastAt, candidate, latest>>

\* A value outside the accepted interval.
Outside(time) ==
    /\ fault' = TRUE /\ candidate' = {} /\ now' = time
    /\ UNCHANGED <<lastAccepted, lastAt, latest>>

-----------------------------------------------------------------------------

\* RangeGuard::observe
Observe(value, time) ==
    Recover(value, time) \/ Accept(value, time) \/ Reject(value, time)

RangeNext ==
    \E time \in {now + d : d \in Elapse} \cap 0..MaxNow :
      \/ \E value \in Value : now < Calm /\ Observe(value, time)
      \/ now < Calm /\ (Unusable(time) \/ Outside(time))
      \/ now >= Calm /\ Observe(CalmValue, time)

RangeSpec == RangeInit /\ [][RangeNext]_rangeVars

-----------------------------------------------------------------------------
(* Properties.                                                              *)

\* A latched fault is cleared only by readings that agree, whatever came between
\* them: as each of the latest RecoverySamples values is within the tolerance of the
\* mean of those before it, no two are further apart than the tolerance times the
\* number of values that follow the first.
ClearedByAgreement ==
    [][fault /\ ~fault' =>
         /\ Len(latest') = RecoverySamples
         /\ \A j, k \in DOMAIN latest' :
              latest'[j] - latest'[k] <= (RecoverySamples - 1) * SettleTolerance]_rangeVars

\* Steady readings clear every fault, and none comes back.
SteadyClears == <>(now >= Calm) => <>[]~fault
=============================================================================

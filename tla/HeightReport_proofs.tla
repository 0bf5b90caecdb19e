------------------------- MODULE HeightReport_proofs -------------------------
(***************************************************************************)
(* Machine-checked properties of the range guard and of the height that is *)
(* reported, for every tolerance, number of samples, timeout and speed.    *)
(***************************************************************************)
EXTENDS HeightReport, TLAPS

-----------------------------------------------------------------------------
(* Arithmetic: readings and their mean, without a division.                *)

\* A product with a positive number is ordered as its factor is.
LEMMA Ordered ==
    ASSUME NEW a \in Int, NEW b \in Int, NEW c \in Nat
    PROVE  /\ a <= b => a * c <= b * c
           /\ c > 0 /\ a * c <= b * c => a <= b
<1>1. a <= b => a * c <= b * c
  OBVIOUS
<1>2. c > 0 /\ a > b => a * c > b * c
  OBVIOUS
<1> QED
  BY <1>1, <1>2

\* A value within s of the mean of c values, each of which is within d of it, is
\* within d + s of each; and all are within d + s of the mean of the c + 1 values.
LEMMA JoinedMean ==
    ASSUME NEW c \in Nat \ {0}, NEW sum \in Int, NEW x \in Int, NEW v \in Int,
           NEW d \in Nat, NEW s \in Nat,
           -d * c <= x * c - sum, x * c - sum <= d * c,
           -s * c <= v * c - sum, v * c - sum <= s * c
    PROVE  /\ -(d + s) <= v - x /\ v - x <= d + s
           /\ -(d + s) * (c + 1) <= x * (c + 1) - (sum + v)
           /\ x * (c + 1) - (sum + v) <= (d + s) * (c + 1)
           /\ -(d + s) * (c + 1) <= v * (c + 1) - (sum + v)
           /\ v * (c + 1) - (sum + v) <= (d + s) * (c + 1)
<1> DEFINE xc == x * c  vc == v * c  dc == d * c  sc == s * c
<1>1. /\ xc \in Int /\ vc \in Int /\ dc \in Nat /\ sc \in Nat
      /\ -d * c = -dc /\ -s * c = -sc
  OBVIOUS
<1>2. /\ -dc <= xc - sum /\ xc - sum <= dc /\ -sc <= vc - sum /\ vc - sum <= sc
  BY <1>1
<1>3. /\ (v - x) * c = vc - xc /\ (x - v) * c = xc - vc /\ (d + s) * c = dc + sc
      /\ x * (c + 1) = xc + x /\ v * (c + 1) = vc + v
      /\ (d + s) * (c + 1) = dc + sc + d + s
      /\ -(d + s) * (c + 1) = -(dc + sc + d + s)
  OBVIOUS
<1> HIDE DEF xc, vc, dc, sc
<1>4. v - x <= d + s /\ x - v <= d + s
  <2>1. (v - x) * c <= (d + s) * c /\ (x - v) * c <= (d + s) * c
    BY <1>1, <1>2, <1>3
  <2>2. v - x \in Int /\ x - v \in Int /\ d + s \in Int /\ c \in Nat /\ c > 0
    OBVIOUS
  <2> QED
    BY <2>1, <2>2, Ordered
<1> QED
  BY <1>1, <1>2, <1>3, <1>4

-----------------------------------------------------------------------------
\* The constants, one by one.
LEMMA RangeConstants ==
    /\ RecoverySamples \in Nat \ {0, 1} /\ SettleTolerance \in Nat
    /\ MaxNow \in Nat /\ \A d \in Elapse : d \in Nat
    /\ \A x \in Value : x \in Int
    /\ CalmValue \in Value
BY RangeAssumption

-----------------------------------------------------------------------------
(* Sequences.                                                              *)

\* The rest of a sequence.
LEMMA RestFacts ==
    ASSUME NEW S, NEW s \in Seq(S), s # <<>>
    PROVE  /\ Tail(s) \in Seq(S) /\ Len(Tail(s)) = Len(s) - 1
           /\ \A k \in 1..Len(Tail(s)) : Tail(s)[k] = s[k + 1]
OBVIOUS

\* The latest values once one more has come, as in Noted.
Later(s, v) ==
    LET longer == Append(s, v)
    IN  IF Len(longer) > RecoverySamples THEN Tail(longer) ELSE longer

LEMMA LaterFacts ==
    ASSUME NEW s \in Seq(Value), NEW v \in Value, Len(s) <= RecoverySamples
    PROVE  /\ Later(s, v) \in Seq(Value)
           /\ Len(Later(s, v)) = IF Len(s) < RecoverySamples THEN Len(s) + 1
                                                             ELSE RecoverySamples
           /\ Later(s, v)[Len(Later(s, v))] = v
           /\ \A k \in 1..Len(Later(s, v)) - 1 :
                Later(s, v)[k] = IF Len(s) < RecoverySamples THEN s[k] ELSE s[k + 1]
<1>0. RecoverySamples \in Nat \ {0, 1}
  BY RangeAssumption
<1> DEFINE longer == Append(s, v)
<1>1. /\ longer \in Seq(Value) /\ Len(longer) = Len(s) + 1 /\ longer[Len(s) + 1] = v
      /\ Len(s) \in Nat /\ \A k \in 1..Len(s) : longer[k] = s[k]
  OBVIOUS
<1>2. Later(s, v) = IF Len(longer) > RecoverySamples THEN Tail(longer) ELSE longer
  BY DEF Later
<1> HIDE DEF longer
<1>3. CASE Len(s) < RecoverySamples
  BY <1>0, <1>1, <1>2, <1>3
<1>4. CASE Len(s) = RecoverySamples
  <2>1. longer # <<>>
    BY <1>1
  <2>2. /\ Tail(longer) \in Seq(Value) /\ Len(Tail(longer)) = Len(s)
        /\ \A k \in 1..Len(Tail(longer)) : Tail(longer)[k] = longer[k + 1]
    BY <1>1, <2>1, RestFacts
  <2>3. Later(s, v) = Tail(longer)
    BY <1>0, <1>1, <1>2, <1>4
  <2> QED
    BY <1>0, <1>1, <1>4, <2>2, <2>3
<1> QED
  BY <1>0, <1>1, <1>3, <1>4

-----------------------------------------------------------------------------
(* The values a candidate is the mean of.                                  *)

\* The places of the latest n values.
Latest(n, s) == {k \in 1..Len(s) : k > Len(s) - n}

\* The latest mean.count values agree with the mean, and with each other.
Together(mean, s) ==
    /\ mean.count <= Len(s)
    /\ \A k \in Latest(mean.count, s) :
         Near(s[k], mean, (mean.count - 1) * SettleTolerance)
    /\ \A j, k \in Latest(mean.count, s) :
         s[j] - s[k] <= (mean.count - 1) * SettleTolerance

\* Where the latest values come from when one more is noted.
LEMMA LatestFacts ==
    ASSUME NEW s \in Seq(Value), NEW v \in Value, Len(s) <= RecoverySamples,
           NEW n \in Nat, NEW k \in Latest(n + 1, Later(s, v))
    PROVE  Later(s, v)[k] = v \/ \E i \in Latest(n, s) : Later(s, v)[k] = s[i]
<1> DEFINE w == Later(s, v)
<1>0. RecoverySamples \in Nat \ {0, 1} /\ Len(s) \in Nat
  BY RangeAssumption
<1>1. /\ Len(w) = IF Len(s) < RecoverySamples THEN Len(s) + 1 ELSE RecoverySamples
      /\ w[Len(w)] = v
      /\ \A i \in 1..Len(w) - 1 :
           w[i] = IF Len(s) < RecoverySamples THEN s[i] ELSE s[i + 1]
  BY LaterFacts
<1>2. k \in 1..Len(w) /\ k > Len(w) - (n + 1)
  BY DEF Latest
<1> SUFFICES w[k] = v \/ \E i \in Latest(n, s) : w[k] = s[i]
  OBVIOUS
<1> HIDE DEF w
<1>3. CASE k = Len(w)
  BY <1>1, <1>3
<1>4. CASE k # Len(w) /\ Len(s) < RecoverySamples
  <2>1. k \in 1..Len(s) /\ k > Len(s) - n /\ w[k] = s[k]
    BY <1>0, <1>1, <1>2, <1>4
  <2> QED
    BY <2>1 DEF Latest
<1>5. CASE k # Len(w) /\ ~(Len(s) < RecoverySamples)
  <2>1. k + 1 \in 1..Len(s) /\ k + 1 > Len(s) - n /\ w[k] = s[k + 1]
    BY <1>0, <1>1, <1>2, <1>5
  <2> QED
    BY <2>1 DEF Latest
<1> QED
  BY <1>3, <1>4, <1>5

\* A single value agrees with itself.
LEMMA AloneTogether ==
    ASSUME NEW s \in Seq(Value), NEW v \in Value, Len(s) <= RecoverySamples
    PROVE  Together(Single(v), Later(s, v))
<1> DEFINE w == Later(s, v)
<1>0. /\ RecoverySamples \in Nat \ {0, 1} /\ SettleTolerance \in Nat /\ v \in Int
      /\ Len(s) \in Nat
  BY RangeAssumption
<1>1. /\ Len(w) = IF Len(s) < RecoverySamples THEN Len(s) + 1 ELSE RecoverySamples
      /\ w[Len(w)] = v
  BY LaterFacts
<1> HIDE DEF w
<1>2. Latest(1, w) = {Len(w)}
  BY <1>0, <1>1 DEF Latest
<1>3. Single(v).count = 1 /\ Single(v).sum = v
  BY DEF Single
<1> DEFINE d == (Single(v).count - 1) * SettleTolerance
<1>4. d = 0
  <2>1. Single(v).count - 1 = 0 /\ 0 * SettleTolerance = 0
    BY <1>0, <1>3
  <2> QED
    BY <2>1
<1> HIDE DEF d
<1>5. /\ -d * 1 <= v * 1 - v /\ v * 1 - v <= d * 1 /\ v - v <= d
  BY <1>0, <1>4
<1>6. Near(v, Single(v), d)
  BY <1>3, <1>5 DEF Near
<1>7. 1 <= Len(w)
  BY <1>0, <1>1
<1> SUFFICES Together(Single(v), w)
  BY DEF w
<1> QED
  BY <1>1, <1>2, <1>3, <1>5, <1>6, <1>7 DEF Together, d

\* A value near the mean of values that agree agrees with them.
LEMMA JoinedTogether ==
    ASSUME NEW s \in Seq(Value), NEW v \in Value, Len(s) <= RecoverySamples,
           NEW mean \in Mean, mean.count < RecoverySamples, Together(mean, s),
           Near(v, mean, SettleTolerance)
    PROVE  Together([sum |-> mean.sum + v, count |-> mean.count + 1], Later(s, v))
<1> DEFINE w == Later(s, v)
           c == mean.count
           joined == [sum |-> mean.sum + v, count |-> c + 1]
           d == (c - 1) * SettleTolerance
<1>0. /\ RecoverySamples \in Nat \ {0, 1} /\ SettleTolerance \in Nat /\ v \in Int
      /\ Len(s) \in Nat /\ c \in Nat \ {0} /\ mean.sum \in Int
      /\ \A i \in 1..Len(s) : s[i] \in Int
  <2>1. c \in Nat \ {0} /\ mean.sum \in Int
    BY DEF Mean
  <2>2. \A i \in 1..Len(s) : s[i] \in Value
    OBVIOUS
  <2> QED
    BY <2>1, <2>2, RangeConstants
<1>1. Len(w) = IF Len(s) < RecoverySamples THEN Len(s) + 1 ELSE RecoverySamples
  BY LaterFacts
<1>2. joined.count = c + 1 /\ joined.sum = mean.sum + v
  OBVIOUS
<1>3. d \in Nat /\ (c + 1 - 1) * SettleTolerance = d + SettleTolerance
  BY <1>0
<1>4. c <= Len(s) /\ c < RecoverySamples
  BY DEF Together
<1>5. \A i \in Latest(c, s) :
        s[i] \in Int /\ -d * c <= s[i] * c - mean.sum /\ s[i] * c - mean.sum <= d * c
  BY <1>0 DEF Together, Near, Latest
<1>6. /\ -SettleTolerance * c <= v * c - mean.sum
      /\ v * c - mean.sum <= SettleTolerance * c
  BY DEF Near
<1>7. \A i, k \in Latest(c, s) : s[i] - s[k] <= d
  BY DEF Together
<1>8. \A k \in Latest(c + 1, w) : w[k] = v \/ \E i \in Latest(c, s) : w[k] = s[i]
  BY <1>0, LatestFacts
<1> SUFFICES Together(joined, w)
  OBVIOUS
<1> HIDE DEF w, c, joined, d
<1> DEFINE e == d + SettleTolerance
<1>9. \A i \in Latest(c, s) :
        /\ -e <= v - s[i] /\ v - s[i] <= e
        /\ -e * (c + 1) <= s[i] * (c + 1) - (mean.sum + v)
        /\ s[i] * (c + 1) - (mean.sum + v) <= e * (c + 1)
        /\ -e * (c + 1) <= v * (c + 1) - (mean.sum + v)
        /\ v * (c + 1) - (mean.sum + v) <= e * (c + 1)
  <2> TAKE i \in Latest(c, s)
  <2>1. s[i] \in Int /\ -d * c <= s[i] * c - mean.sum /\ s[i] * c - mean.sum <= d * c
    BY <1>5
  <2> QED
    BY <1>0, <1>3, <1>6, <2>1, JoinedMean
<1>10. \E i \in Latest(c, s) : TRUE
  <2>1. Len(s) \in Latest(c, s)
    BY <1>0, <1>4 DEF Latest
  <2> QED
    BY <2>1
<1>11. e \in Nat /\ e >= d /\ (c + 1 - 1) * SettleTolerance = e
  BY <1>0, <1>3
<1> HIDE DEF e
<1>12. \A k \in Latest(c + 1, w) :
         /\ -e * (c + 1) <= w[k] * (c + 1) - (mean.sum + v)
         /\ w[k] * (c + 1) - (mean.sum + v) <= e * (c + 1)
  BY <1>8, <1>9, <1>10
<1>13. \A j, k \in Latest(c + 1, w) : w[j] - w[k] <= e
  <2> TAKE j, k \in Latest(c + 1, w)
  <2>1. CASE w[j] = v /\ w[k] = v
    BY <1>0, <1>11, <2>1
  <2>2. ASSUME NEW i \in Latest(c, s), w[j] = v, w[k] = s[i] PROVE w[j] - w[k] <= e
    BY <1>9, <2>2
  <2>3. ASSUME NEW i \in Latest(c, s), w[j] = s[i], w[k] = v PROVE w[j] - w[k] <= e
    <3>1. -e <= v - s[i] /\ s[i] \in Int
      BY <1>5, <1>9
    <3> QED
      BY <1>0, <1>11, <2>3, <3>1
  <2>4. ASSUME NEW i \in Latest(c, s), NEW l \in Latest(c, s), w[j] = s[i], w[k] = s[l]
        PROVE  w[j] - w[k] <= e
    <3>1. s[i] - s[l] <= d /\ s[i] \in Int /\ s[l] \in Int
      BY <1>5, <1>7
    <3> QED
      BY <1>3, <1>11, <2>4, <3>1
  <2> QED
    BY <1>8, <2>1, <2>2, <2>3, <2>4
<1>14. c + 1 <= Len(w)
  BY <1>0, <1>1, <1>4
<1>15. (joined.count - 1) * SettleTolerance = e
  <2>1. joined.count - 1 = c + 1 - 1
    BY <1>0, <1>2
  <2>2. (joined.count - 1) * SettleTolerance = (c + 1 - 1) * SettleTolerance
    BY <2>1, Zenon
  <2> QED
    BY <1>11, <2>2, Zenon
<1>16. \A k \in Latest(c + 1, w) : Near(w[k], joined, e)
  BY <1>2, <1>12 DEF Near
<1> QED
  BY <1>2, <1>13, <1>14, <1>15, <1>16 DEF Together

-----------------------------------------------------------------------------
(* The range guard.                                                        *)

\* A guard without a fault has no candidate; a candidate is the mean of the latest
\* values, and these agree.
RangeInv ==
    /\ RangeTypeOK /\ now \in 0..MaxNow
    /\ latest \in Seq(Value) /\ Len(latest) <= RecoverySamples
    /\ candidate # {} => fault
    /\ \A m, n \in candidate : m = n
    /\ \A mean \in candidate : Together(mean, latest)

\* The readings a fault was cleared by agree.
Cleared ==
    /\ Len(latest) = RecoverySamples
    /\ \A j, k \in DOMAIN latest :
         latest[j] - latest[k] <= (RecoverySamples - 1) * SettleTolerance

\* Every step of the guard is a reading, of a kind, at a time that is not past.
LEMMA RangeCases ==
    ASSUME now \in 0..MaxNow, RangeNext
    PROVE  \E time \in 0..MaxNow :
             /\ now <= time
             /\ \/ \E value \in Value : Observe(value, time)
                \/ Unusable(time) \/ Outside(time)
<1>1. PICK time \in {now + d : d \in Elapse} \cap 0..MaxNow :
        \/ \E value \in Value : Observe(value, time)
        \/ Unusable(time) \/ Outside(time)
  BY RangeConstants DEF RangeNext
<1>2. time \in 0..MaxNow /\ now <= time
  BY RangeConstants
<1> QED
  BY <1>1, <1>2

\* A single value is a mean.
LEMMA SingleType ==
    ASSUME NEW value \in Value
    PROVE  Single(value) \in Mean /\ Single(value).count < RecoverySamples
BY RangeConstants DEF Single, Mean

\* The candidate a reading makes in a guard that has a fault.
LEMMA CandidateFacts ==
    ASSUME RangeInv, NEW value \in Value, NEW mean \in Candidate(value)
    PROVE  /\ mean \in Mean /\ mean.count <= RecoverySamples
           /\ Together(mean, Later(latest, value))
           /\ \A other \in Candidate(value) : other = mean
<1>1. CASE \E old \in candidate : Near(value, old, SettleTolerance)
  <2>1. PICK old \in candidate : Near(value, old, SettleTolerance)
    BY <1>1
  <2>2. Candidate(value) =
          {[sum |-> m.sum + value, count |-> m.count + 1] : m \in candidate}
    BY <1>1 DEF Candidate
  <2>3. candidate = {old}
    BY <2>1 DEF RangeInv
  <2>4. mean = [sum |-> old.sum + value, count |-> old.count + 1]
        /\ \A other \in Candidate(value) : other = mean
    BY <2>2, <2>3
  <2>5. old \in Mean /\ old.count < RecoverySamples
    BY <2>1 DEF RangeInv, RangeTypeOK
  <2>6. mean \in Mean /\ mean.count <= RecoverySamples
    BY <2>4, <2>5, RangeConstants DEF Mean
  <2>7. Together(mean, Later(latest, value))
    <3>1. Together(old, latest) /\ latest \in Seq(Value) /\ Len(latest) <= RecoverySamples
      BY <2>1 DEF RangeInv
    <3> QED
      BY <2>1, <2>4, <2>5, <3>1, JoinedTogether
  <2> QED
    BY <2>4, <2>6, <2>7
<1>2. CASE ~ \E old \in candidate : Near(value, old, SettleTolerance)
  <2>1. Candidate(value) = {Single(value)}
    BY <1>2 DEF Candidate
  <2>2. mean = Single(value)
    BY <2>1
  <2>3. Together(mean, Later(latest, value))
    BY <2>2, AloneTogether DEF RangeInv
  <2>4. mean \in Mean /\ mean.count < RecoverySamples
    BY <2>2, SingleType
  <2>5. mean.count <= RecoverySamples
    BY <2>4, RangeConstants DEF Mean
  <2> QED
    BY <2>1, <2>2, <2>3, <2>4, <2>5
<1> QED
  BY <1>1, <1>2

\* A reading keeps the invariant, and clears a fault only by agreement.
LEMMA ObserveStep ==
    ASSUME RangeInv, NEW time \in 0..MaxNow, NEW value \in Value, Observe(value, time)
    PROVE  RangeInv' /\ (fault /\ ~fault' => Cleared')
<1>0. /\ latest' = Later(latest, value) /\ now' = time
      /\ latest' \in Seq(Value) /\ Len(latest') <= RecoverySamples
  <2>1. latest' = Later(latest, value) /\ now' = time
    BY DEF Observe, Recover, Accept, Reject, Noted, Later
  <2>2. /\ Later(latest, value) \in Seq(Value)
        /\ Len(Later(latest, value)) = IF Len(latest) < RecoverySamples
                                         THEN Len(latest) + 1 ELSE RecoverySamples
    BY LaterFacts DEF RangeInv
  <2>3. Len(latest) \in Nat
    BY DEF RangeInv
  <2> QED
    BY <2>1, <2>2, <2>3, RangeConstants
<1>1. time \in Int
  OBVIOUS
<1>2. CASE Recover(value, time)
  <2>1. PICK mean \in Candidate(value) :
          \/ mean.count >= RecoverySamples /\ Recovered(mean, time)
          \/ /\ mean.count < RecoverySamples /\ candidate' = {mean}
             /\ UNCHANGED <<lastAccepted, lastAt, fault>>
    BY <1>2 DEF Recover
  <2>2. /\ mean \in Mean /\ mean.count <= RecoverySamples
        /\ Together(mean, latest') /\ fault
    BY <1>0, <1>2, <2>1, CandidateFacts DEF Recover
  <2>3. CASE mean.count >= RecoverySamples /\ Recovered(mean, time)
    <3>1. RangeInv'
      BY <1>0, <1>1, <2>2, <2>3 DEF Recovered, RangeInv, RangeTypeOK
    <3>2. mean.count = RecoverySamples
      BY <2>2, <2>3, RangeConstants DEF Mean
    <3>3. RecoverySamples <= Len(latest') /\ Len(latest') \in Nat
      BY <1>0, <2>2, <3>2 DEF Together
    <3>4. Len(latest') = RecoverySamples
      BY <1>0, <3>3, RangeConstants
    <3>5. DOMAIN latest' = Latest(RecoverySamples, latest')
      BY <1>0, <3>4, RangeConstants DEF Latest
    <3>6. \A j, k \in Latest(RecoverySamples, latest') :
            latest'[j] - latest'[k] <= (RecoverySamples - 1) * SettleTolerance
      BY <2>2, <3>2, Zenon DEF Together
    <3> QED
      BY <3>1, <3>4, <3>5, <3>6 DEF Cleared
  <2>4. CASE /\ mean.count < RecoverySamples /\ candidate' = {mean}
             /\ UNCHANGED <<lastAccepted, lastAt, fault>>
    BY <1>0, <1>1, <2>2, <2>4 DEF RangeInv, RangeTypeOK
  <2> QED
    BY <2>1, <2>3, <2>4
<1>3. CASE Accept(value, time)
  <2>1. candidate = {} /\ candidate' = {} /\ fault' = fault /\ ~fault
    BY <1>3 DEF Accept, RangeInv
  <2>2. lastAccepted' \in SUBSET Mean /\ lastAt' \in Int
    BY <1>1, <1>3, SingleType DEF Accept
  <2> QED
    BY <1>0, <1>1, <2>1, <2>2 DEF RangeInv, RangeTypeOK
<1>4. CASE Reject(value, time)
  <2>1. candidate' = {Single(value)} /\ fault' = TRUE
        /\ UNCHANGED <<lastAccepted, lastAt>>
    BY <1>4 DEF Reject
  <2>2. Together(Single(value), latest')
    BY <1>0, AloneTogether DEF RangeInv
  <2> QED
    BY <1>0, <1>1, <2>1, <2>2, SingleType DEF RangeInv, RangeTypeOK
<1> QED
  BY <1>2, <1>3, <1>4 DEF Observe

\* So does every step of the guard.
LEMMA RangeStep ==
    ASSUME RangeInv, RangeNext
    PROVE  RangeInv' /\ (fault /\ ~fault' => Cleared') /\ now <= now'
<1>1. PICK time \in 0..MaxNow :
        /\ now <= time
        /\ \/ \E value \in Value : Observe(value, time)
           \/ Unusable(time) \/ Outside(time)
  BY RangeCases DEF RangeInv
<1>2. ASSUME NEW value \in Value, Observe(value, time)
      PROVE  RangeInv' /\ (fault /\ ~fault' => Cleared') /\ now <= now'
  <2>1. now' = time
    BY <1>2 DEF Observe, Recover, Accept, Reject, Noted
  <2> QED
    BY <1>1, <1>2, <2>1, ObserveStep
<1>3. CASE Unusable(time)
  BY <1>1, <1>3 DEF Unusable, RangeInv, RangeTypeOK
<1>4. CASE Outside(time)
  BY <1>1, <1>4 DEF Outside, RangeInv, RangeTypeOK
<1> QED
  BY <1>1, <1>2, <1>3, <1>4

\* What the height report does to the guard.
LEMMA RangeKept ==
    ASSUME RangeInv, [HeightNext]_heightVars
    PROVE  RangeInv' /\ (fault /\ ~fault' => Cleared') /\ now <= now'
<1>0. now \in Int /\ now <= now
  BY DEF RangeInv
<1>1. CASE ReceiveRange
  BY <1>1, RangeStep DEF ReceiveRange
<1>2. CASE NoRange
  <2>1. /\ now' = now + 1 /\ now < MaxNow
        /\ UNCHANGED <<lastAccepted, lastAt, fault, candidate, latest>>
    BY <1>2 DEF NoRange
  <2>2. now' \in 0..MaxNow /\ now <= now'
    BY <2>1, RangeConstants DEF RangeInv
  <2> QED
    BY <2>1, <2>2 DEF RangeInv, RangeTypeOK
<1>3. CASE UNCHANGED rangeVars
  BY <1>0, <1>3 DEF rangeVars, RangeInv, RangeTypeOK
<1> QED
  BY <1>1, <1>2, <1>3 DEF HeightNext, ReceivePose, Latch, Report, heightVars

\* A guard that has heard nothing.
LEMMA RangeStarts == RangeInit => RangeInv
<1> SUFFICES ASSUME RangeInit PROVE RangeInv
  OBVIOUS
<1>1. /\ lastAccepted = {} /\ candidate = {} /\ lastAt = 0 /\ now = 0 /\ latest = <<>>
  BY Zenon DEF RangeInit
<1>2. fault \in BOOLEAN
  BY Zenon DEF RangeInit
<1>3. latest \in Seq(Value) /\ Len(latest) <= RecoverySamples
  BY <1>1, RangeConstants
<1>4. now \in 0..MaxNow
  BY <1>1, RangeConstants
<1> QED
  BY <1>1, <1>2, <1>3, <1>4 DEF RangeInv, RangeTypeOK

\* The invariant of the guard in every state.
LEMMA RangeCorrect == HeightSpec => []RangeInv
<1>1. HeightInit => RangeInv
  BY RangeStarts DEF HeightInit
<1>2. RangeInv /\ [HeightNext]_heightVars => RangeInv'
  BY RangeKept
<1> QED
  BY <1>1, <1>2, PTL DEF HeightSpec

\* A fault of the range sensor is cleared only by RecoverySamples readings in a row
\* that agree, for every number of samples and every tolerance, whatever unusable
\* readings came between them (RangeGuard::recover).
THEOREM FaultsClearedByAgreement == HeightSpec => ClearedByAgreement
<1>1. RangeInv /\ [HeightNext]_heightVars =>
        [fault /\ ~fault' =>
           /\ Len(latest') = RecoverySamples
           /\ \A j, k \in DOMAIN latest' :
                latest'[j] - latest'[k] <= (RecoverySamples - 1) * SettleTolerance]_rangeVars
  BY RangeKept DEF Cleared
<1> QED
  BY <1>1, RangeCorrect, PTL DEF HeightSpec, ClearedByAgreement

-----------------------------------------------------------------------------
(* The height that is reported.                                            *)

\* The constants, one by one.
LEMMA HeightConstants ==
    /\ SourceTimeout \in Nat /\ MaxDelta \in Nat /\ Climb \in Nat /\ Ceiling \in Nat
    /\ PreferRange \in BOOLEAN
BY HeightAssumption

\* The latest pose was true when it came; since then the vehicle has moved no
\* further than the time allows.
PoseTrue(p) ==
    /\ p \in [z : SUBSET Altitude, at : 0..MaxNow] /\ p.at <= now
    /\ \A y, z \in p.z : y = z
    /\ \A z \in p.z : /\ z - altitude <= Climb * (now - p.at)
                      /\ altitude - z <= Climb * (now - p.at)

\* There is one pose at most, and one baseline.
HeightInv ==
    /\ \A p \in pose : PoseTrue(p)
    /\ \A p, q \in pose : p = q
    /\ base \in [z : SUBSET Altitude, range : SUBSET Value]
    /\ \A a, b \in base.z : a = b
    /\ report \subseteq Int /\ altitude \in Altitude

\* Time and movement keep a pose as true as it can be.
LEMMA MoveKeepsPose ==
    ASSUME now \in 0..MaxNow, now' \in 0..MaxNow, now <= now', HeightInv, Moves,
           pose' = pose
    PROVE  \A p \in pose' : PoseTrue(p)'
<1> SUFFICES ASSUME NEW p \in pose PROVE PoseTrue(p)'
  OBVIOUS
<1>1. PICK d \in -Climb * (now' - now)..Climb * (now' - now) :
        altitude + d \in Altitude /\ altitude' = altitude + d
  BY DEF Moves
<1>2. /\ p \in [z : SUBSET Altitude, at : 0..MaxNow] /\ p.at <= now
      /\ \A y, z \in p.z : y = z
      /\ \A z \in p.z : /\ z - altitude <= Climb * (now - p.at)
                        /\ altitude - z <= Climb * (now - p.at)
  BY DEF HeightInv, PoseTrue
<1>3. /\ p.at \in 0..MaxNow /\ altitude \in Int /\ MaxNow \in Nat /\ Climb \in Nat
      /\ \A z \in p.z : z \in Int
  BY <1>2, RangeConstants, HeightConstants DEF HeightInv, Altitude
<1>4. p.at <= now'
  BY <1>2, <1>3
<1>5. ASSUME NEW z \in p.z
      PROVE  /\ z - (altitude + d) <= Climb * (now' - p.at)
             /\ (altitude + d) - z <= Climb * (now' - p.at)
  <2> DEFINE old == Climb * (now - p.at)  more == Climb * (now' - now)
             new == Climb * (now' - p.at)
  <2>1. old \in Int /\ more \in Int /\ -Climb * (now' - now) = -more
    BY <1>3
  <2>2. new = old + more
    BY <1>3
  <2>3. z - altitude <= old /\ altitude - z <= old /\ z \in Int
    BY <1>2, <1>3, <1>5
  <2>4. d \in -more..more
    BY <1>1, <2>1
  <2> HIDE DEF old, more, new
  <2>5. z - (altitude + d) <= new /\ (altitude + d) - z <= new
    BY <1>3, <2>1, <2>2, <2>3, <2>4
  <2> QED
    BY <2>5 DEF new
<1> QED
  BY <1>1, <1>2, <1>4, <1>5 DEF PoseTrue

\* A height made of two sources that agree, one of them a pose that is true, is true.
LEMMA ReportTrue ==
    ASSUME RangeInv, HeightInv, Report
    PROVE  report' \subseteq Int /\ HeightIsTrue'
<1>1. /\ report' = {IF PreferRange THEN pair[2] ELSE pair[1] :
                      pair \in {p \in LocalZ \X RangeZ :
                                  p[1] - p[2] \in -MaxDelta..MaxDelta}}
      /\ base' = base /\ altitude' = altitude
  BY DEF Report
<1>2. altitude \in Int /\ \A b \in base.z : b \in Int
  BY HeightConstants DEF HeightInv, Altitude
<1>3. ASSUME NEW z \in LocalZ, NEW b \in base.z
      PROVE  /\ z \in Int
             /\ -(Climb * SourceTimeout) <= z - (altitude - b)
             /\ z - (altitude - b) <= Climb * SourceTimeout
  <2>1. PICK h \in UNION {p.z : p \in {q \in pose : now - q.at <= SourceTimeout}},
             a \in base.z : z = h - a
    BY DEF LocalZ
  <2>2. PICK p \in pose : now - p.at <= SourceTimeout /\ h \in p.z
    BY <2>1
  <2>3. a = b
    BY <2>1 DEF HeightInv
  <2>4. /\ p \in [z : SUBSET Altitude, at : 0..MaxNow] /\ p.at <= now
        /\ h - altitude <= Climb * (now - p.at) /\ altitude - h <= Climb * (now - p.at)
    BY <2>2 DEF HeightInv, PoseTrue
  <2>5. h \in Int /\ p.at \in Int /\ now \in Int /\ now - p.at \in Nat
        /\ Climb \in Nat /\ SourceTimeout \in Nat
    BY <2>2, <2>4, HeightConstants, RangeConstants DEF Altitude, RangeInv
  <2>6. Climb * (now - p.at) <= Climb * SourceTimeout
        /\ Climb * (now - p.at) \in Int /\ Climb * SourceTimeout \in Int
    <3>1. (now - p.at) * Climb <= SourceTimeout * Climb
      BY <2>2, <2>5, Ordered
    <3>2. /\ (now - p.at) * Climb = Climb * (now - p.at)
          /\ SourceTimeout * Climb = Climb * SourceTimeout
          /\ Climb * (now - p.at) \in Int /\ Climb * SourceTimeout \in Int
      BY <2>5
    <3> QED
      BY <3>1, <3>2
  <2> DEFINE most == Climb * (now - p.at)  limit == Climb * SourceTimeout
  <2>7. h - altitude <= most /\ altitude - h <= most /\ most <= limit
        /\ most \in Int /\ limit \in Int
    BY <2>4, <2>6
  <2> HIDE DEF most, limit
  <2>8. z \in Int /\ -limit <= z - (altitude - b) /\ z - (altitude - b) <= limit
    BY <1>2, <2>1, <2>3, <2>5, <2>7
  <2> QED
    BY <2>8 DEF limit
<1>4. \A r \in RangeZ : r \in Int
  <2>1. \A r \in RangeReading : r \in Value
    BY DEF RangeReading, RangeInv
  <2>2. \A b \in base.range : b \in Value
    BY DEF HeightInv
  <2>3. \A r \in RangeZ : \E v \in Value, b \in base.range : r = v - b
    BY <2>1 DEF RangeZ
  <2> QED
    BY <2>2, <2>3, RangeConstants
<1>5. \A z \in LocalZ : \E b \in base.z : TRUE
  BY DEF LocalZ
<1>6. ASSUME NEW x \in report'
      PROVE  /\ x \in Int
             /\ \A b \in base.z :
                  /\ -(MaxDelta + Climb * SourceTimeout) <= x - (altitude - b)
                  /\ x - (altitude - b) <= MaxDelta + Climb * SourceTimeout
  <2>1. PICK pair \in LocalZ \X RangeZ :
          /\ pair[1] - pair[2] \in -MaxDelta..MaxDelta
          /\ x = IF PreferRange THEN pair[2] ELSE pair[1]
    BY <1>1
  <2> DEFINE z == pair[1]  r == pair[2]  limit == Climb * SourceTimeout
  <2>2. z \in LocalZ /\ r \in RangeZ /\ z - r \in -MaxDelta..MaxDelta
        /\ (x = z \/ x = r)
    BY <2>1
  <2>3. limit \in Int
    BY HeightConstants
  <2> HIDE DEF z, r, limit
  <2>4. z \in Int /\ r \in Int
    BY <1>3, <1>4, <1>5, <2>2
  <2>5. -MaxDelta <= z - r /\ z - r <= MaxDelta /\ MaxDelta \in Nat
    BY <2>2, <2>4, HeightConstants
  <2>6. ASSUME NEW b \in base.z
        PROVE  -(MaxDelta + limit) <= x - (altitude - b) /\ x - (altitude - b) <= MaxDelta + limit
    <3>1. -limit <= z - (altitude - b) /\ z - (altitude - b) <= limit /\ b \in Int
      BY <1>2, <1>3, <2>2 DEF limit
    <3>2. CASE x = z
      BY <1>2, <2>3, <2>4, <2>5, <3>1, <3>2
    <3>3. CASE x = r
      BY <1>2, <2>3, <2>4, <2>5, <3>1, <3>3
    <3> QED
      BY <2>2, <3>2, <3>3
  <2> QED
    BY <2>2, <2>4, <2>6 DEF limit
<1> QED
  BY <1>1, <1>6 DEF HeightIsTrue

\* A step keeps the pose true and the report true.
LEMMA HeightStep ==
    ASSUME RangeInv, RangeInv', now <= now', HeightInv, HeightIsTrue,
           [HeightNext]_heightVars
    PROVE  HeightInv' /\ HeightIsTrue'
<1>0. now \in 0..MaxNow /\ now' \in 0..MaxNow /\ now \in Int
  BY RangeConstants DEF RangeInv
<1>1. CASE ReceiveRange \/ NoRange
  <2>1. Moves /\ report' = {} /\ pose' = pose /\ base' = base
    BY <1>1 DEF ReceiveRange, NoRange
  <2>2. \A p \in pose' : PoseTrue(p)'
    BY <1>0, <2>1, MoveKeepsPose
  <2>3. altitude' \in Altitude
    BY <2>1 DEF Moves
  <2> QED
    BY <2>1, <2>2, <2>3 DEF HeightInv, HeightIsTrue
<1>2. CASE ReceivePose
  <2>1. PICK z \in {{}, {altitude}} : pose' = {[z |-> z, at |-> now]}
    BY <1>2 DEF ReceivePose
  <2>2. report' = {} /\ base' = base /\ altitude' = altitude /\ now' = now
    BY <1>2 DEF ReceivePose, rangeVars
  <2>3. altitude - altitude = 0 /\ Climb * (now - now) = 0 /\ altitude \in Altitude
    <3>1. now - now = 0 /\ Climb * 0 = 0 /\ altitude \in Int
      BY <1>0, HeightConstants DEF HeightInv, Altitude
    <3> QED
      BY <3>1 DEF HeightInv
  <2>4. ASSUME NEW p \in pose' PROVE PoseTrue(p)'
    <3>1. p = [z |-> z, at |-> now] /\ z \subseteq {altitude}
      BY <2>1
    <3>2. p \in [z : SUBSET Altitude, at : 0..MaxNow] /\ p.at = now
          /\ \A y \in p.z : y = altitude
      BY <1>0, <2>3, <3>1
    <3> QED
      BY <1>0, <2>2, <2>3, <3>2 DEF PoseTrue
  <2>5. \A p, q \in pose' : p = q
    BY <2>1
  <2> QED
    BY <2>2, <2>4, <2>5 DEF HeightInv, HeightIsTrue
<1>3. CASE Latch
  <2>1. report' = {} /\ pose' = pose /\ altitude' = altitude /\ now' = now
        /\ base' = Latched
    BY <1>3 DEF Latch, rangeVars
  <2>2. \A r \in RangeReading : r \in Value
    BY DEF RangeReading, RangeInv
  <2>3. \A z \in UNION {p.z : p \in pose} : z \in Altitude
    BY DEF HeightInv, PoseTrue
  <2>4. \A y, z \in UNION {p.z : p \in pose} : y = z
    BY DEF HeightInv, PoseTrue
  <2>5. Latched \in [z : SUBSET Altitude, range : SUBSET Value]
        /\ \A a, b \in Latched.z : a = b
    BY <2>2, <2>3, <2>4 DEF Latched, HeightInv
  <2> QED
    BY <2>1, <2>5 DEF HeightInv, HeightIsTrue, PoseTrue
<1>4. CASE Report
  <2>1. pose' = pose /\ base' = base /\ altitude' = altitude /\ now' = now
    BY <1>4 DEF Report, rangeVars
  <2>2. report' \subseteq Int /\ HeightIsTrue'
    BY <1>4, ReportTrue
  <2> QED
    BY <2>1, <2>2 DEF HeightInv, PoseTrue
<1>5. CASE UNCHANGED heightVars
  BY <1>5 DEF heightVars, rangeVars, HeightInv, HeightIsTrue, PoseTrue
<1> QED
  BY <1>1, <1>2, <1>3, <1>4, <1>5 DEF HeightNext

\* The invariant in every state.
LEMMA HeightCorrect == HeightSpec => [](RangeInv /\ HeightInv /\ HeightIsTrue)
<1>1. HeightInit => HeightInv /\ HeightIsTrue
  <2> SUFFICES ASSUME HeightInit PROVE HeightInv /\ HeightIsTrue
    OBVIOUS
  <2>1. pose = {} /\ base = [z |-> {}, range |-> {}] /\ report = {} /\ altitude \in Altitude
    BY DEF HeightInit
  <2> QED
    BY <2>1 DEF HeightInv, HeightIsTrue
<1>2. RangeInv /\ HeightInv /\ HeightIsTrue /\ [HeightNext]_heightVars
        => HeightInv' /\ HeightIsTrue'
  BY RangeKept, HeightStep
<1> QED
  BY <1>1, <1>2, RangeCorrect, PTL DEF HeightSpec

\* A height reported as valid is true, whatever the range sensor says and however
\* the vehicle moves, for every timeout, cross-check limit and speed.
THEOREM HeightsAreTrue == HeightSpec => []HeightIsTrue
BY HeightCorrect, PTL

\* Every variable of the report and of the guard always has its type.
THEOREM HeightTypeCorrect == HeightSpec => []HeightTypeOK
<1>1. RangeInv /\ HeightInv => HeightTypeOK
  <2> SUFFICES ASSUME RangeInv, HeightInv PROVE HeightTypeOK
    OBVIOUS
  <2>1. pose \in SUBSET [z : SUBSET Altitude, at : 0..MaxNow]
    BY DEF HeightInv, PoseTrue
  <2> QED
    BY <2>1 DEF HeightTypeOK, HeightInv, RangeInv
<1> QED
  BY <1>1, HeightCorrect, PTL
=============================================================================

---------------------------- MODULE GatesProofs -----------------------------
(***************************************************************************)
(* Proofs about the two gates, the alert throttle and the rate limiter, for *)
(* every limit, length of a minute and number of alerts, keys and requests. *)
(***************************************************************************)
EXTENDS Gates, FiniteSetTheorems, TLAPS

-----------------------------------------------------------------------------
(* The alert throttle *)

\* The times are those of alerts that came, and every one of the last minute is
\* among them, sent or not.
Kept ==
    /\ now \in Times
    /\ at \in [Alerts -> Times \cup {Never}]
    /\ \A a \in Alerts : at[a] <= now
    /\ sent \subseteq Came /\ alertTimes \subseteq Came
    /\ \A a \in Came : at[a] + Minute > now => a \in alertTimes
    /\ IsFiniteSet(Came)

NotifierInv == Kept /\ FloodIsCut

LEMMA NotifierStart == Init => NotifierInv
<1> SUFFICES ASSUME Init PROVE NotifierInv
    OBVIOUS
<1> USE ClockConstants, NotifierConstants
    DEF ClockConstants, NotifierConstants, Init, NotifierInit, Times, Never
<1>1. Came = {} /\ sent = {}
    BY DEF Came
<1>2. Kept
    BY <1>1, FS_EmptySet DEF Kept
<1>3. \A t : InLastMinute(sent, t) = {}
    BY <1>1 DEF InLastMinute
<1>4. FloodIsCut
    BY <1>1, <1>3, FS_EmptySet DEF FloodIsCut
<1> QED
    BY <1>2, <1>4 DEF NotifierInv

\* A subset of what came is finite, and counts no more.
LEMMA CountGrows ==
    ASSUME NEW S, NEW T, T \subseteq S, IsFiniteSet(S)
    PROVE  /\ IsFiniteSet(T) /\ Cardinality(T) \in Nat /\ Cardinality(S) \in Nat
           /\ Cardinality(T) <= Cardinality(S)
<1>1. T \in SUBSET S
    OBVIOUS
<1>2. IsFiniteSet(T) /\ Cardinality(T) <= Cardinality(S)
    BY <1>1, FS_Subset
<1> QED
    BY <1>2, FS_CardinalityType

LEMMA DispatchStep ==
    ASSUME NotifierInv, NEW a \in Alerts, Threat(a)
    PROVE  NotifierInv'
<1> USE ClockConstants, NotifierConstants
    DEF ClockConstants, NotifierConstants, NotifierInv, Times, Never
<1>1. /\ at[a] = Never /\ at' = [at EXCEPT ![a] = now] /\ alertTimes' = Recent(a)
      /\ sent' = IF Throttled(a) THEN sent ELSE sent \cup {a}
      /\ now' = now
    BY DEF Threat, DispatchThreat
<1>2. /\ at' \in [Alerts -> Times \cup {Never}]
      /\ at'[a] = now /\ \A b \in Alerts : b # a => at'[b] = at[b]
    BY <1>1 DEF Kept
<1>3. Came' = Came \cup {a} /\ a \notin Came
    BY <1>1, <1>2 DEF Came, Kept
<1>4. Recent(a) \subseteq Came'
    BY <1>3 DEF Recent, Kept
<1>5. IsFiniteSet(Came')
    BY <1>3, FS_AddElement DEF Kept
<1>6. Kept'
    <2>1. \A b \in Came' : at'[b] + Minute > now' => b \in Recent(a)
        BY <1>1, <1>2, <1>3 DEF Recent, Kept, Came
    <2>2. \A b \in Alerts : at'[b] <= now'
        BY <1>1, <1>2 DEF Kept
    <2>3. sent' \subseteq Came'
        BY <1>1, <1>3 DEF Kept
    <2> QED
        BY <1>1, <1>2, <1>4, <1>5, <2>1, <2>2, <2>3 DEF Kept
<1>7. ASSUME NEW t \in Times PROVE Cardinality(InLastMinute(sent, t)') <= MaxAlerts
    <2>1. CASE Throttled(a) \/ ~(t - Minute < now /\ now <= t)
        <3>1. InLastMinute(sent, t)' = InLastMinute(sent, t)
            BY <1>1, <1>2, <1>3, <2>1 DEF InLastMinute, Kept, Came
        <3> QED BY <3>1 DEF FloodIsCut
    <2>2. CASE ~Throttled(a) /\ t - Minute < now /\ now <= t
        <3>1. InLastMinute(sent, t)' \subseteq Recent(a)
            BY <1>1, <1>2, <1>3, <2>2 DEF InLastMinute, Recent, Kept, Came
        <3>2. IsFiniteSet(Recent(a))
            BY <1>4, <1>5, CountGrows
        <3>3. Cardinality(Recent(a)) \in Nat /\ Cardinality(Recent(a)) <= MaxAlerts
            BY <2>2, <3>2, FS_CardinalityType DEF Throttled
        <3> QED BY <3>1, <3>2, <3>3, CountGrows
    <2> QED BY <2>1, <2>2
<1>8. ASSUME NEW b \in Came' \ sent' PROVE Cardinality(InLastMinute(Came, at[b])') > MaxAlerts
    <2>1. InLastMinute(Came, at[b])' \subseteq Came'
        BY DEF InLastMinute
    <2>2. IsFiniteSet(InLastMinute(Came, at[b])')
        BY <1>5, <2>1, CountGrows
    <2>3. CASE b = a
        <3>1. Throttled(a)
            BY <1>1, <2>3
        <3>2. Recent(a) \subseteq InLastMinute(Came, at[b])'
            BY <1>1, <1>2, <1>3, <2>3 DEF InLastMinute, Recent, Kept, Came
        <3>3. Cardinality(Recent(a)) <= Cardinality(InLastMinute(Came, at[b])')
            BY <2>2, <3>2, CountGrows
        <3>4. Cardinality(Recent(a)) \in Nat /\ Cardinality(InLastMinute(Came, at[b])') \in Nat
            BY <2>2, <3>2, CountGrows
        <3> QED BY <3>1, <3>3, <3>4 DEF Throttled
    <2>4. CASE b # a
        <3>1. b \in Came \ sent
            BY <1>1, <1>3, <2>4
        <3>2. Cardinality(InLastMinute(Came, at[b])) > MaxAlerts
            BY <3>1 DEF FloodIsCut
        <3>3. InLastMinute(Came, at[b]) \subseteq InLastMinute(Came, at[b])'
            BY <1>2, <1>3, <2>4, <3>1 DEF InLastMinute, Came
        <3>4. /\ Cardinality(InLastMinute(Came, at[b])) \in Nat
              /\ Cardinality(InLastMinute(Came, at[b])') \in Nat
              /\ Cardinality(InLastMinute(Came, at[b])) <= Cardinality(InLastMinute(Came, at[b])')
            BY <2>2, <3>3, CountGrows
        <3> QED BY <3>2, <3>4
    <2> QED BY <2>3, <2>4
<1>9. FloodIsCut'
    BY <1>7, <1>8 DEF FloodIsCut
<1> QED
    BY <1>6, <1>9

\* Time passes, requests come: what came and what was sent stays.
LEMMA QuietStep ==
    ASSUME NotifierInv, UNCHANGED notifierVars, now' \in Times, now <= now'
    PROVE  NotifierInv'
<1> USE ClockConstants DEF ClockConstants, NotifierInv, notifierVars, Times, Never
<1>1. Came' = Came
    BY DEF Came
<1>2. Kept'
    BY <1>1 DEF Kept, Came
<1>3. FloodIsCut'
    BY <1>1 DEF FloodIsCut, InLastMinute
<1> QED
    BY <1>2, <1>3

LEMMA NotifierAlways == Spec => []NotifierInv
<1>1. NotifierInv /\ [Next]_vars => NotifierInv'
    <2> SUFFICES ASSUME NotifierInv, [Next]_vars PROVE NotifierInv'
        OBVIOUS
    <2>1. now \in Times /\ now <= now
        BY ClockConstants DEF ClockConstants, NotifierInv, Kept, Times
    <2>2. ASSUME NEW k \in Keys, Request(k) PROVE NotifierInv'
        BY <2>1, <2>2, QuietStep DEF Request
    <2>3. CASE Wait
        <3>1. now' \in Times /\ now <= now'
            BY <2>1, <2>3, ClockConstants DEF Wait, Tick, Times, ClockConstants
        <3> QED BY <2>3, <3>1, QuietStep DEF Wait, limiterVars
    <2>4. CASE UNCHANGED vars
        BY <2>1, <2>4, QuietStep DEF vars
    <2> QED
        BY <2>2, <2>3, <2>4, DispatchStep DEF Next
<1> QED
    BY NotifierStart, <1>1, PTL DEF Spec

-----------------------------------------------------------------------------
\* No minute sees more than MaxAlerts messages, and only a flood is cut
\* (recordAndCheckThrottle), whenever the alerts come.
THEOREM FloodIsCutAlways == Spec => []FloodIsCut
<1>1. NotifierInv => FloodIsCut
    BY DEF NotifierInv
<1> QED
    BY NotifierAlways, <1>1, PTL

-----------------------------------------------------------------------------
(* The rate limiter *)

LimiterTypes ==
    /\ now \in Times
    /\ tokens \in [Keys -> 0..Limit]
    /\ lastRefill \in [Keys -> Times \cup {Never}]
    /\ granted \in [Keys -> Seq(Times)]
    /\ denied \in [Keys -> SUBSET Times]

\* How many requests were granted before the window that is open now.
Earlier(k) == Len(granted[k]) - (Limit - tokens[k])

\* What the bucket says of the past: the tokens that are gone were granted in
\* the open window, and what is more than a full bucket older than that, more
\* than a minute before it.
Bucket(k) ==
    /\ lastRefill[k] <= now
    /\ lastRefill[k] = Never => granted[k] = <<>>
    /\ lastRefill[k] # Never =>
        /\ Earlier(k) >= 0
        /\ \A i \in 1..Len(granted[k]) :
            /\ granted[k][i] <= now /\ granted[k][i] < lastRefill[k] + Minute
            /\ i <= Earlier(k) <=> granted[k][i] < lastRefill[k]
            /\ i <= Earlier(k) - Limit => granted[k][i] + Minute <= lastRefill[k]

\* Both halves of RateIsBounded for one key.
Bounded(k) ==
    /\ \A t \in Times : Cardinality(GrantsUntil(k, t)) <= 2 * Limit
    /\ \A t \in denied[k] : Cardinality(GrantsUntil(k, t)) >= Limit

LimiterInv == LimiterTypes /\ \A k \in Keys : Bucket(k) /\ Bounded(k)

LEMMA LimiterStart == Init => LimiterInv
<1> SUFFICES ASSUME Init PROVE LimiterInv
    OBVIOUS
<1> USE ClockConstants, LimiterConstants
    DEF ClockConstants, LimiterConstants, Init, LimiterInit, Times, Never
<1>1. LimiterTypes
    BY DEF LimiterTypes
<1>2. ASSUME NEW k \in Keys PROVE Bucket(k) /\ Bounded(k)
    <2>1. granted[k] = <<>> /\ DOMAIN granted[k] = {} /\ denied[k] = {}
        OBVIOUS
    <2>2. \A t : GrantsUntil(k, t) = {}
        BY <2>1 DEF GrantsUntil
    <2>3. Bucket(k)
        BY <2>1 DEF Bucket
    <2>4. Cardinality({}) <= 2 * Limit
        BY FS_EmptySet
    <2>5. Bounded(k)
        BY <2>1, <2>2, <2>4 DEF Bounded
    <2> QED BY <2>3, <2>5
<1> QED
    BY <1>1, <1>2 DEF LimiterInv

\* The grants of a minute are finitely many, before a step and after it.
LEMMA GrantsAreFinite ==
    ASSUME LimiterTypes, NEW k \in Keys, NEW t
    PROVE  IsFiniteSet(GrantsUntil(k, t))
<1>1. DOMAIN granted[k] = 1..Len(granted[k]) /\ Len(granted[k]) \in Nat
    BY DEF LimiterTypes
<1>2. GrantsUntil(k, t) \subseteq 1..Len(granted[k])
    BY <1>1 DEF GrantsUntil
<1>3. IsFiniteSet(1..Len(granted[k]))
    <2>1. 1 \in Int /\ Len(granted[k]) \in Int
        BY <1>1
    <2> QED BY <2>1, FS_Interval
<1> QED
    BY <1>2, <1>3, CountGrows

LEMMA GrantsFiniteNext ==
    ASSUME LimiterTypes', NEW k \in Keys, NEW t
    PROVE  IsFiniteSet(GrantsUntil(k, t)')
<1>1. DOMAIN granted'[k] = 1..Len(granted'[k]) /\ Len(granted'[k]) \in Nat
    BY DEF LimiterTypes
<1>2. GrantsUntil(k, t)' \subseteq 1..Len(granted'[k])
    BY <1>1 DEF GrantsUntil
<1>3. IsFiniteSet(1..Len(granted'[k]))
    <2>1. 1 \in Int /\ Len(granted'[k]) \in Int
        BY <1>1
    <2> QED BY <2>1, FS_Interval
<1> QED
    BY <1>2, <1>3, CountGrows

LEMMA GrantStep ==
    ASSUME LimiterInv, NEW k \in Keys, Grant(k), now' = now
    PROVE  LimiterTypes' /\ Bucket(k)' /\ Bounded(k)'
<1> DEFINE g == granted[k]
           n == Len(granted[k])
<1>1. LimiterTypes /\ Bucket(k) /\ Bounded(k)
    BY DEF LimiterInv
\* The numbers.
<1>2. /\ n \in Nat /\ now \in Int /\ Minute \in Int /\ Minute >= 1
      /\ Limit \in Int /\ Limit >= 1 /\ Never = -1
      /\ tokens[k] \in Int /\ 0 <= tokens[k] /\ tokens[k] <= Limit
      /\ lastRefill[k] \in Int /\ DOMAIN g = 1..n /\ \A i \in 1..n : g[i] \in Int
    BY <1>1, ClockConstants, LimiterConstants
       DEF ClockConstants, LimiterConstants, LimiterTypes, Times, Never
<1>3. Available(k) \in 1..Limit /\ Window(k) \in Times
    BY <1>1, <1>2 DEF Grant, Available, Window, RefillDue, LimiterTypes
<1>4. /\ tokens' = [tokens EXCEPT ![k] = Available(k) - 1]
      /\ lastRefill' = [lastRefill EXCEPT ![k] = Window(k)]
      /\ granted' = [granted EXCEPT ![k] = Append(g, now)]
      /\ denied' = denied
    BY DEF Grant
<1>5. LimiterTypes'
    <2>1. Available(k) - 1 \in 0..Limit
        BY <1>2, <1>3
    <2>2. Append(g, now) \in Seq(Times)
        BY <1>1 DEF LimiterTypes
    <2> QED BY <1>1, <1>3, <1>4, <2>1, <2>2 DEF LimiterTypes
<1>6. /\ tokens'[k] = Available(k) - 1 /\ lastRefill'[k] = Window(k)
      /\ granted'[k] = Append(g, now) /\ denied'[k] = denied[k]
    BY <1>1, <1>4 DEF LimiterTypes
<1>7. /\ Len(granted'[k]) = n + 1 /\ DOMAIN granted'[k] = 1..(n + 1)
      /\ \A i \in 1..n : granted'[k][i] = g[i]
      /\ granted'[k][n + 1] = now
      /\ \A i \in 1..(n + 1) : i \in 1..n \/ i = n + 1
    BY <1>1, <1>2, <1>6 DEF LimiterTypes
<1> HIDE DEF g, n
\* What the step does to the bucket.
<1>8. Bucket(k)'
    <2>1. CASE RefillDue(k)
        <3>1. Earlier(k)' = n /\ lastRefill'[k] = now
            BY <1>2, <1>6, <1>7, <2>1 DEF Earlier, Available, Window
        <3>2. ASSUME NEW i \in 1..n
              PROVE  /\ g[i] < now /\ g[i] < now + Minute
                     /\ i <= n - Limit => g[i] + Minute <= now
            <4>1. lastRefill[k] # Never
                BY <1>1, <1>2 DEF Bucket, g, n
            <4>2. lastRefill[k] + Minute <= now
                BY <1>2, <2>1, <4>1 DEF RefillDue
            <4>3. /\ g[i] < lastRefill[k] + Minute
                  /\ i <= Earlier(k) => g[i] < lastRefill[k]
                BY <1>1, <4>1 DEF Bucket, g, n
            <4>4. i <= n - Limit => i <= Earlier(k)
                BY <1>2 DEF Earlier, n
            <4>5. g[i] \in Int
                BY <1>2
            <4> QED BY <1>2, <4>2, <4>3, <4>4, <4>5
        <3>3. ASSUME NEW i \in 1..(n + 1)
              PROVE  /\ granted'[k][i] <= now /\ granted'[k][i] < now + Minute
                     /\ i <= n <=> granted'[k][i] < now
                     /\ i <= n - Limit => granted'[k][i] + Minute <= now
            <4>1. CASE i = n + 1
                BY <1>2, <1>7, <4>1
            <4>2. CASE i \in 1..n
                BY SMTT(30), <1>2, <1>7, <3>2, <4>2
            <4> QED BY <1>7, <4>1, <4>2
        <3>4. now <= now /\ now # Never /\ n >= 0
            BY <1>2, <1>3, <3>1, <1>6 DEF Times
        <3> QED BY <1>7, <3>1, <3>3, <3>4 DEF Bucket
    <2>2. CASE ~RefillDue(k)
        <3>1. lastRefill[k] # Never /\ now < lastRefill[k] + Minute
            BY <1>2, <2>2 DEF RefillDue
        <3>2. Earlier(k)' = Earlier(k) /\ lastRefill'[k] = lastRefill[k] /\ Earlier(k) \in Int
            <4>1. tokens'[k] = tokens[k] - 1 /\ lastRefill'[k] = lastRefill[k]
                BY <1>6, <2>2 DEF Available, Window
            <4>2. Earlier(k) = n - (Limit - tokens[k])
                BY DEF Earlier, n
            <4>3. Earlier(k)' = (n + 1) - (Limit - (tokens[k] - 1))
                BY <1>7, <4>1 DEF Earlier
            <4>4. /\ (n + 1) - (Limit - (tokens[k] - 1)) = n - (Limit - tokens[k])
                  /\ n - (Limit - tokens[k]) \in Int
                BY <1>2
            <4> QED BY <4>1, <4>2, <4>3, <4>4
        <3>3. Earlier(k) <= n /\ lastRefill[k] <= now /\ Earlier(k) >= 0
            BY <1>1, <1>2, <3>1 DEF Earlier, Bucket, n
        <3>4. ASSUME NEW i \in 1..(n + 1)
              PROVE  /\ granted'[k][i] <= now /\ granted'[k][i] < lastRefill[k] + Minute
                     /\ i <= Earlier(k) <=> granted'[k][i] < lastRefill[k]
                     /\ i <= Earlier(k) - Limit => granted'[k][i] + Minute <= lastRefill[k]
            <4>1. CASE i = n + 1
                BY SMTT(30), <1>2, <1>7, <3>1, <3>2, <3>3, <4>1
            <4>2. CASE i \in 1..n
                BY <1>1, <1>7, <3>1, <4>2 DEF Bucket, g, n
            <4> QED BY <1>7, <4>1, <4>2
        <3> QED BY <1>7, <3>1, <3>2, <3>3, <3>4 DEF Bucket
    <2> QED BY <2>1, <2>2
<1>9. ASSUME NEW t \in Times PROVE Cardinality(GrantsUntil(k, t)') <= 2 * Limit
    <2>1. CASE ~(t - Minute < now /\ now <= t)
        <3>1. GrantsUntil(k, t)' = GrantsUntil(k, t)
            <4>1. \A i \in 1..(n + 1) : t - Minute < granted'[k][i] /\ granted'[k][i] <= t => i \in 1..n
                BY <1>7, <2>1
            <4>2. \A i \in 1..n : i \in 1..(n + 1)
                BY <1>2
            <4>3. DOMAIN granted[k] = 1..n /\ g = granted[k]
                BY <1>2 DEF g
            <4> QED BY <1>7, <4>1, <4>2, <4>3 DEF GrantsUntil
        <3> QED BY <1>1, <3>1 DEF Bounded
    <2>2. CASE t - Minute < now /\ now <= t
        <3> DEFINE first == n + 2 - 2 * Limit
        <3>1. /\ Earlier(k)' >= n + 1 - Limit /\ Earlier(k)' \in Int
              /\ lastRefill'[k] \in Int /\ lastRefill'[k] # Never /\ t \in Int
            BY SMTT(30), <1>2, <1>3, <1>6, <1>7 DEF Earlier, Times
        <3>2. first \in Int /\ first - 1 = n + 1 - Limit - Limit
            BY <1>2
        <3>3. ASSUME NEW i \in 1..(n + 1), i < first PROVE granted'[k][i] + Minute <= now
            <4>1. i <= Earlier(k)' - Limit
                BY <1>2, <3>1, <3>2, <3>3
            <4>2. granted'[k][i] + Minute <= lastRefill'[k] /\ lastRefill'[k] <= now
                BY <1>7, <1>8, <3>1, <4>1 DEF Bucket
            <4>3. granted'[k][i] \in Int
                BY <1>2, <1>7
            <4> QED BY <1>2, <3>1, <4>2, <4>3
        <3>4. GrantsUntil(k, t)' \subseteq first..(n + 1)
            <4>1. ASSUME NEW i \in GrantsUntil(k, t)' PROVE i \in first..(n + 1)
                <5>1. i \in 1..(n + 1) /\ t - Minute < granted'[k][i] /\ Minute' = Minute
                    BY <1>7, <4>1 DEF GrantsUntil
                <5>2. granted'[k][i] \in Int
                    BY <1>2, <1>7, <5>1
                <5>3. ~(granted'[k][i] + Minute <= now)
                    BY <1>2, <2>2, <3>1, <5>1, <5>2
                <5>4. ~(i < first)
                    BY <3>3, <5>1, <5>3
                <5> HIDE DEF first
                <5> QED BY <1>2, <3>2, <5>1, <5>4
            <4> HIDE DEF first
            <4> QED BY <4>1
        <3>5. /\ Cardinality(first..(n + 1)) = 2 * Limit
              /\ IsFiniteSet(first..(n + 1))
            <4>1. n + 1 \in Int /\ ~(first > n + 1) /\ (n + 1) - first + 1 = 2 * Limit
                BY <1>2
            <4> HIDE DEF first
            <4> QED BY <3>2, <4>1, FS_Interval
        <3> HIDE DEF first
        <3> QED BY <3>4, <3>5, CountGrows
    <2> QED BY <2>1, <2>2
<1>10. ASSUME NEW t \in denied[k] PROVE Cardinality(GrantsUntil(k, t)') >= Limit
    <2>1. GrantsUntil(k, t) \subseteq GrantsUntil(k, t)'
        <3>1. (\A i \in 1..n : i \in 1..(n + 1)) /\ DOMAIN granted[k] = 1..n /\ g = granted[k]
            BY <1>2 DEF g
        <3> QED BY <1>7, <3>1 DEF GrantsUntil
    <2>2. IsFiniteSet(GrantsUntil(k, t)')
        BY <1>5, GrantsFiniteNext
    <2>3. Cardinality(GrantsUntil(k, t)) >= Limit
        BY <1>1 DEF Bounded
    <2>4. /\ Cardinality(GrantsUntil(k, t)) \in Nat /\ Cardinality(GrantsUntil(k, t)') \in Nat
          /\ Cardinality(GrantsUntil(k, t)) <= Cardinality(GrantsUntil(k, t)')
        BY <2>1, <2>2, CountGrows
    <2> QED BY <1>2, <2>3, <2>4
<1> QED
    BY <1>5, <1>6, <1>8, <1>9, <1>10 DEF Bounded

LEMMA DenyStep ==
    ASSUME LimiterInv, NEW k \in Keys, Deny(k), now' = now
    PROVE  LimiterTypes' /\ Bucket(k)' /\ Bounded(k)'
<1> DEFINE g == granted[k]
           n == Len(granted[k])
<1>1. LimiterTypes /\ Bucket(k) /\ Bounded(k)
    BY DEF LimiterInv
<1>2. /\ n \in Nat /\ now \in Int /\ Minute \in Int /\ Minute >= 1
      /\ Limit \in Int /\ Limit >= 1
      /\ tokens[k] \in Int /\ lastRefill[k] \in Int
      /\ DOMAIN g = 1..n /\ \A i \in 1..n : g[i] \in Int
    BY <1>1, ClockConstants, LimiterConstants
       DEF ClockConstants, LimiterConstants, LimiterTypes, Times, Never
<1>3. UNCHANGED <<tokens, lastRefill, granted>> /\ denied' = [denied EXCEPT ![k] = @ \cup {now}]
    BY DEF Deny
<1>4. LimiterTypes' /\ Bucket(k)'
    BY <1>1, <1>3 DEF LimiterTypes, Bucket, Earlier
<1>5. ~RefillDue(k) /\ tokens[k] = 0
    BY <1>2 DEF Deny, Available
<1>6. /\ Earlier(k) = n - Limit /\ n - Limit >= 0
      /\ lastRefill[k] # Never /\ now < lastRefill[k] + Minute
    BY <1>1, <1>2, <1>5 DEF Earlier, RefillDue, Bucket
<1> HIDE DEF g, n
\* A full bucket went in the open window, which began less than a minute ago.
<1>7. Cardinality(GrantsUntil(k, now)) >= Limit
    <2>1. (n - Limit + 1)..n \subseteq GrantsUntil(k, now)
        <3>1. ASSUME NEW i \in (n - Limit + 1)..n PROVE i \in GrantsUntil(k, now)
            <4>1. i \in 1..n /\ ~(i <= Earlier(k))
                BY <1>2, <1>6
            <4>2. g[i] \in Int /\ g[i] <= now /\ ~(g[i] < lastRefill[k])
                BY <1>1, <1>2, <1>6, <4>1 DEF Bucket, g, n
            <4>3. now - Minute < g[i]
                BY <1>2, <1>6, <4>2
            <4> QED BY <1>2, <4>1, <4>2, <4>3 DEF GrantsUntil, g
        <3> QED BY <3>1
    <2>2. Cardinality((n - Limit + 1)..n) = Limit
        <3>1. /\ n - Limit + 1 \in Int /\ n \in Int
              /\ ~(n - Limit + 1 > n) /\ n - (n - Limit + 1) + 1 = Limit
            BY <1>2
        <3> QED BY <3>1, FS_Interval
    <2>3. IsFiniteSet(GrantsUntil(k, now))
        BY <1>1, GrantsAreFinite
    <2>4. /\ Cardinality(GrantsUntil(k, now)) \in Nat
          /\ Cardinality((n - Limit + 1)..n) <= Cardinality(GrantsUntil(k, now))
        BY <2>1, <2>3, CountGrows
    <2> QED BY <1>2, <2>2, <2>4
<1>8. \A t : GrantsUntil(k, t)' = GrantsUntil(k, t)
    BY <1>3 DEF GrantsUntil
<1>9. denied'[k] = denied[k] \cup {now}
    BY <1>1, <1>3 DEF LimiterTypes
<1>10. Bounded(k)'
    BY <1>1, <1>7, <1>8, <1>9 DEF Bounded
<1> QED
    BY <1>4, <1>10

\* A key whose bucket stays keeps all of this while time passes.
LEMMA BucketStays ==
    ASSUME LimiterInv, NEW k \in Keys, now' \in Times, now <= now',
           tokens'[k] = tokens[k], lastRefill'[k] = lastRefill[k],
           granted'[k] = granted[k], denied'[k] = denied[k]
    PROVE  Bucket(k)' /\ Bounded(k)'
<1> USE ClockConstants DEF ClockConstants, Times, Never
<1>1. /\ Bucket(k) /\ Bounded(k) /\ now \in Times /\ granted[k] \in Seq(Times)
      /\ lastRefill[k] \in Times \cup {Never}
    BY DEF LimiterInv, LimiterTypes
<1>2. Bucket(k)'
    BY SMTT(30), <1>1 DEF Bucket, Earlier
<1>3. \A t : GrantsUntil(k, t)' = GrantsUntil(k, t)
    BY DEF GrantsUntil
<1> QED
    BY <1>1, <1>2, <1>3 DEF Bounded

LEMMA LimiterStep == LimiterInv /\ [Next]_vars => LimiterInv'
<1> SUFFICES ASSUME LimiterInv, [Next]_vars PROVE LimiterInv'
    OBVIOUS
<1>1. now \in Times /\ now <= now /\ LimiterTypes
    BY ClockConstants DEF ClockConstants, LimiterInv, LimiterTypes, Times
<1>2. ASSUME NEW k \in Keys, Request(k) PROVE LimiterInv'
    <2>1. now' = now /\ LimiterTypes' /\ Bucket(k)' /\ Bounded(k)'
        BY <1>2, GrantStep, DenyStep DEF Request
    <2>2. \A j \in Keys \ {k} :
            /\ tokens'[j] = tokens[j] /\ lastRefill'[j] = lastRefill[j]
            /\ granted'[j] = granted[j] /\ denied'[j] = denied[j]
        BY <1>1, <1>2 DEF Request, Grant, Deny, LimiterTypes
    <2>3. \A j \in Keys \ {k} : Bucket(j)' /\ Bounded(j)'
        BY <1>1, <2>1, <2>2, BucketStays
    <2> QED BY <2>1, <2>3 DEF LimiterInv
<1>3. ASSUME UNCHANGED limiterVars, now' \in Times, now <= now' PROVE LimiterInv'
    <2>1. LimiterTypes'
        BY <1>1, <1>3 DEF LimiterTypes, limiterVars
    <2>2. \A k \in Keys : Bucket(k)' /\ Bounded(k)'
        BY <1>3, BucketStays DEF limiterVars
    <2> QED BY <2>1, <2>2 DEF LimiterInv
<1>4. CASE Wait
    <2>1. now' \in Times /\ now <= now'
        BY <1>1, <1>4, ClockConstants DEF Wait, Tick, Times, ClockConstants
    <2> QED BY <1>3, <1>4, <2>1 DEF Wait
<1>5. ASSUME NEW a \in Alerts, Threat(a) PROVE LimiterInv'
    BY <1>1, <1>3, <1>5 DEF Threat, DispatchThreat
<1>6. CASE UNCHANGED vars
    BY <1>1, <1>3, <1>6 DEF vars
<1> QED
    BY <1>2, <1>4, <1>5, <1>6 DEF Next

\* No minute sees more than twice the limit of one key's requests, and a key is
\* only turned away with its full limit granted in the minute before (Allow),
\* whenever the requests come.
THEOREM RateIsBoundedAlways == Spec => []RateIsBounded
<1>1. LimiterInv => RateIsBounded
    BY DEF LimiterInv, Bounded, RateIsBounded
<1> QED
    BY LimiterStart, LimiterStep, <1>1, PTL DEF Spec
=============================================================================

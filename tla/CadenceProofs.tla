--------------------------- MODULE CadenceProofs ---------------------------
(***************************************************************************)
(* That the stale label trusts every schedule the scheduler sets, and that *)
(* failures undo the backoff: for every base interval, every tiers and     *)
(* multipliers, every jitter and every delay of the workers that fits into *)
(* the margin.                                                             *)
(***************************************************************************)
EXTENDS Cadence, FiniteSetTheorems, TLAPS

(* Products and quotients.                                                  *)

\* A product grows with each of its factors.
LEMMA ProductGrows ==
    ASSUME NEW a \in Nat, NEW b \in Nat, NEW c \in Nat, a <= b
    PROVE  a * c <= b * c /\ c * a <= c * b /\ a * c \in Nat /\ c * a \in Nat
OBVIOUS

\* A product of numbers is a number.
LEMMA ProductIsNat == ASSUME NEW a \in Nat, NEW b \in Nat PROVE a * b \in Nat
OBVIOUS

\* A number is at least its product with one.
LEMMA TimesOne == ASSUME NEW a \in Nat PROVE a * 1 <= a
OBVIOUS

\* A factor that is not zero makes nothing smaller.
LEMMA FactorGrows ==
    ASSUME NEW a \in Nat, NEW c \in Nat \ {0}
    PROVE  a <= a * c /\ a * c \in Nat
<1>1. 1 * a <= c * a
  BY ProductGrows
<1> QED
  BY <1>1

\* The jitter grows with the interval.
LEMMA JitterGrows ==
    ASSUME NEW a \in Nat, NEW b \in Nat, a <= b
    PROVE  Jitter(a) \in Nat /\ Jitter(a) <= Jitter(b)
<1>1. a \div 10 \in Nat /\ b \div 10 \in Nat /\ a \div 10 <= b \div 10
  OBVIOUS
<1>2. MinJitter \in Nat
  BY CadenceAssumption
<1> QED
  BY <1>1, <1>2 DEF Jitter, AtLeast

\* Halving the streak and doubling the factor does not raise their product.
LEMMA HalvedAndDoubled ==
    ASSUME NEW s \in Nat, NEW f \in Nat, NEW g \in Nat, NEW p \in Nat, g <= f * 2, s * f <= p
    PROVE  (s \div 2) * g <= p
<1>1. s \div 2 \in Nat /\ (s \div 2) * 2 <= s
  OBVIOUS
<1>2. (s \div 2) * g <= (s \div 2) * (f * 2)
  BY <1>1, ProductGrows
<1>3. (s \div 2) * (f * 2) = ((s \div 2) * 2) * f
  BY <1>1
<1>4. ((s \div 2) * 2) * f <= s * f
  BY <1>1, ProductGrows
<1>5. (s \div 2) * g \in Nat /\ s * f \in Nat
  BY <1>1, ProductIsNat
<1> QED
  BY <1>2, <1>3, <1>4, <1>5

\* A unit of time that passes keeps what has passed and what is left within a bound.
LEMMA TimeMoves ==
    ASSUME NEW a \in Nat, NEW d \in Nat, NEW x \in Nat, NEW r \in Nat, d > 0, x <= a + 1
    PROVE  a + d <= r => x + (d - 1) <= r
OBVIOUS

-----------------------------------------------------------------------------
(* The backoff.                                                             *)

\* It is one of the multipliers, hence at most the last of them.
LEMMA BackoffIsBounded ==
    ASSUME NEW n \in Nat
    PROVE  /\ Backoff(n) \in Nat \ {0}
           /\ Backoff(n) <= BACKOFF_MAX_MULTIPLIER
           /\ BACKOFF_MAX_MULTIPLIER \in Nat \ {0}
<1> DEFINE reached == {i \in 1 .. Len(Tiers) : n >= Tiers[i]}
<1>1. Len(Tiers) \in Nat
  BY CadenceAssumption
<1>2. IsFiniteSet(1 .. Len(Tiers)) /\ Cardinality(1 .. Len(Tiers)) = Len(Tiers)
  <2>1. /\ IsFiniteSet(1 .. Len(Tiers))
        /\ Cardinality(1 .. Len(Tiers)) = IF 1 > Len(Tiers) THEN 0 ELSE Len(Tiers) - 1 + 1
    BY <1>1, FS_Interval
  <2> QED
    BY <1>1, <2>1
<1>3. Cardinality(reached) \in 0 .. Len(Tiers)
  BY <1>1, <1>2, FS_Subset, FS_CardinalityType
<1> HIDE DEF reached
<1>4. 1 + Cardinality(reached) \in 1 .. Len(Multipliers) /\ Len(Multipliers) \in 1 .. Len(Multipliers)
  BY <1>1, <1>3, CadenceAssumption
<1>5. /\ Multipliers[1 + Cardinality(reached)] \in Nat \ {0}
      /\ Multipliers[1 + Cardinality(reached)] <= Multipliers[Len(Multipliers)]
      /\ Multipliers[Len(Multipliers)] \in Nat \ {0}
  BY <1>4, CadenceAssumption
<1> QED
  BY <1>5 DEF Backoff, BACKOFF_MAX_MULTIPLIER, reached

\* Below the first tier there is none.
LEMMA NoBackoffBelow ==
    ASSUME NEW n \in Nat, Tiers # << >>, n < Tiers[1]
    PROVE  Backoff(n) = 1
<1>1. \A i \in 1 .. Len(Tiers) : Tiers[i] \in Nat /\ Tiers[1] <= Tiers[i]
  BY CadenceAssumption
<1>2. 1 \in 1 .. Len(Tiers)
  BY CadenceAssumption
<1>3. {i \in 1 .. Len(Tiers) : n >= Tiers[i]} = {}
  BY <1>1, <1>2
<1>4. Cardinality({i \in 1 .. Len(Tiers) : n >= Tiers[i]}) = 0
  BY <1>3, FS_EmptySet
<1>5. Multipliers[1 + 0] = 1
  BY CadenceAssumption
<1> QED
  BY <1>4, <1>5 DEF Backoff

-----------------------------------------------------------------------------
(* The gaps.                                                                *)

\* The longest gap with a dashboard open.
Short == Base * BACKOFF_MAX_MULTIPLIER

\* How old a status is at most when its job fires: the longest gap set with the idle
\* multiplier i, with its jitter, and what pushes have multiplied it by since.
Longest(i) == Short * i + Jitter(Short * i)
Reach(i, p) == Longest(i) * p

\* The constants as the arithmetic below needs them.
LEMMA Constants ==
    /\ Base \in Nat \ {0} /\ IDLE_MULTIPLIER \in Nat \ {0}
    /\ MinJitter \in Nat /\ MinAge \in Nat /\ Slack \in Nat /\ MaxStreak \in Nat
    /\ Horizon \in Nat /\ MaxFactor \in Nat \ {0} /\ MaxPushed \in Nat \ {0}
BY CadenceAssumption

\* The longest gap with a dashboard open is the base interval at least.
LEMMA ShortIsLong == Short \in Nat \ {0} /\ Base <= Short
<1>1. BACKOFF_MAX_MULTIPLIER \in Nat \ {0}
  BY BackoffIsBounded
<1>2. Base <= Base * BACKOFF_MAX_MULTIPLIER /\ Base * BACKOFF_MAX_MULTIPLIER \in Nat
  BY <1>1, Constants, FactorGrows
<1> QED
  BY <1>2, Constants DEF Short

\* What a schedule may reach is a number.
LEMMA ReachIsNat ==
    ASSUME NEW p \in Nat, NEW i \in {1, IDLE_MULTIPLIER}
    PROVE  Longest(i) \in Nat /\ Reach(i, p) \in Nat
<1>1. Short * i \in Nat
  BY ShortIsLong, Constants, FactorGrows
<1>2. Jitter(Short * i) \in Nat
  BY <1>1, JitterGrows
<1>3. Longest(i) \in Nat
  BY <1>1, <1>2 DEF Longest
<1> QED
  BY <1>3, ProductIsNat DEF Reach

\* The threshold is twice the longest gap.
LEMMA ThresholdIsTwice ==
    /\ LongestGap = Short * IDLE_MULTIPLIER
    /\ LongestGap \in Nat /\ Short <= LongestGap
    /\ StaleAge = LongestGap * 2 /\ StaleAge \in Nat
<1> DEFINE b == BACKOFF_MAX_MULTIPLIER
<1>b. b \in Nat \ {0}
  BY BackoffIsBounded
<1>s. Short \in Nat \ {0} /\ Short = Base * b
  BY ShortIsLong DEF Short
<1>1. LongestGap = Short * IDLE_MULTIPLIER
  BY <1>s DEF LongestGap
<1>2. StaleAge = LongestGap * 2
  <2> HIDE DEF b
  <2>1. Base * (b * IDLE_MULTIPLIER) = (Base * b) * IDLE_MULTIPLIER
    BY <1>b, Constants
  <2> QED
    BY <2>1 DEF StaleAge, LongestGap, b
<1>3. LongestGap \in Nat /\ Short <= LongestGap
  BY <1>1, <1>s, Constants, FactorGrows
<1>4. LongestGap * 2 \in Nat
  BY <1>3
<1> QED
  BY <1>1, <1>2, <1>3, <1>4

\* A gap s with a jitter j, repeated n times, leaves room for the slack c.
LEMMA MarginRepeats ==
    ASSUME NEW s \in Nat, NEW j \in Nat, NEW c \in Nat, NEW n \in Nat \ {0}, j + c <= s
    PROVE  s * n + j * n + c <= (s * n) * 2
<1>1. (j + c) * n <= s * n
  BY ProductGrows
<1>2. (j + c) * n = j * n + c * n
  OBVIOUS
<1>3. c <= c * n
  BY FactorGrows
<1>4. j * n \in Nat /\ c * n \in Nat /\ s * n \in Nat
  BY ProductIsNat
<1> QED
  BY <1>1, <1>2, <1>3, <1>4

\* A schedule that has been stretched at all fits twice into its stretched gap.
LEMMA ReachIsTwice ==
    ASSUME NEW p \in Nat \ {0}, NEW i \in {1, IDLE_MULTIPLIER},
           i = IDLE_MULTIPLIER \/ \E k \in Nat \ {0} : p = k * IDLE_MULTIPLIER
    PROVE  Reach(i, p) + Slack <= (Short * (i * p)) * 2
<1>c. Short \in Nat /\ Slack \in Nat /\ IDLE_MULTIPLIER \in Nat \ {0}
  BY ShortIsLong, Constants
<1>m. /\ Jitter(LongestGap) + Slack <= LongestGap
      /\ Jitter(Short) * IDLE_MULTIPLIER + Slack <= LongestGap
  BY MarginAssumption DEF Short
<1>1. CASE i = IDLE_MULTIPLIER
  <2> DEFINE g == LongestGap
             j == Jitter(LongestGap)
  <2>1. g \in Nat /\ j \in Nat /\ g = Short * i
    BY <1>1, ThresholdIsTwice, JitterGrows
  <2>2. Reach(i, p) = (g + j) * p
    BY <2>1 DEF Reach, Longest
  <2>3. j + Slack <= g
    BY <1>m
  <2> HIDE DEF g, j
  <2>4. g * p + j * p + Slack <= (g * p) * 2
    BY <1>c, <2>1, <2>3, MarginRepeats
  <2>5. (g + j) * p = g * p + j * p
    BY <2>1
  <2>6. (Short * i) * p = Short * (i * p)
    BY <1>c
  <2> QED
    BY <2>1, <2>2, <2>4, <2>5, <2>6
<1>2. CASE i # IDLE_MULTIPLIER
  <2>1. PICK k \in Nat \ {0} : p = k * IDLE_MULTIPLIER
    BY <1>2
  <2>i. i = 1
    BY <1>2
  <2> DEFINE h == Jitter(Short)
             g == Short * IDLE_MULTIPLIER
             j == h * IDLE_MULTIPLIER
  <2>2. h \in Nat /\ Short * 1 = Short
    BY <1>c, JitterGrows
  <2>3. g \in Nat /\ j \in Nat
    BY <1>c, <2>2, ProductIsNat
  <2>4. j + Slack <= g
    BY <1>m, ThresholdIsTwice
  <2>5. Reach(i, p) = (Short + h) * (k * IDLE_MULTIPLIER)
    BY <2>1, <2>2, <2>i DEF Reach, Longest
  <2>6. g * k + j * k + Slack <= (g * k) * 2
    <3> HIDE DEF g, j
    <3> QED
      BY <1>c, <2>3, <2>4, MarginRepeats
  <2> HIDE DEF h
  <2>7. (Short + h) * (k * IDLE_MULTIPLIER) = g * k + j * k
    BY <1>c, <2>2
  <2>8. g * k = Short * p /\ i * p = p
    BY <1>c, <2>1, <2>i
  <2> HIDE DEF g, j
  <2> QED
    BY <2>5, <2>6, <2>7, <2>8
<1> QED
  BY <1>1, <1>2

\* The margin of the stale age holds all of it, and the delay of the workers.
LEMMA ReachIsNotStale ==
    ASSUME NEW p \in Nat \ {0}, NEW i \in {1, IDLE_MULTIPLIER},
           p # 1 => \E k \in Nat \ {0} : p = k * IDLE_MULTIPLIER,
           NEW a \in Nat, a <= Reach(i, p) + Slack
    PROVE  \/ a <= StaleAge
           \/ i * p > IDLE_MULTIPLIER /\ a * IDLE_MULTIPLIER <= StaleAge * (i * p)
<1>c. Short \in Nat /\ Slack \in Nat /\ IDLE_MULTIPLIER \in Nat \ {0}
  BY ShortIsLong, Constants
<1>r. Reach(i, p) \in Nat
  BY ReachIsNat
<1>1. CASE i = 1 /\ p = 1
  <2>1. Reach(i, p) = Short + Jitter(Short)
    <3>1. Short * 1 = Short /\ Jitter(Short) \in Nat
      BY <1>c, JitterGrows
    <3> QED
      BY <1>1, <1>c, <3>1 DEF Reach, Longest
  <2>2. Jitter(Short) \in Nat /\ Jitter(LongestGap) \in Nat /\ Jitter(Short) <= Jitter(LongestGap)
    BY <1>c, ThresholdIsTwice, JitterGrows
  <2>3. Jitter(LongestGap) + Slack <= LongestGap
    BY MarginAssumption
  <2> QED
    BY <1>c, <2>1, <2>2, <2>3, ThresholdIsTwice
<1>2. CASE i # 1 \/ p # 1
  <2> DEFINE w == i * p
  <2>1. w \in Nat /\ Short * w \in Nat
    BY <1>c, ProductIsNat
  <2>2. a <= (Short * w) * 2
    <3>1. i = IDLE_MULTIPLIER \/ \E k \in Nat \ {0} : p = k * IDLE_MULTIPLIER
      BY <1>2
    <3>2. Reach(i, p) + Slack <= (Short * w) * 2
      BY <3>1, ReachIsTwice
    <3> HIDE DEF w
    <3> QED
      BY <1>c, <1>r, <2>1, <3>2
  <2> HIDE DEF w
  <2>3. CASE w <= IDLE_MULTIPLIER
    <3>1. Short * w <= Short * IDLE_MULTIPLIER
      BY <1>c, <2>1, <2>3, ProductGrows
    <3> QED
      BY <1>c, <2>1, <2>2, <3>1, ThresholdIsTwice
  <2>4. CASE w > IDLE_MULTIPLIER
    <3>1. a * IDLE_MULTIPLIER <= ((Short * w) * 2) * IDLE_MULTIPLIER
      BY <1>c, <2>1, <2>2, ProductGrows
    <3>2. ((Short * w) * 2) * IDLE_MULTIPLIER = ((Short * IDLE_MULTIPLIER) * 2) * w
      BY <1>c, <2>1
    <3> QED
      BY <2>4, <3>1, <3>2, ThresholdIsTwice DEF w
  <2> QED
    BY <1>c, <2>1, <2>3, <2>4
<1> QED
  BY <1>1, <1>2

\* A schedule that is set is within the longest gap of its idle multiplier, and
\* below the first tier it is the base interval's.
LEMMA EffectiveIsBounded ==
    ASSUME NEW n \in Nat, NEW on, NEW adaptive \in BOOLEAN, TypeOK
    PROVE  /\ Idle(on) \in {1, IDLE_MULTIPLIER}
           /\ Effective(n, on, adaptive) \in Nat
           /\ Effective(n, on, adaptive) <= Short * Idle(on)
           /\ (Tiers # << >> /\ n < Tiers[1]) => Effective(n, on, adaptive) = Base * Idle(on)
<1> DEFINE m == IF adaptive THEN Backoff(n) ELSE 1
<1>1. Idle(on) \in {1, IDLE_MULTIPLIER}
  BY DEF Idle
<1>2. m \in Nat \ {0} /\ m <= BACKOFF_MAX_MULTIPLIER /\ BACKOFF_MAX_MULTIPLIER \in Nat \ {0}
  BY BackoffIsBounded
<1>3. (Tiers # << >> /\ n < Tiers[1]) => m = 1
  BY NoBackoffBelow
<1>4. Effective(n, on, adaptive) = Base * m * Idle(on)
  BY DEF Effective
<1> HIDE DEF m
<1>5. Base * m \in Nat /\ Base * m <= Short
  BY <1>2, Constants, ProductGrows DEF Short
<1>6. Base * m * Idle(on) \in Nat /\ Base * m * Idle(on) <= Short * Idle(on)
  <2>1. Idle(on) \in Nat /\ Short \in Nat
    BY <1>1, Constants, ShortIsLong
  <2> QED
    BY <2>1, <1>5, ProductGrows
<1>7. Base * 1 = Base
  BY Constants
<1> QED
  BY <1>1, <1>3, <1>4, <1>6, <1>7

-----------------------------------------------------------------------------
(* The inductive invariant.                                                 *)

\* A schedule that holds: no trigger was skipped, and the job is not paused.
Kept == ~missed /\ due # Paused

\* While it holds, what has passed and what is left until the job fires stay within
\* its reach; from then on only the trigger's own delay is added.
AgeBounded ==
    Kept => IF phase = "none" THEN age + due <= Reach(idle, pushed)
                              ELSE age <= Reach(idle, pushed) + delay

\* Pushes multiply by the idle multiplier, and by nothing else.
PushesMultiply == pushed # 1 => \E k \in Nat \ {0} : pushed = k * IDLE_MULTIPLIER

\* Every failure since the best streak has halved what is left of it.
HalvingCounts == streak * factor <= peak

IInv == TypeOK /\ AgeBounded /\ PushesMultiply /\ HalvingCounts /\ FailuresShortenTheGap

-----------------------------------------------------------------------------
(* Types.                                                                   *)

\* The streak stays a number within its bound.
LEMMA BumpedIsBounded ==
    ASSUME NEW n \in 0 .. MaxStreak, NEW ok \in BOOLEAN
    PROVE  Bumped(n, ok) \in 0 .. MaxStreak
<1>1. n \div 2 \in Nat /\ n \div 2 <= n
  BY Constants
<1> QED
  BY <1>1, Constants DEF Bumped, AtMost

\* Every step keeps the types.
LEMMA StepKeepsTypes == TypeOK /\ [Next]_vars => TypeOK'
<1> SUFFICES ASSUME TypeOK, [Next]_vars PROVE TypeOK'
  OBVIOUS
<1> USE Constants DEF TypeOK, Paused
<1>1. CASE Tick
  <2>1. age' \in 0 .. Horizon
    BY <1>1 DEF Tick, AtMost
  <2>2. delay' \in 0 .. Slack
    BY <1>1 DEF Tick
  <2>3. due' \in Nat \union {Paused}
    BY <1>1 DEF Tick
  <2> QED
    BY <1>1, <2>1, <2>2, <2>3 DEF Tick, marks
<1>2. CASE Fire
  <2>1. Base \div 10 \in Nat /\ Jitter(Base) \in Nat
    BY JitterGrows
  <2>2. due' \in Nat
    BY <1>2, <2>1 DEF Fire, AtLeast
  <2> QED
    BY <1>2, <2>2 DEF Fire, Accepted, model, marks
<1>3. CASE Sweep
  BY <1>3 DEF Sweep, Accepted, model, marks
<1>4. CASE Trigger
  BY <1>4 DEF Trigger, Accepted, model, marks
<1>5. CASE Begin
  BY <1>5 DEF Begin, marks
<1>6. CASE Skip
  BY <1>6 DEF Skip, Done, model
<1>7. CASE Wake
  BY <1>7 DEF Wake, model, marks
<1>8. CASE Sleep
  <2>1. due' \in Nat \union {Paused} /\ pushed' \in 1 .. MaxPushed
    <3>1. CASE due \in {0, Paused}
      BY <1>8, <3>1 DEF Sleep
    <3>2. CASE due \notin {0, Paused}
      <4>1. due \in Nat /\ pushed \in Nat \ {0}
        BY <3>2
      <4>2. due * IDLE_MULTIPLIER \in Nat /\ pushed <= pushed * IDLE_MULTIPLIER /\ pushed * IDLE_MULTIPLIER \in Nat
        BY <4>1, FactorGrows
      <4>3. due' = due * IDLE_MULTIPLIER /\ pushed' = pushed * IDLE_MULTIPLIER /\ pushed' <= MaxPushed
        BY <1>8, <3>2 DEF Sleep
      <4> QED
        BY <4>1, <4>2, <4>3
    <3> QED
      BY <3>1, <3>2
  <2> QED
    BY <1>8, <2>1 DEF Sleep, model
<1>9. CASE Sync
  BY <1>9 DEF Sync, model, marks
<1>10. CASE SetThrottle
  BY <1>10 DEF SetThrottle, model, marks
<1>13. CASE Restart
  <2>1. /\ streak' = 0 /\ delay' = 0 /\ due' = Paused
        /\ UNCHANGED <<age, peak, factor, idle, pushed>>
    BY <1>13 DEF Restart, marks
  <2>2. /\ streak' \in 0 .. MaxStreak /\ delay' \in 0 .. Slack /\ due' \in Nat \union {Paused}
        /\ age' \in 0 .. Horizon /\ peak' \in 0 .. MaxStreak /\ factor' \in 1 .. MaxFactor
        /\ idle' \in {1, IDLE_MULTIPLIER} /\ pushed' \in 1 .. MaxPushed
    BY <2>1
  <2>3. /\ throttle' = TRUE /\ watched' = FALSE /\ phase' = "none"
        /\ UNCHANGED <<online, setting, missed>>
    BY <1>13 DEF Restart, marks
  <2>4. /\ throttle' \in BOOLEAN /\ watched' \in BOOLEAN /\ phase' \in {"none", "queued", "running"}
        /\ online' \in BOOLEAN /\ setting' \in BOOLEAN /\ missed' \in BOOLEAN
    BY <2>3, Zenon
  <2> QED
    BY <2>2, <2>4
<1>11. ASSUME NEW ok \in BOOLEAN, Finish(ok) PROVE TypeOK'
  <2>1. streak' \in 0 .. MaxStreak /\ Bumped(streak, ok) \in Nat
    BY <1>11, BumpedIsBounded DEF Finish
  <2>2. \A adaptive \in BOOLEAN : NextGap(ok, adaptive) \in Nat /\ Jitter(NextGap(ok, adaptive)) \in Nat
    BY <2>1, EffectiveIsBounded, JitterGrows DEF NextGap
  <2>3. due' \in Nat
    BY <1>11, <2>2 DEF Finish
  <2>4. idle' \in {1, IDLE_MULTIPLIER}
    BY <1>11 DEF Finish, Idle
  <2>5. factor' \in 1 .. MaxFactor
    BY <1>11 DEF Finish, AtMost
  <2>6. peak' \in 0 .. MaxStreak
    BY <1>11, <2>1 DEF Finish
  <2>7. age' \in 0 .. Horizon /\ delay' \in 0 .. Slack /\ pushed' \in 1 .. MaxPushed
    BY <1>11 DEF Finish, Done
  <2>8. phase' = "none" /\ online' \in BOOLEAN /\ missed' \in BOOLEAN
    BY <1>11, Zenon DEF Finish, Done
  <2>9. UNCHANGED <<watched, setting, throttle>>
    BY <1>11 DEF Finish
  <2> QED
    BY <2>1, <2>3, <2>4, <2>5, <2>6, <2>7, <2>8, <2>9
<1>12. CASE UNCHANGED vars
  BY <1>12 DEF vars
<1> QED
  BY <1>1, <1>2, <1>3, <1>4, <1>5, <1>6, <1>7, <1>8, <1>9, <1>10, <1>11, <1>12, <1>13 DEF Next

-----------------------------------------------------------------------------
(* How old a status gets.                                                   *)

\* A step that leaves the schedule's history alone keeps its reach.
LEMMA SameReach ==
    ASSUME TypeOK, UNCHANGED <<idle, pushed>>
    PROVE  Reach(idle, pushed)' = Reach(idle, pushed) /\ Reach(idle, pushed) \in Nat
<1>1. Reach(idle, pushed)' = Reach(idle, pushed)
  BY DEF Reach, Longest, Short, Jitter, AtLeast, BACKOFF_MAX_MULTIPLIER
<1>2. pushed \in Nat /\ idle \in {1, IDLE_MULTIPLIER}
  BY Constants DEF TypeOK
<1> QED
  BY <1>1, <1>2, ReachIsNat

\* A status has not outlived its schedule by more than the trigger's delay.
LEMMA AgeWithinReach ==
    ASSUME TypeOK, AgeBounded, Kept
    PROVE  age <= Reach(idle, pushed) + delay
<1>1. pushed \in Nat /\ idle \in {1, IDLE_MULTIPLIER} /\ age \in Nat /\ due \in Nat /\ delay \in Nat
  BY Constants DEF TypeOK, Kept, Paused
<1>2. Reach(idle, pushed) \in Nat
  BY <1>1, ReachIsNat
<1> QED
  BY <1>1, <1>2 DEF AgeBounded

\* A dashboard that closes stretches what is left, never what has passed.
LEMMA SleepKeepsAge ==
    ASSUME TypeOK, AgeBounded, Sleep
    PROVE  AgeBounded'
<1>t. /\ age \in Nat /\ due \in Nat \union {Paused} /\ delay \in Nat /\ pushed \in Nat \ {0}
      /\ idle \in {1, IDLE_MULTIPLIER}
  BY Constants DEF TypeOK
<1>u. UNCHANGED <<age, phase, delay, idle, missed>>
  BY DEF Sleep, model
<1>1. CASE due \in {0, Paused}
  <2>1. due' = due /\ pushed' = pushed
    BY <1>1 DEF Sleep
  <2>2. Reach(idle, pushed)' = Reach(idle, pushed)
    BY <2>1, <1>u, SameReach
  <2> QED
    BY <2>1, <2>2, <1>u DEF AgeBounded, Kept
<1>2. CASE due \notin {0, Paused}
  <2>1. due' = due * IDLE_MULTIPLIER /\ pushed' = pushed * IDLE_MULTIPLIER /\ due \in Nat
    BY <1>2, <1>t DEF Sleep
  <2> SUFFICES ASSUME Kept'
               PROVE  IF phase' = "none" THEN age' + due' <= Reach(idle, pushed)'
                                         ELSE age' <= Reach(idle, pushed)' + delay'
    BY DEF AgeBounded
  <2>2. Kept
    BY <1>2, <1>u DEF Kept
  <2> DEFINE r == Reach(idle, pushed)
  <2>3. r \in Nat
    BY <1>t, ReachIsNat
  <2>4. Reach(idle, pushed)' = r * IDLE_MULTIPLIER
    <3>1. Reach(idle, pushed)' = Longest(idle) * (pushed * IDLE_MULTIPLIER)
      BY <2>1, <1>u DEF Reach, Longest, Short, Jitter, AtLeast, BACKOFF_MAX_MULTIPLIER
    <3>2. Longest(idle) \in Nat
      BY <1>t, ReachIsNat
    <3>3. Longest(idle) * (pushed * IDLE_MULTIPLIER) = (Longest(idle) * pushed) * IDLE_MULTIPLIER
      BY <3>2, <1>t, Constants
    <3> QED
      BY <3>1, <3>3 DEF Reach
  <2>5. /\ phase = "none" => age + due <= r
        /\ phase # "none" => age <= r + delay
    BY <2>2 DEF AgeBounded
  <2> HIDE DEF r
  <2>6. r <= r * IDLE_MULTIPLIER /\ r * IDLE_MULTIPLIER \in Nat
    BY <2>3, Constants, FactorGrows
  <2>7. CASE phase = "none"
    <3>1. (age + due) * IDLE_MULTIPLIER <= r * IDLE_MULTIPLIER
      BY <2>1, <2>3, <2>5, <2>7, <1>t, Constants, ProductGrows
    <3>2. (age + due) * IDLE_MULTIPLIER = age * IDLE_MULTIPLIER + due * IDLE_MULTIPLIER
      BY <2>1, <1>t, Constants
    <3>3. /\ age <= age * IDLE_MULTIPLIER /\ age * IDLE_MULTIPLIER \in Nat
          /\ due * IDLE_MULTIPLIER \in Nat
      BY <2>1, <1>t, Constants, FactorGrows
    <3>4. age + due * IDLE_MULTIPLIER <= r * IDLE_MULTIPLIER
      BY <3>1, <3>2, <3>3, <2>6, <1>t
    <3> QED
      BY <3>4, <2>1, <2>4, <2>7, <1>u
  <2>8. CASE phase # "none"
    <3>1. age <= r * IDLE_MULTIPLIER + delay
      BY <2>3, <2>5, <2>6, <2>8, <1>t
    <3> QED
      BY <3>1, <2>4, <2>8, <1>u
  <2> QED
    BY <2>7, <2>8
<1> QED
  BY <1>1, <1>2

\* Its push is one more factor.
LEMMA SleepMultiplies ==
    ASSUME TypeOK, PushesMultiply, Sleep
    PROVE  PushesMultiply'
<1>1. CASE pushed' = pushed
  BY <1>1 DEF PushesMultiply
<1>2. CASE pushed' = pushed * IDLE_MULTIPLIER
  <2>1. pushed \in Nat \ {0}
    BY Constants DEF TypeOK
  <2> QED
    BY <1>2, <2>1 DEF PushesMultiply
<1> QED
  BY <1>1, <1>2 DEF Sleep

\* A schedule that has just been set is within its reach.
LEMMA FinishKeepsAge ==
    ASSUME TypeOK, NEW ok \in BOOLEAN, Finish(ok)
    PROVE  AgeBounded'
<1>1. Bumped(streak, ok) \in Nat
  BY BumpedIsBounded, Constants DEF TypeOK
<1>2. PICK adaptive \in BOOLEAN : \E j \in 0 .. Jitter(NextGap(ok, adaptive)) :
          due' = NextGap(ok, adaptive) + j
  BY DEF Finish
<1> DEFINE gap == NextGap(ok, adaptive)
           most == Short * idle'
<1>3. idle' = Idle(throttle) /\ idle' \in {1, IDLE_MULTIPLIER}
  BY DEF Finish, Idle
<1>4. gap \in Nat /\ gap <= most
  BY <1>1, <1>3, EffectiveIsBounded DEF NextGap
<1>5. most \in Nat
  BY <1>3, ShortIsLong, Constants, FactorGrows
<1>6. Jitter(gap) \in Nat /\ Jitter(most) \in Nat /\ Jitter(gap) <= Jitter(most)
  BY <1>4, <1>5, JitterGrows
<1>7. PICK j \in 0 .. Jitter(gap) : due' = gap + j
  BY <1>2
<1>8. pushed' = 1 /\ phase' = "none" /\ age' = 0
  BY DEF Finish, Done
<1>9. Reach(idle, pushed)' = most + Jitter(most)
  <2>1. Reach(idle, pushed)' = (most + Jitter(most)) * 1
    BY <1>8 DEF Reach, Longest, Short, Jitter, AtLeast, BACKOFF_MAX_MULTIPLIER
  <2>2. most + Jitter(most) \in Nat
    BY <1>5, <1>6
  <2> HIDE DEF most
  <2> QED
    BY <2>1, <2>2
<1> HIDE DEF gap, most
<1>10. due' <= most + Jitter(most) /\ due' \in Nat
  BY <1>4, <1>5, <1>6, <1>7
<1> QED
  BY <1>8, <1>9, <1>10 DEF AgeBounded

\* No step makes a status outlive its schedule.
LEMMA StepKeepsAge == TypeOK /\ TypeOK' /\ AgeBounded /\ [Next]_vars => AgeBounded'
<1> SUFFICES ASSUME TypeOK, TypeOK', AgeBounded, [Next]_vars PROVE AgeBounded'
  OBVIOUS
<1>t. /\ age \in Nat /\ due \in Nat \union {Paused} /\ delay \in Nat
      /\ age' \in Nat /\ delay' \in Nat
  BY Constants DEF TypeOK
<1>1. CASE Tick
  <2>1. UNCHANGED <<idle, pushed, missed, phase>>
    BY <1>1 DEF Tick, marks
  <2>2. Reach(idle, pushed)' = Reach(idle, pushed) /\ Reach(idle, pushed) \in Nat
    BY <2>1, SameReach
  <2>3. due # 0 /\ due' = (IF due = Paused THEN Paused ELSE due - 1) /\ age' <= age + 1
    BY <1>1, <1>t, Constants DEF Tick, AtMost
  <2> SUFFICES ASSUME Kept'
               PROVE  IF phase = "none" THEN age' + due' <= Reach(idle, pushed)
                                        ELSE age' <= Reach(idle, pushed) + delay'
    BY <2>1, <2>2 DEF AgeBounded
  <2>4. Kept /\ due \in Nat \ {0} /\ due' = due - 1
    BY <2>1, <2>3, <1>t DEF Kept, Paused
  <2>5. CASE phase = "none"
    <3>1. age + due <= Reach(idle, pushed)
      BY <2>4, <2>5 DEF AgeBounded
    <3>2. age' + (due - 1) <= Reach(idle, pushed)
      BY <2>2, <2>3, <2>4, <3>1, <1>t, TimeMoves
    <3> QED
      BY <2>4, <2>5, <3>2
  <2>6. CASE phase # "none"
    <3>1. delay' = delay + 1
      BY <1>1, <2>6 DEF Tick
    <3> QED
      BY <2>2, <2>3, <2>4, <2>6, <3>1, <1>t DEF AgeBounded
  <2> QED
    BY <2>5, <2>6
<1>2. CASE /\ Accepted /\ UNCHANGED <<age, idle, pushed, missed>>
           /\ due = 0 \/ (phase = "none" /\ due' = due)
  <2>1. Reach(idle, pushed)' = Reach(idle, pushed) /\ Reach(idle, pushed) \in Nat
    BY <1>2, SameReach
  <2>2. Kept' => Kept
    BY <1>2 DEF Kept, Paused
  <2>3. CASE phase = "none"
    <3>1. phase' = "queued" /\ delay' = 0
      BY <1>2, <2>3 DEF Accepted
    <3>2. Kept => due \in Nat
      BY <1>t DEF Kept
    <3> QED
      BY <1>2, <2>1, <2>2, <2>3, <3>1, <3>2, <1>t DEF AgeBounded
  <2>4. CASE phase # "none"
    BY <1>2, <2>1, <2>2, <2>4 DEF AgeBounded, Accepted
  <2> QED
    BY <2>3, <2>4
<1>3. CASE Fire \/ Sweep \/ Trigger
  BY <1>2, <1>3 DEF Fire, Sweep, Trigger, model, marks
<1>4. CASE Begin
  <2>1. /\ UNCHANGED <<age, due, delay, idle, pushed, missed>>
        /\ phase = "queued" /\ phase' = "running"
    BY <1>4 DEF Begin, marks
  <2>2. Reach(idle, pushed)' = Reach(idle, pushed)
    BY <2>1, SameReach
  <2> QED
    BY <2>1, <2>2 DEF AgeBounded, Kept
<1>5. CASE Skip
  BY <1>5 DEF Skip, AgeBounded, Kept
<1>6. CASE Sleep
  BY <1>6, SleepKeepsAge
<1>7. ASSUME NEW ok \in BOOLEAN, Finish(ok) PROVE AgeBounded'
  BY <1>7, FinishKeepsAge
<1>8. CASE UNCHANGED <<age, due, phase, delay, idle, pushed, missed>>
  <2>1. Reach(idle, pushed)' = Reach(idle, pushed)
    BY <1>8, SameReach
  <2> QED
    BY <1>8, <2>1 DEF AgeBounded, Kept
<1>9. CASE Wake \/ UNCHANGED vars
  BY <1>8, <1>9 DEF Wake, vars, model, marks
<1>10. CASE Sync \/ SetThrottle \/ Restart
  BY <1>10 DEF Sync, SetThrottle, Restart, AgeBounded, Kept
<1> QED
  BY <1>1, <1>3, <1>4, <1>5, <1>6, <1>7, <1>9, <1>10 DEF Next

\* No step multiplies a schedule by anything else.
LEMMA StepMultiplies == TypeOK /\ PushesMultiply /\ [Next]_vars => PushesMultiply'
<1> SUFFICES ASSUME TypeOK, PushesMultiply, [Next]_vars PROVE PushesMultiply'
  OBVIOUS
<1>1. CASE Sleep
  BY <1>1, SleepMultiplies
<1>2. ASSUME NEW ok \in BOOLEAN, Finish(ok) PROVE PushesMultiply'
  BY <1>2 DEF Finish, PushesMultiply
<1>3. CASE pushed' = pushed
  BY <1>3 DEF PushesMultiply
<1>4. CASE Tick \/ Fire \/ Sweep \/ Trigger \/ Begin \/ Skip
  BY <1>3, <1>4 DEF Tick, Fire, Sweep, Trigger, Begin, Skip, marks
<1>5. CASE Wake \/ Sync \/ SetThrottle \/ Restart \/ UNCHANGED vars
  BY <1>3, <1>5 DEF Wake, Sync, SetThrottle, Restart, vars, marks
<1> QED
  BY <1>1, <1>2, <1>4, <1>5 DEF Next

-----------------------------------------------------------------------------
(* What failures do.                                                        *)

\* Every failure halves the streak when it doubles the factor.
LEMMA StepKeepsHalving ==
    TypeOK /\ TypeOK' /\ HalvingCounts /\ [Next]_vars => HalvingCounts'
<1> SUFFICES ASSUME TypeOK, TypeOK', HalvingCounts, [Next]_vars PROVE HalvingCounts'
  OBVIOUS
<1>t. /\ streak \in Nat /\ factor \in Nat /\ peak \in Nat
      /\ streak' \in Nat /\ factor' \in Nat /\ peak' \in Nat
  BY Constants DEF TypeOK
<1>1. CASE UNCHANGED <<streak, factor, peak>>
  BY <1>1 DEF HalvingCounts
<1>2. CASE Restart
  <2>1. streak' = 0 /\ factor' = factor /\ peak' = peak
    BY <1>2 DEF Restart
  <2>2. 0 * factor = 0
    BY <1>t
  <2> QED
    BY <2>1, <2>2, <1>t DEF HalvingCounts
<1>3. CASE Finish(TRUE)
  <2>1. factor' = 1 /\ peak' = streak'
    BY <1>3 DEF Finish
  <2>2. streak' * 1 <= streak'
    BY <1>t, TimesOne
  <2> QED
    BY <2>1, <2>2 DEF HalvingCounts
<1>4. CASE Finish(FALSE)
  <2>1. streak' = streak \div 2 /\ peak' = peak
    BY <1>4 DEF Finish, Bumped
  <2>2. factor' <= factor * 2
    BY <1>4, <1>t, Constants DEF Finish, AtMost
  <2>3. (streak \div 2) * factor' <= peak
    BY <2>2, <1>t, HalvedAndDoubled DEF HalvingCounts
  <2> QED
    BY <2>1, <2>3 DEF HalvingCounts
<1>5. CASE Tick \/ Fire \/ Sweep \/ Trigger \/ Begin \/ Skip \/ Wake \/ Sleep \/ Sync \/ SetThrottle
  BY <1>1, <1>5 DEF Tick, Fire, Sweep, Trigger, Begin, Skip, Wake, Sleep, Sync, SetThrottle, model
<1>6. CASE UNCHANGED vars
  BY <1>1, <1>6 DEF vars
<1> QED
  BY <1>2, <1>3, <1>4, <1>5, <1>6 DEF Next

\* With a best streak that the failures since have halved below the first tier, the
\* streak itself is below it.
LEMMA BelowTheFirstTier ==
    ASSUME NEW s \in Nat, NEW f \in Nat, NEW p \in Nat, NEW t \in Nat,
           s * f <= p, p < t * f
    PROVE  s < t
<1> SUFFICES ASSUME t <= s PROVE FALSE
  OBVIOUS
<1>1. t * f <= s * f /\ t * f \in Nat /\ s * f \in Nat
  BY ProductGrows
<1> QED
  BY <1>1

\* The schedule set after such a failure, or after a success below the first tier,
\* is the base interval's.
LEMMA FinishIsShort ==
    ASSUME TypeOK, TypeOK', HalvingCounts', NEW ok \in BOOLEAN, Finish(ok)
    PROVE  FailuresShortenTheGap'
<1> SUFFICES ASSUME Tiers # << >>, peak' < Tiers[1] * factor'
             PROVE  due' <= Base * idle' + Jitter(Base * idle')
  BY DEF FailuresShortenTheGap, Jitter, AtLeast
<1>1. Tiers[1] \in Nat
  BY CadenceAssumption
<1>2. streak' \in Nat /\ factor' \in Nat /\ peak' \in Nat
  BY Constants DEF TypeOK
<1>3. streak' < Tiers[1]
  BY <1>1, <1>2, BelowTheFirstTier DEF HalvingCounts
<1>4. streak' = Bumped(streak, ok) /\ idle' = Idle(throttle)
  BY DEF Finish
<1>5. \A adaptive \in BOOLEAN : NextGap(ok, adaptive) = Base * idle'
  BY <1>2, <1>3, <1>4, EffectiveIsBounded DEF NextGap
<1>6. Base * idle' \in Nat
  <2>1. idle' \in Nat
    BY <1>4, Constants DEF Idle
  <2> QED
    BY <2>1, Constants, ProductIsNat
<1>7. PICK j \in 0 .. Jitter(Base * idle') : due' = Base * idle' + j
  BY <1>5 DEF Finish
<1>8. Jitter(Base * idle') \in Nat
  BY <1>6, JitterGrows
<1> QED
  BY <1>6, <1>7, <1>8

\* No other step takes that away.
LEMMA StepKeepsShort ==
    TypeOK /\ TypeOK' /\ HalvingCounts' /\ FailuresShortenTheGap /\ [Next]_vars
        => FailuresShortenTheGap'
<1> SUFFICES ASSUME TypeOK, TypeOK', HalvingCounts', FailuresShortenTheGap, [Next]_vars
             PROVE  FailuresShortenTheGap'
  OBVIOUS
<1>t. /\ due \in Nat \union {Paused} /\ due' \in Nat \union {Paused}
      /\ idle \in Nat \ {0} /\ pushed \in Nat \ {0}
  BY Constants DEF TypeOK
<1> DEFINE base == Base * idle
<1>b. base \in Nat /\ Base <= base /\ Jitter(base) \in Nat
      /\ Jitter(Base) \in Nat /\ Jitter(Base) <= Jitter(base)
  BY <1>t, Constants, FactorGrows, JitterGrows
<1>1. ASSUME UNCHANGED <<peak, factor, idle>>,
             pushed' = 1 => pushed = 1,
             pushed' = 1 /\ due' # Paused =>
                 (due # Paused /\ due' <= due) \/ due' <= Base + Jitter(Base)
      PROVE  FailuresShortenTheGap'
  <2> SUFFICES ASSUME Tiers # << >>, peak < Tiers[1] * factor, pushed' = 1, due' # Paused
               PROVE  due' <= base + Jitter(base)
    BY <1>1 DEF FailuresShortenTheGap, Jitter, AtLeast
  <2>1. due # Paused => due <= base + Jitter(base)
    BY <1>1 DEF FailuresShortenTheGap
  <2>2. due \in Int /\ due' \in Int
    BY <1>t DEF Paused
  <2> HIDE DEF base
  <2> QED
    BY <1>1, <1>b, <2>1, <2>2, Constants
<1>2. CASE Tick
  <2>1. due' = (IF due = Paused THEN Paused ELSE due - 1) /\ UNCHANGED <<peak, factor, idle, pushed>>
    BY <1>2 DEF Tick, marks
  <2>2. due' # Paused => due # Paused /\ due' <= due
    BY <2>1, <1>t DEF Paused
  <2> QED
    BY <2>1, <2>2, <1>1
<1>3. CASE Fire
  <2>1. UNCHANGED <<peak, factor, idle, pushed>>
    BY <1>3 DEF Fire, model, marks
  <2>2. due' <= Base + Jitter(Base)
    BY <1>3, <1>b, <1>t, Constants DEF Fire
  <2> QED
    BY <2>1, <2>2, <1>1
<1>4. CASE Sleep
  <2>1. UNCHANGED <<peak, factor, idle>>
    BY <1>4 DEF Sleep, model
  <2>2. CASE due \in {0, Paused}
    <3>1. due' = due /\ pushed' = pushed
      BY <1>4, <2>2 DEF Sleep
    <3>2. due' <= due
      BY <3>1, <1>t DEF Paused
    <3> QED
      BY <2>1, <3>1, <3>2, <1>1
  <2>3. CASE due \notin {0, Paused}
    <3>1. due' = due * IDLE_MULTIPLIER /\ pushed' = pushed * IDLE_MULTIPLIER /\ due \in Nat
      BY <1>4, <2>3, <1>t DEF Sleep
    <3>2. ASSUME pushed * IDLE_MULTIPLIER = 1
          PROVE  pushed = 1 /\ IDLE_MULTIPLIER = 1
      <4>1. pushed <= pushed * IDLE_MULTIPLIER /\ IDLE_MULTIPLIER <= IDLE_MULTIPLIER * pushed
        BY <1>t, Constants, FactorGrows
      <4>2. IDLE_MULTIPLIER * pushed = pushed * IDLE_MULTIPLIER
        BY <1>t, Constants
      <4> QED
        BY <3>2, <4>1, <4>2, <1>t, Constants
    <3>3. pushed' = 1 => pushed = 1 /\ due' = due
      BY <3>1, <3>2
    <3>4. due # Paused /\ due <= due
      BY <2>3, <3>1
    <3> QED
      BY <2>1, <3>3, <3>4, <1>1
  <2> QED
    BY <2>2, <2>3
<1>5. CASE UNCHANGED <<peak, factor, idle, pushed, due>>
  <2>1. due' <= due
    BY <1>5, <1>t DEF Paused
  <2> QED
    BY <1>5, <2>1, <1>1
<1>6. CASE Sweep \/ Trigger \/ Begin \/ Skip \/ Wake \/ UNCHANGED vars
  BY <1>5, <1>6 DEF Sweep, Trigger, Begin, Skip, Wake, vars, model, marks
<1>7. ASSUME NEW ok \in BOOLEAN, Finish(ok) PROVE FailuresShortenTheGap'
  BY <1>7, FinishIsShort
<1>8. CASE Sync \/ SetThrottle \/ Restart
  BY <1>8 DEF Sync, SetThrottle, Restart, FailuresShortenTheGap
<1> QED
  BY <1>2, <1>3, <1>4, <1>6, <1>7, <1>8 DEF Next

-----------------------------------------------------------------------------
(* The theorems.                                                            *)

\* A model that has just been added satisfies the invariant.
LEMMA InitEstablishes == Init => IInv
<1> SUFFICES ASSUME Init PROVE IInv
  OBVIOUS
<1> USE Constants DEF Init
<1>1. TypeOK
  <2>1. /\ streak \in 0 .. MaxStreak /\ peak \in 0 .. MaxStreak /\ factor \in 1 .. MaxFactor
        /\ due \in Nat \union {Paused} /\ age \in 0 .. Horizon /\ delay \in 0 .. Slack
        /\ pushed \in 1 .. MaxPushed /\ idle \in {1, IDLE_MULTIPLIER}
    OBVIOUS
  <2>2. /\ online \in BOOLEAN /\ watched \in BOOLEAN /\ setting \in BOOLEAN
        /\ throttle \in BOOLEAN /\ missed \in BOOLEAN
        /\ phase \in {"none", "queued", "running"}
    OBVIOUS
  <2> QED
    BY <2>1, <2>2 DEF TypeOK
<1>2. AgeBounded
  <2>1. Reach(1, 1) \in Nat
    BY ReachIsNat
  <2> QED
    BY <2>1 DEF AgeBounded
<1>3. PushesMultiply /\ HalvingCounts /\ FailuresShortenTheGap
  <2>1. Base * 1 \in Nat /\ Jitter(Base * 1) \in Nat
    BY JitterGrows, FactorGrows
  <2> QED
    BY <2>1 DEF PushesMultiply, HalvingCounts, FailuresShortenTheGap
<1> QED
  BY <1>1, <1>2, <1>3 DEF IInv

\* The invariant holds in every reachable state.
LEMMA Invariance == Spec => []IInv
<1>1. IInv /\ [Next]_vars => IInv'
  BY StepKeepsTypes, StepKeepsAge, StepMultiplies, StepKeepsHalving, StepKeepsShort DEF IInv
<1> QED
  BY InitEstablishes, <1>1, PTL DEF Spec

\* Type correctness: ages, schedules and streaks stay within their bounds.
THEOREM TypeCorrect == Spec => []TypeOK
<1>1. IInv => TypeOK
  BY DEF IInv
<1> QED
  BY Invariance, <1>1, PTL

\* The stale label can be trusted: a healthy model whose job is not paused, whose
\* triggers all ran and whose schedule was stretched once at most is not labelled
\* stale, whatever the backoff, the jitter, the settings and the delay of the workers;
\* and one stretched more often is past the threshold in proportion only.
THEOREM LabelIsTrue == Spec => []NoFalseStale
<1>1. IInv => NoFalseStale
  <2> SUFFICES ASSUME IInv, Stale, ~missed, due # Paused
               PROVE  Stretched > IDLE_MULTIPLIER /\ age * IDLE_MULTIPLIER <= StaleAge * Stretched
    BY DEF NoFalseStale
  <2>1. /\ age \in Nat /\ delay \in Nat /\ delay <= Slack
        /\ pushed \in Nat \ {0} /\ idle \in {1, IDLE_MULTIPLIER}
    BY Constants DEF IInv, TypeOK
  <2>2. age <= Reach(idle, pushed) + delay /\ Reach(idle, pushed) \in Nat
    BY <2>1, AgeWithinReach, ReachIsNat DEF IInv, Kept
  <2>3. age <= Reach(idle, pushed) + Slack
    BY <2>1, <2>2, Constants
  <2>4. \/ age <= StaleAge
        \/ idle * pushed > IDLE_MULTIPLIER /\ age * IDLE_MULTIPLIER <= StaleAge * (idle * pushed)
    BY <2>1, <2>3, ReachIsNotStale DEF IInv, PushesMultiply
  <2>5. age > StaleAge /\ StaleAge \in Nat
    BY ThresholdIsTwice DEF Stale
  <2> QED
    BY <2>1, <2>4, <2>5 DEF Stretched
<1> QED
  BY Invariance, <1>1, PTL

\* Failures undo the backoff: once the failures since the last success have halved
\* the best streak below the first tier, the next probe is a base interval away, if
\* the job is neither paused nor pushed since.
THEOREM FailuresUndoTheBackoff == Spec => []FailuresShortenTheGap
<1>1. IInv => FailuresShortenTheGap
  BY DEF IInv
<1> QED
  BY Invariance, <1>1, PTL

=============================================================================

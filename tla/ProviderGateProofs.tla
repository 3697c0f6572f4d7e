------------------------- MODULE ProviderGateProofs -------------------------
(***************************************************************************)
(* What ProviderGate promises, for every window, limit, cap and sequence   *)
(* of Retry-After values; and, at the end, what the calls that pass it are *)
(* recorded as, for every response, terminator and cut.                    *)
(***************************************************************************)
EXTENDS ProviderGate, ProbeCall, FiniteSetTheorems, NaturalsInduction, TLAPS

\* While a promised time lies ahead, the deadline covers it.
PromiseCovered == promised > now => until >= promised

IInv ==
    /\ TypeOK
    /\ BucketIsSuffix
    /\ WindowBound
    /\ CooldownBounded
    /\ PromiseCovered

-----------------------------------------------------------------------------
(* Arithmetic of Min and Max.                                              *)

\* The least number of a nonempty set of naturals.
LEMMA MinOfNats ==
    ASSUME NEW S \in SUBSET Nat, S # {}
    PROVE  Min(S) \in S /\ \A y \in S : Min(S) <= y
<1> DEFINE R == OpToRel(<, Nat)
<1>1. IsWellFoundedOn(R, Nat)
  BY Zenon, NatLessThanWellFounded
<1>2. R = {ss \in Nat \X Nat : ss[1] < ss[2]}
  BY Zenon DEF OpToRel
<1> HIDE DEF R
<1>3. PICK x \in S : \A y \in S : <<y, x>> \notin R
  BY Zenon, <1>1, WFMin
<1>4. ASSUME NEW y \in S
      PROVE  x <= y
  <2>1. <<y, x>> \in Nat \X Nat /\ <<y, x>>[1] = y /\ <<y, x>>[2] = x
    OBVIOUS
  <2>2. ~(y < x)
    BY <1>2, <1>3, <2>1
  <2> QED
    BY <2>2
<1> QED
  BY <1>4 DEF Min

\* Min and Max of two numbers.
LEMMA OfTwo ==
    ASSUME NEW a \in Nat, NEW b \in Nat
    PROVE  /\ Min({a, b}) = IF a <= b THEN a ELSE b
           /\ Max({a, b}) = IF a >= b THEN a ELSE b
<1>1. PICK x \in {a, b} : x = IF a <= b THEN a ELSE b
  OBVIOUS
<1>2. PICK z \in {a, b} : z = IF a >= b THEN a ELSE b
  OBVIOUS
<1>3. \A y \in {a, b} : x <= y /\ z >= y
  BY <1>1, <1>2
<1>4. Min({a, b}) \in {a, b} /\ \A y \in {a, b} : Min({a, b}) <= y
  BY <1>3 DEF Min
<1>5. Max({a, b}) \in {a, b} /\ \A y \in {a, b} : Max({a, b}) >= y
  BY <1>3 DEF Max
<1> QED
  BY <1>4, <1>5

\* No header asks for more than the cap, or the default where there is none.
LEMMA CooldownIsCapped ==
    ASSUME NEW h \in Nat
    PROVE  /\ Cooldown(h) \in Nat
           /\ Cooldown(h) <= Max({MaxRetryAfter, DefaultCooldown})
<1> USE GateAssumption
<1>1. Max({MaxRetryAfter, DefaultCooldown}) = IF MaxRetryAfter >= DefaultCooldown THEN MaxRetryAfter ELSE DefaultCooldown
  BY OfTwo
<1>2. Min({h, MaxRetryAfter}) = IF h <= MaxRetryAfter THEN h ELSE MaxRetryAfter
  BY OfTwo
<1> QED
  BY <1>1, <1>2 DEF Cooldown

\* A stored limit is enforced as one of the limits.
LEMMA ClampedIsLimit ==
    ASSUME NEW n \in Settings
    PROVE  Clamped(n) \in Limits
<1> USE GateAssumption
<1>1. Min({n, MaxLimit}) = IF n <= MaxLimit THEN n ELSE MaxLimit
  BY OfTwo DEF Settings
<1> QED
  BY <1>1 DEF Clamped, Settings, Limits

-----------------------------------------------------------------------------
(* Pruning.                                                                *)

\* Pruning keeps the bucket a suffix of the history, and drops only what is
\* out of the window.
LEMMA PrunedIsSuffix ==
    ASSUME TypeOK, BucketIsSuffix
    PROVE  /\ Pruned \in Seq(Nat)
           /\ Len(Pruned) <= Len(log)
           /\ \A j \in 1 .. Len(Pruned) : Pruned[j] = log[(Len(log) - Len(Pruned)) + j]
           /\ \A i \in 1 .. (Len(log) - Len(Pruned)) : Expired(log[i])
<1> USE DEF TypeOK
<1> DEFINE gone == Len(log) - Len(bucket)
<1>1. /\ gone \in Nat
      /\ \A j \in 1 .. Len(bucket) : bucket[j] = log[gone + j]
      /\ \A i \in 1 .. gone : Expired(log[i])
  BY DEF BucketIsSuffix
<1>2. CASE Kept = {}
  <2>1. Pruned = << >>
    BY <1>2 DEF Pruned
  <2>2. \A j \in 1 .. Len(bucket) : Expired(bucket[j])
    BY <1>2 DEF Kept
  <2>3. ASSUME NEW i \in 1 .. Len(log) PROVE Expired(log[i])
    <3>1. CASE i <= gone
      BY <1>1, <3>1
    <3>2. CASE i > gone
      <4>1. i - gone \in 1 .. Len(bucket)
        BY <1>1, <3>2
      <4> QED
        BY <1>1, <2>2, <4>1
    <3> QED
      BY <1>1, <3>1, <3>2
  <2> QED
    BY <2>1, <2>3
<1>3. CASE Kept # {}
  <2> DEFINE k == Min(Kept)
  <2>1. Kept \in SUBSET Nat
    BY DEF Kept
  <2>2. k \in Kept /\ \A y \in Kept : k <= y
    BY <1>3, <2>1, MinOfNats
  <2>5. Pruned = SubSeq(bucket, k, Len(bucket))
    BY <1>3 DEF Pruned
  <2> HIDE DEF k
  <2>3. k \in 1 .. Len(bucket)
    BY <2>2 DEF Kept
  <2>4. ASSUME NEW j \in 1 .. Len(bucket), j < k PROVE Expired(bucket[j])
    <3>1. SUFFICES ASSUME ~Expired(bucket[j]) PROVE FALSE
      OBVIOUS
    <3>2. j \in Kept
      BY <3>1 DEF Kept
    <3>3. k <= j
      BY <2>2, <3>2
    <3> QED
      BY <2>3, <2>4, <3>3
  <2>6. /\ Pruned \in Seq(Nat)
        /\ Len(Pruned) = Len(bucket) - k + 1
        /\ \A j \in 1 .. Len(Pruned) : Pruned[j] = bucket[k + j - 1]
    BY <2>3, <2>5
  <2>7. Len(log) - Len(Pruned) = gone + k - 1
    BY <1>1, <2>3, <2>6
  <2>8. \A j \in 1 .. Len(Pruned) : Pruned[j] = log[(Len(log) - Len(Pruned)) + j]
    <3> SUFFICES ASSUME NEW j \in 1 .. Len(Pruned)
                 PROVE  Pruned[j] = log[(Len(log) - Len(Pruned)) + j]
      OBVIOUS
    <3>1. k + j - 1 \in 1 .. Len(bucket)
      BY <2>3, <2>6
    <3>2. Pruned[j] = log[gone + (k + j - 1)]
      BY <1>1, <2>6, <3>1
    <3>3. gone + (k + j - 1) = (Len(log) - Len(Pruned)) + j
      <4>1. gone \in Nat /\ k \in Nat /\ j \in Nat
        BY <1>1, <2>3, <2>6
      <4> HIDE DEF gone, TypeOK
      <4>2. Len(log) - Len(Pruned) = gone + k - 1
        BY <2>7
      <4> QED
        BY <4>1, <4>2
    <3> QED
      BY <3>2, <3>3
  <2>9. ASSUME NEW i \in 1 .. (gone + k - 1) PROVE Expired(log[i])
    <3>1. CASE i <= gone
      BY <1>1, <2>3, <3>1
    <3>2. CASE i > gone
      <4>1. i - gone \in 1 .. Len(bucket) /\ i - gone < k
        BY <1>1, <2>3, <3>2
      <4>2. Expired(bucket[i - gone])
        BY <2>4, <4>1
      <4>3. bucket[i - gone] = log[gone + (i - gone)]
        BY <1>1, <4>1
      <4>4. gone + (i - gone) = i
        BY <1>1, <2>3
      <4> QED
        BY <4>2, <4>3, <4>4
    <3> QED
      BY <1>1, <2>3, <3>1, <3>2
  <2>10. Len(Pruned) <= Len(log)
    BY <1>1, <2>3, <2>6
  <2> QED
    BY <2>6, <2>7, <2>8, <2>9, <2>10
<1> QED
  BY <1>2, <1>3

-----------------------------------------------------------------------------
(* The invariant.                                                          *)

\* The invariant holds at the start.
LEMMA InitHolds == Init => IInv
<1> SUFFICES ASSUME Init PROVE IInv
  OBVIOUS
<1> USE GateAssumption DEF Init
<1>1. TypeOK
  BY DEF TypeOK, Limits, Settings
<1>2. BucketIsSuffix /\ WindowBound
  BY DEF BucketIsSuffix, WindowBound
<1>3. CooldownBounded
  <2>1. Max({MaxRetryAfter, DefaultCooldown}) \in Nat
    BY OfTwo
  <2> QED
    BY <2>1 DEF CooldownBounded
<1>4. PromiseCovered
  BY DEF PromiseCovered
<1> QED
  BY <1>1, <1>2, <1>3, <1>4 DEF IInv

\* An admission leaves the window bound intact: the request MaxLimit places
\* before it is out of the window.
LEMMA AdmitIsBounded ==
    ASSUME IInv, NEW q \in Probes, Admit(q)
    PROVE  TypeOK' /\ BucketIsSuffix' /\ WindowBound'
<1> USE GateAssumption DEF IInv
<1> DEFINE g == Len(log) - Len(Pruned)
<1>1. /\ Pruned \in Seq(Nat)
      /\ Len(Pruned) <= Len(log)
      /\ \A j \in 1 .. Len(Pruned) : Pruned[j] = log[g + j]
      /\ \A i \in 1 .. g : Expired(log[i])
  BY PrunedIsSuffix
<1>2. /\ bucket' = Append(Pruned, now)
      /\ log' = Append(log, now)
      /\ now' = now
      /\ Len(Pruned) < read[q]
      /\ read[q] \in 1 .. MaxLimit
      /\ now \in Nat
      /\ log \in Seq(Nat)
  BY <1>1 DEF Admit, AtLimit, TypeOK, Limits
<1>3. TypeOK'
  BY <1>1, <1>2 DEF Admit, Move, TypeOK
<1> HIDE DEF IInv
<1>4. /\ log' \in Seq(Nat)
      /\ Len(log') = Len(log) + 1
      /\ \A i \in 1 .. Len(log) : log'[i] = log[i]
      /\ log'[Len(log) + 1] = now
  BY <1>2
<1> DEFINE P == Pruned
<1>5. /\ bucket' \in Seq(Nat)
      /\ Len(bucket') = Len(P) + 1
      /\ \A i \in 1 .. Len(P) : bucket'[i] = P[i]
      /\ bucket'[Len(P) + 1] = now
  BY <1>1, <1>2
<1>6. \A i \in 1 .. g : Expired(log[i])' <=> Expired(log'[i])
  BY <1>2 DEF Expired
<1>7. BucketIsSuffix'
  <2>1. Len(log') - Len(bucket') = g /\ g \in Nat /\ g <= Len(log)
    BY <1>1, <1>2, <1>4, <1>5
  <2>2. ASSUME NEW j \in 1 .. Len(bucket') PROVE bucket'[j] = log'[g + j]
    <3>1. CASE j = Len(P) + 1
      <4>1. g + j = Len(log) + 1
        BY <1>1, <1>2, <3>1
      <4> QED
        BY <1>4, <1>5, <3>1, <4>1
    <3>2. CASE j # Len(P) + 1
      <4>1. j \in 1 .. Len(P)
        BY <1>1, <1>5, <3>2
      <4>2. g + j \in 1 .. Len(log)
        BY <1>1, <1>2, <4>1
      <4> QED
        BY <1>1, <1>4, <1>5, <4>1, <4>2
    <3> QED
      BY <3>1, <3>2
  <2>3. ASSUME NEW i \in 1 .. g PROVE log'[i] + Window < now'
    <3>1. i \in 1 .. Len(log)
      BY <2>1
    <3> QED
      BY <1>1, <1>2, <1>4, <3>1 DEF Expired
  <2>4. Len(bucket') <= Len(log')
    BY <1>1, <1>2, <1>4, <1>5
  <2> HIDE DEF g
  <2> QED
    BY <2>1, <2>2, <2>3, <2>4 DEF BucketIsSuffix, Expired
<1>8. WindowBound'
  <2> SUFFICES ASSUME NEW i \in 1 .. Len(log'), i + MaxLimit <= Len(log')
               PROVE  log'[i] + Window < log'[i + MaxLimit]
    BY DEF WindowBound
  <2>1. i \in 1 .. Len(log)
    BY <1>2, <1>4
  <2>2. CASE i + MaxLimit = Len(log) + 1
    <3>1. i \in 1 .. g
      BY <1>1, <1>2, <2>1, <2>2
    <3>2. log[i] + Window < now
      BY <1>1, <3>1 DEF Expired
    <3> QED
      BY <1>4, <2>1, <2>2, <3>2
  <2>3. CASE i + MaxLimit # Len(log) + 1
    <3>1. i + MaxLimit \in 1 .. Len(log)
      <4>1. Len(log) \in Nat /\ i \in Nat /\ MaxLimit \in Nat /\ i >= 1
        BY <1>2, <2>1
      <4>2. i + MaxLimit <= Len(log) + 1
        BY <1>4
      <4> QED
        BY <2>3, <4>1, <4>2
    <3>2. log[i] + Window < log[i + MaxLimit]
      BY <2>1, <3>1 DEF IInv, WindowBound
    <3> QED
      BY <1>4, <2>1, <3>1, <3>2
  <2> QED
    BY <2>2, <2>3
<1> QED
  BY <1>3, <1>7, <1>8

\* Every step keeps the invariant.
LEMMA StepHolds == IInv /\ [Next]_vars => IInv'
<1> SUFFICES ASSUME IInv, [Next]_vars PROVE IInv'
  OBVIOUS
<1> USE GateAssumption
<1> DEFINE M == Max({MaxRetryAfter, DefaultCooldown})
<1>0. M \in Nat
  BY OfTwo
<1> HIDE DEF M
<1>1. CASE Tick
  <2>1. now' = now + 1 /\ now \in Nat /\ UNCHANGED <<limit, read, phase, bucket, until, log, promised>>
    BY <1>1 DEF Tick, IInv, TypeOK
  <2>2. TypeOK'
    BY <2>1 DEF IInv, TypeOK
  <2>3. BucketIsSuffix'
    <3>1. ASSUME NEW i \in 1 .. (Len(log) - Len(bucket)) PROVE log[i] + Window < now + 1
      <4>1. i \in 1 .. Len(log) /\ log[i] \in Nat
        BY DEF IInv, TypeOK
      <4>2. log[i] + Window < now
        BY DEF IInv, BucketIsSuffix, Expired
      <4> QED
        BY <2>1, <4>1, <4>2
    <3> QED
      BY <2>1, <3>1 DEF IInv, BucketIsSuffix, Expired
  <2>4. WindowBound'
    BY <2>1 DEF IInv, WindowBound
  <2>5. CooldownBounded'
    BY <1>0, <2>1 DEF IInv, TypeOK, CooldownBounded, M
  <2>6. PromiseCovered'
    BY <2>1 DEF IInv, TypeOK, PromiseCovered
  <2> QED
    BY <2>2, <2>3, <2>4, <2>5, <2>6 DEF IInv
<1>2. ASSUME NEW n \in Settings, SaveLimit(n) PROVE IInv'
  BY <1>2 DEF SaveLimit, IInv, TypeOK, BucketIsSuffix, WindowBound, CooldownBounded, PromiseCovered, Expired
<1>3. ASSUME NEW q \in Probes, ReadLimit(q) PROVE IInv'
  <2>1. Clamped(limit) \in Limits
    BY ClampedIsLimit DEF IInv, TypeOK
  <2> QED
    BY <1>3, <2>1 DEF ReadLimit, Move, IInv, TypeOK, BucketIsSuffix, WindowBound, CooldownBounded, PromiseCovered, Expired
<1>4. ASSUME NEW q \in Probes, SkipCooldown(q) PROVE IInv'
  BY <1>4 DEF SkipCooldown, Move, IInv, TypeOK, BucketIsSuffix, WindowBound, CooldownBounded, PromiseCovered, Expired
<1>5. ASSUME NEW q \in Probes, SkipRate(q) PROVE IInv'
  <2>1. /\ Pruned \in Seq(Nat)
        /\ Len(Pruned) <= Len(log)
        /\ \A j \in 1 .. Len(Pruned) : Pruned[j] = log[(Len(log) - Len(Pruned)) + j]
        /\ \A i \in 1 .. (Len(log) - Len(Pruned)) : Expired(log[i])
    BY PrunedIsSuffix DEF IInv
  <2>2. /\ bucket' = Pruned
        /\ until' = 0
        /\ ~CoolingDown
        /\ UNCHANGED <<now, limit, read, log, promised>>
        /\ phase' = [phase EXCEPT ![q] = "idle"]
    BY <1>5 DEF SkipRate, Move
  <2>3. TypeOK'
    BY <2>1, <2>2 DEF IInv, TypeOK
  <2>4. BucketIsSuffix'
    BY <2>1, <2>2 DEF BucketIsSuffix, Expired
  <2>5. WindowBound' /\ PromiseCovered'
    BY <2>2 DEF IInv, TypeOK, WindowBound, PromiseCovered, CoolingDown
  <2>6. CooldownBounded'
    BY <1>0, <2>2 DEF IInv, TypeOK, CooldownBounded, M
  <2> QED
    BY <2>3, <2>4, <2>5, <2>6 DEF IInv
<1>6. ASSUME NEW q \in Probes, Admit(q) PROVE IInv'
  <2>1. TypeOK' /\ BucketIsSuffix' /\ WindowBound'
    BY <1>6, AdmitIsBounded
  <2>2. until' = 0 /\ ~CoolingDown /\ now' = now /\ promised' = promised
    BY <1>6 DEF Admit
  <2>3. CooldownBounded'
    BY <1>0, <2>2 DEF IInv, TypeOK, CooldownBounded, M
  <2>4. PromiseCovered'
    BY <2>2 DEF IInv, TypeOK, PromiseCovered, CoolingDown
  <2> QED
    BY <2>1, <2>3, <2>4 DEF IInv
<1>7. ASSUME NEW q \in Probes, Answer(q) PROVE IInv'
  BY <1>7 DEF Answer, Move, IInv, TypeOK, BucketIsSuffix, WindowBound, CooldownBounded, PromiseCovered, Expired
<1>8. ASSUME NEW q \in Probes, NEW h \in Headers, Answer429(q, h) PROVE IInv'
  <2>1. Cooldown(h) \in Nat /\ Cooldown(h) <= M
    BY CooldownIsCapped DEF M
  <2>2. /\ now \in Nat /\ until \in Nat /\ promised \in Nat
        /\ until' = Extended(Cooldown(h))
        /\ promised' = Max({promised, now + Cooldown(h)})
        /\ UNCHANGED <<now, limit, read, bucket, log>>
        /\ phase' = [phase EXCEPT ![q] = "idle"]
    BY <1>8 DEF Answer429, Move, IInv, TypeOK
  <2>3. promised' = IF promised >= now + Cooldown(h) THEN promised ELSE now + Cooldown(h)
    BY <2>1, <2>2, OfTwo
  <2>4. TypeOK'
    BY <2>1, <2>2, <2>3 DEF IInv, TypeOK, Extended
  <2>5. BucketIsSuffix' /\ WindowBound'
    BY <2>2 DEF IInv, BucketIsSuffix, WindowBound, Expired
  <2>6. until <= now + M
    BY DEF IInv, CooldownBounded, M
  <2>7. CooldownBounded'
    <3>1. until' <= now + M
      BY <1>0, <2>1, <2>2, <2>6 DEF Extended
    <3> QED
      BY <2>2, <3>1 DEF CooldownBounded, M
  <2>8. PromiseCovered'
    BY <2>1, <2>2, <2>3 DEF IInv, PromiseCovered, Extended
  <2> QED
    BY <2>4, <2>5, <2>7, <2>8 DEF IInv
<1>9. CASE UNCHANGED vars
  BY <1>9 DEF vars, IInv, TypeOK, BucketIsSuffix, WindowBound, CooldownBounded, PromiseCovered, Expired
<1> QED
  BY <1>1, <1>2, <1>3, <1>4, <1>5, <1>6, <1>7, <1>8, <1>9 DEF Next

\* The invariant holds in every reachable state.
THEOREM Inductive == Spec => []IInv
BY InitHolds, StepHolds, PTL DEF Spec

\* The gates keep their types; in particular the limit a probe has read is one
\* the gate enforces, whatever was saved.
THEOREM TypeCorrect == Spec => []TypeOK
<1>1. IInv => TypeOK
  BY DEF IInv
<1> QED
  BY <1>1, Inductive, PTL

\* The precise guarantee of the sliding window: of any MaxLimit + 1
\* admissions, the first and the last are more than a window apart.
THEOREM WindowHolds == Spec => []WindowBound
<1>1. IInv => WindowBound
  BY DEF IInv
<1> QED
  BY <1>1, Inductive, PTL

\* The pruned bucket forgets nothing that still counts.
THEOREM BucketIsFaithful == Spec => []BucketIsSuffix
<1>1. IInv => BucketIsSuffix
  BY DEF IInv
<1> QED
  BY <1>1, Inductive, PTL

\* No Retry-After value parks a provider for longer than the cap.
THEOREM CooldownIsBounded == Spec => []CooldownBounded
<1>1. IInv => CooldownBounded
  BY DEF IInv
<1> QED
  BY <1>1, Inductive, PTL

\* No step admits a request before every 429 so far has had its wait.
THEOREM CooldownIsHonoured == Spec => CooldownHonoured
<1>1. IInv /\ [Next]_vars => [log' # log => promised <= now]_vars
  <2> SUFFICES ASSUME IInv, Next, log' # log PROVE promised <= now
    BY DEF vars
  <2>1. PICK q \in Probes : Admit(q)
    BY DEF Next, Tick, SaveLimit, ReadLimit, SkipCooldown, SkipRate, Answer, Answer429
  <2>2. ~(until > now)
    BY <2>1 DEF Admit, CoolingDown
  <2> QED
    BY <2>2 DEF IInv, TypeOK, PromiseCovered
<1> QED
  BY <1>1, Inductive, PTL DEF Spec, CooldownHonoured

\* No admission exceeds the limit its probe has read, counted over the window
\* that ends with it.
THEOREM LimitIsRespected == Spec => ReadLimitBound
<1> DEFINE Respected(q) ==
               phase[q] = "checking" /\ phase'[q] = "calling" =>
                   Cardinality({i \in 1 .. Len(log') : ~Expired(log'[i])}) <= read[q]
<1>1. IInv /\ [Next]_vars => [\A q \in Probes : Respected(q)]_vars
  <2> SUFFICES ASSUME IInv, Next, NEW q \in Probes, phase[q] = "checking", phase'[q] = "calling"
               PROVE  Cardinality({i \in 1 .. Len(log') : ~Expired(log'[i])}) <= read[q]
    BY DEF vars
  <2> DEFINE g == Len(log) - Len(Pruned)
             live == {i \in 1 .. Len(log') : ~Expired(log'[i])}
  <2>1. Admit(q)
    <3>1. phase \in [Probes -> {"idle", "checking", "calling"}]
      BY DEF IInv, TypeOK
    <3>2. ASSUME NEW r \in Probes, NEW a, NEW b, Move(r, a, b) PROVE r = q /\ b = "calling"
      BY <3>1, <3>2 DEF Move
    <3>3. CASE \E r \in Probes : Admit(r)
      BY <3>2, <3>3 DEF Admit
    <3>4. CASE Tick \/ \E n \in Settings : SaveLimit(n)
      BY <3>4 DEF Tick, SaveLimit
    <3>5. ASSUME NEW r \in Probes,
                 ReadLimit(r) \/ SkipCooldown(r) \/ SkipRate(r) \/ Answer(r) \/ \E h \in Headers : Answer429(r, h)
          PROVE  FALSE
      <4>1. Move(r, "idle", "checking") \/ Move(r, "checking", "idle") \/ Move(r, "calling", "idle")
        BY <3>5 DEF ReadLimit, SkipCooldown, SkipRate, Answer, Answer429
      <4> QED
        BY <3>2, <4>1
    <3> QED
      BY <3>3, <3>4, <3>5 DEF Next
  <2>2. /\ Pruned \in Seq(Nat)
        /\ Len(Pruned) <= Len(log)
        /\ \A i \in 1 .. g : Expired(log[i])
    BY PrunedIsSuffix DEF IInv
  <2>3. /\ log' = Append(log, now)
        /\ Len(Pruned) < read[q]
        /\ read[q] \in Nat
        /\ log \in Seq(Nat)
        /\ now \in Nat
    BY <2>1, <2>2 DEF Admit, AtLimit, IInv, TypeOK, Limits
  <2>4. g \in Nat /\ Len(log') = Len(log) + 1 /\ \A i \in 1 .. Len(log) : log'[i] = log[i]
    BY <2>2, <2>3
  <2>5. live \subseteq (g + 1) .. (Len(log) + 1)
    <3> SUFFICES ASSUME NEW i \in live PROVE i >= g + 1
      BY <2>4
    <3>1. SUFFICES ASSUME i \in 1 .. g PROVE FALSE
      BY <2>4
    <3> QED
      BY <2>2, <2>4, <3>1
  <2> HIDE DEF live
  <2>6. /\ IsFiniteSet((g + 1) .. (Len(log) + 1))
        /\ Cardinality((g + 1) .. (Len(log) + 1)) = Len(Pruned) + 1
    <3> HIDE DEF g
    <3>1. g + 1 \in Int /\ Len(log) + 1 \in Int /\ g + 1 <= Len(log) + 1
      BY <2>2, <2>3, <2>4 DEF g
    <3>2. (Len(log) + 1) - (g + 1) + 1 = Len(Pruned) + 1
      BY <2>2, <2>3 DEF g
    <3> QED
      BY <3>1, <3>2, FS_Interval
  <2>7. Cardinality(live) <= Len(Pruned) + 1 /\ Cardinality(live) \in Nat
    BY <2>5, <2>6, FS_Subset, FS_CardinalityType
  <2>8. Cardinality(live) <= read[q]
    BY <2>2, <2>3, <2>7
  <2> QED
    BY <2>8, Zenon DEF live
<1> QED
  BY <1>1, Inductive, PTL DEF Spec, ReadLimitBound

-----------------------------------------------------------------------------
(* The calls that pass the gate (ProbeCall), whose answers set its cooldown. *)

\* A chunk completes the terminator exactly if it holds all of it: what came before,
\* or reaches over the cut, does not count.
LEMMA WholeGrows ==
    ASSUME NEW s \in Seq(Bytes), NEW begins \in SUBSET (1 .. Len(s)),
           NEW c \in Seq(Bytes)
    PROVE  Whole(s \o c, begins \cup {Len(s) + 1}) <=> Whole(s, begins) \/ Found(c)
<1> DEFINE n == Len(Terminator)
           long == s \o c
           cut == begins \cup {Len(s) + 1}
<1>1. n \in Nat \ {0} /\ Len(s) \in Nat /\ Len(c) \in Nat /\ Len(long) = Len(s) + Len(c)
  BY ProbeCallAssumption
<1>2. /\ \A k \in 1 .. Len(s) : long[k] = s[k]
      /\ \A k \in 1 .. Len(c) : long[Len(s) + k] = c[k]
  OBVIOUS
<1>3. ASSUME NEW i \in 1 .. Len(s), i + n - 1 <= Len(s)
      PROVE  Occurs(long, i) <=> Occurs(s, i)
  <2>1. \A j \in 1 .. n : i + j - 1 \in 1 .. Len(s)
    BY <1>1, <1>3
  <2> QED
    BY <1>1, <1>2, <1>3, <2>1 DEF Occurs
<1>4. ASSUME NEW i \in 1 .. Len(c)
      PROVE  Occurs(long, Len(s) + i) <=> Occurs(c, i)
  <2>1. Len(s) + i + n - 1 <= Len(long) <=> i + n - 1 <= Len(c)
    BY <1>1
  <2>2. ASSUME i + n - 1 <= Len(c), NEW j \in 1 .. n
        PROVE  long[Len(s) + i + j - 1] = c[i + j - 1]
    <3>1. i + j - 1 \in 1 .. Len(c) /\ Len(s) + i + j - 1 = Len(s) + (i + j - 1)
      BY <1>1, <2>2
    <3> QED
      BY <1>2, <3>1
  <2> QED
    BY <2>1, <2>2 DEF Occurs
<1> HIDE DEF long, n
<1>5. ASSUME Whole(long, cut)
      PROVE  Whole(s, begins) \/ Found(c)
  <2>1. PICK i \in 1 .. Len(long) : /\ Occurs(long, i)
                                    /\ \A j \in 2 .. n : i + j - 1 \notin cut
    BY <1>5 DEF Whole, n
  <2>2. CASE i + n - 1 <= Len(s)
    <3>1. i \in 1 .. Len(s)
      BY <1>1, <2>2
    <3> QED
      BY <1>3, <2>1, <2>2, <3>1 DEF Whole, n
  <2>3. CASE i > Len(s)
    <3>1. i - Len(s) \in 1 .. Len(c) /\ i = Len(s) + (i - Len(s))
      BY <1>1, <2>3
    <3> QED
      BY <1>4, <2>1, <3>1 DEF Found
  <2>4. CASE i + n - 1 > Len(s) /\ i <= Len(s)
    <3>1. Len(s) + 2 - i \in 2 .. n /\ i + (Len(s) + 2 - i) - 1 = Len(s) + 1
      BY <1>1, <2>4
    <3> QED
      BY <2>1, <3>1
  <2> QED
    BY <1>1, <2>2, <2>3, <2>4
<1>6. ASSUME Whole(s, begins)
      PROVE  Whole(long, cut)
  <2>1. PICK i \in 1 .. Len(s) : /\ Occurs(s, i)
                                 /\ \A j \in 2 .. n : i + j - 1 \notin begins
    BY <1>6 DEF Whole, n
  <2>2. i + n - 1 <= Len(s) /\ i \in 1 .. Len(long)
    BY <1>1, <2>1 DEF Occurs, n
  <2>3. \A j \in 2 .. n : i + j - 1 # Len(s) + 1
    BY <1>1, <2>2
  <2> QED
    BY <1>3, <2>1, <2>2, <2>3 DEF Whole, n
<1>7. ASSUME Found(c)
      PROVE  Whole(long, cut)
  <2>1. PICK i \in 1 .. Len(c) : Occurs(c, i)
    BY <1>7 DEF Found
  <2>2. Len(s) + i \in 1 .. Len(long)
    BY <1>1
  <2>3. \A j \in 2 .. n : Len(s) + i + j - 1 > Len(s) + 1
    BY <1>1
  <2>4. \A k \in cut : k <= Len(s) + 1
    BY <1>1
  <2>5. \A j \in 2 .. n : Len(s) + i + j - 1 \notin cut
    BY <1>1, <2>3, <2>4
  <2> QED
    BY <1>4, <2>1, <2>2, <2>5 DEF Whole, n
<1> QED
  BY <1>5, <1>6, <1>7 DEF long

-----------------------------------------------------------------------------

Codes == {"", "auth", "timeout", "rate_limit", "server", "network", "other"}
Outcomes ==
    [success : BOOLEAN, status : Nat, code : Codes, missing : BOOLEAN, ttfb : BOOLEAN,
     retry : BOOLEAN, models : {"none", "some", "twice"}]

\* Nothing has come back.
Open ==
    /\ ended = ""
    /\ ~outcome.success /\ outcome.status = 0 /\ outcome.code = ""
    /\ ~outcome.missing /\ ~outcome.retry

Unread == bytes = << >> /\ cuts = {}

\* How a chat probe comes back: the stream was read, the refusal was read, or neither.
BackFromStream ==
    /\ ended = "clean" /\ Ok(status)
    /\ outcome.success <=> Whole(bytes, cuts)
    /\ outcome.status = status /\ outcome.code \in {"", "other"}
    /\ ~outcome.missing /\ ~outcome.retry
BackFromRefusal ==
    /\ ended = "clean" /\ ~Ok(status)
    /\ Unread /\ ~outcome.success
    /\ outcome.status = status /\ outcome.code = Code(status)
    /\ outcome.retry => status = 429
BackFromException ==
    /\ ended \in {"raised", "crashed"}
    /\ ~Whole(bytes, cuts) /\ ~outcome.success
    /\ outcome.status = 0 /\ outcome.code \in {"timeout", "network", "other"}
    /\ ~outcome.missing /\ ~outcome.retry
Back == BackFromStream \/ BackFromRefusal \/ BackFromException

Recorded ==
    /\ verdict = IF outcome.success THEN "online" ELSE FailureStatus(outcome)
    /\ cooldown = IF outcome.status # 429 THEN ""
                  ELSE IF outcome.retry THEN "as told" ELSE "default"

Shape ==
    /\ stage \in {"sent", "stream", "body", "answered", "recorded"}
    /\ status \in Nat
    /\ bytes \in Seq(Bytes)
    /\ cuts \in SUBSET (1 .. Len(bytes))
    /\ outcome \in Outcomes

\* A probe of a model, at each stage.
Staged ==
    /\ stage = "sent" => Open /\ Unread
    /\ stage = "stream" => Open /\ Ok(status) /\ ~Whole(bytes, cuts)
    /\ stage = "body" => Open /\ Unread /\ ~Ok(status)
    /\ stage = "answered" => Back
    /\ stage = "recorded" => Back /\ Recorded

CallInv ==
    /\ Shape
    /\ target = "chat" => Staged

\* Nothing read, nothing found.
LEMMA UnreadIsNotWhole == Unread => ~Whole(bytes, cuts)
BY DEF Unread, Whole

\* What a failure is made of; the rest is as before.
LEMMA FailedIs ==
    ASSUME outcome \in Outcomes, NEW s \in Nat, NEW c \in Codes
    PROVE  /\ Failed(s, c) \in Outcomes
           /\ Failed(s, c).success = outcome.success
           /\ Failed(s, c).status = s
           /\ Failed(s, c).code = c
           /\ Failed(s, c).missing = outcome.missing
           /\ Failed(s, c).retry = outcome.retry
BY DEF Outcomes, Failed

\* Of a list of models.
LEMMA SuccessIs ==
    ASSUME outcome \in Outcomes, NEW m \in {"none", "some", "twice"}
    PROVE  /\ Success(m) \in Outcomes
           /\ [Success(m) EXCEPT !.status = 0] \in Outcomes
<1>1. Success(m) \in Outcomes
  BY DEF Outcomes, Success
<1> QED
  BY <1>1 DEF Outcomes

\* map_status_to_error gives a code, or none.
LEMMA CodeIs == ASSUME NEW s \in Nat PROVE Code(s) \in Codes
BY DEF Codes, Code

\* Which statuses it takes for a bad key and which for a limit: not the whole range.
LEMMA CodeSays ==
    ASSUME NEW s \in Nat
    PROVE  /\ Code(s) = "auth" <=> s \in {401, 403}
           /\ Code(s) = "rate_limit" <=> s = 429
<1>1. CASE s \in {401, 403}
  BY <1>1 DEF Code
<1>2. CASE s = 408 \/ s = 429
  BY <1>2 DEF Code
<1>3. CASE s \notin {401, 403, 408, 429}
  BY <1>3 DEF Code
<1> QED
  BY <1>1, <1>2, <1>3

\* Of a refusal that is read to its end.
LEMMA RefusedIs ==
    ASSUME outcome \in Outcomes, status \in Nat, NEW missing \in BOOLEAN, NEW retry \in BOOLEAN
    PROVE  LET o == Refused(missing, retry)
           IN  /\ o \in Outcomes
               /\ o.success = outcome.success /\ o.status = status /\ o.code = Code(status)
               /\ o.retry => status = 429
<1> DEFINE f == Failed(status, Code(status))
           o == Refused(missing, retry)
<1>1. /\ f \in Outcomes /\ f.success = outcome.success /\ f.status = status
      /\ f.code = Code(status)
  BY CodeIs, FailedIs
<1>2. (retry /\ status = 429) \in BOOLEAN
  OBVIOUS
<1>3. o = [f EXCEPT !.missing = missing, !.retry = (retry /\ status = 429)]
  BY DEF Refused
<1> HIDE DEF f, o
<1>4. o \in Outcomes
  BY <1>1, <1>2, <1>3 DEF Outcomes
<1>5. o.success = f.success /\ o.status = f.status /\ o.code = f.code
  BY <1>1, <1>3 DEF Outcomes
<1>6. o.retry = (retry /\ status = 429)
  BY <1>1, <1>3 DEF Outcomes
<1> QED
  BY <1>1, <1>4, <1>5, <1>6 DEF o

\* Of a stream that ends, at the terminator or without it.
LEMMA StreamedIs ==
    ASSUME outcome \in Outcomes, status \in Nat, NEW found \in BOOLEAN, NEW some \in BOOLEAN
    PROVE  LET o == Streamed(found, some)
           IN  /\ o \in Outcomes
               /\ o.success = found /\ o.status = status /\ o.code \in {"", "other"}
               /\ o.missing = outcome.missing /\ o.retry = outcome.retry
<1> DEFINE c == IF found THEN "" ELSE "other"
           f == Failed(status, c)
           o == Streamed(found, some)
<1>1. c \in Codes /\ c \in {"", "other"}
  BY DEF Codes
<1>2. o = [f EXCEPT !.success = found, !.ttfb = some]
  BY DEF Streamed
<1> HIDE DEF c
<1>3. /\ f \in Outcomes /\ f.status = status /\ f.code = c
      /\ f.missing = outcome.missing /\ f.retry = outcome.retry
  BY <1>1, FailedIs
<1> HIDE DEF f, o
<1>4. o \in Outcomes
  BY <1>2, <1>3 DEF Outcomes
<1>5. /\ o.success = found /\ o.status = f.status /\ o.code = f.code
      /\ o.missing = f.missing /\ o.retry = f.retry
  BY <1>2, <1>3 DEF Outcomes
<1> QED
  BY <1>1, <1>3, <1>4, <1>5 DEF o

\* Every step keeps the shape.
LEMMA StepKeepsShape ==
    ASSUME Shape, [CallNext]_callVars
    PROVE  Shape'
<1>1. ASSUME NEW o \in Outcomes, NEW how, Outcome(o, how), UNCHANGED heard
      PROVE  Shape'
  BY <1>1 DEF Outcome, heard, Shape
<1>2. outcome \in Outcomes /\ status \in Nat
  BY DEF Shape
<1>3. CASE ListNothing
  BY <1>1, <1>2, <1>3, SuccessIs DEF ListNothing
<1>4. ASSUME NEW s \in Statuses, Respond(s)
      PROVE  Shape'
  <2>1. s \in Nat
    BY ProbeCallAssumption
  <2>2. stage' \in {"stream", "body"}
    BY <1>4 DEF Respond
  <2> QED
    BY <1>4, <2>1, <2>2 DEF Respond, heard, Shape
<1>5. ASSUME NEW c \in Chunks, Chunk(c)
      PROVE  Shape'
  <2>1. c \in Seq(Bytes) /\ Len(c) \in Nat \ {0}
    BY ProbeCallAssumption DEF Chunks
  <2>2. bytes' \in Seq(Bytes) /\ Len(bytes') = Len(bytes) + Len(c)
    BY <1>5, <2>1 DEF Chunk, Shape
  <2>3. 1 .. Len(bytes) \subseteq 1 .. Len(bytes') /\ Len(bytes) + 1 \in 1 .. Len(bytes')
    BY <2>1, <2>2 DEF Shape
  <2>4. cuts' \in SUBSET (1 .. Len(bytes'))
    BY <1>5, <2>3 DEF Chunk, Shape
  <2>5. stage' \in {"stream", "answered"} /\ status' = status /\ outcome' \in Outcomes
    BY <1>2, <1>5, StreamedIs DEF Chunk, Outcome
  <2> QED
    BY <1>2, <2>2, <2>4, <2>5 DEF Shape
<1>6. CASE StreamEnds
  <2>1. (bytes # << >>) \in BOOLEAN
    OBVIOUS
  <2> QED
    BY <1>1, <1>2, <1>6, <2>1, StreamedIs DEF StreamEnds
<1>7. CASE ErrorBody
  BY <1>1, <1>2, <1>7, RefusedIs DEF ErrorBody
<1>8. CASE ListBody
  <2>1. UNCHANGED heard
    BY <1>8 DEF ListBody
  <2>2. ASSUME NEW models \in {"none", "some", "twice"}, Outcome(Success(models), "clean")
        PROVE  Shape'
    BY <1>1, <1>2, <2>1, <2>2, SuccessIs
  <2>3. CASE Outcome(Failed(200, "other"), "clean")
    BY <1>1, <1>2, <2>1, <2>3, FailedIs DEF Codes
  <2>4. ASSUME NEW retry \in BOOLEAN, Outcome(Refused(FALSE, retry), "clean")
        PROVE  Shape'
    BY <1>1, <1>2, <2>1, <2>4, RefusedIs
  <2> QED
    BY <1>8, <2>2, <2>3, <2>4 DEF ListBody
<1>9. CASE BadShape
  BY <1>1, <1>2, <1>9, FailedIs DEF BadShape, Codes
<1>10. ASSUME NEW e \in Exceptions, Raise(e)
       PROVE  Shape'
  <2>1. ExceptionCode(e) \in Codes
    BY DEF ExceptionCode, Exceptions, Codes
  <2> QED
    BY <1>1, <1>2, <1>10, <2>1, FailedIs DEF Raise
<1>11. CASE Record
  BY <1>11 DEF Record, heard, Shape
<1>12. CASE UNCHANGED callVars
  BY <1>12 DEF callVars, heard, Shape
<1> QED
  BY <1>3, <1>4, <1>5, <1>6, <1>7, <1>8, <1>9, <1>10, <1>11, <1>12 DEF CallNext

\* Every step of a call keeps the invariant.
LEMMA StepKeepsCallInv ==
    ASSUME CallInv, [CallNext]_callVars
    PROVE  CallInv'
<1>1. Shape /\ Shape'
  BY StepKeepsShape DEF CallInv
<1>2. SUFFICES ASSUME target' = "chat"
               PROVE  Staged'
  BY <1>1 DEF CallInv
<1>3. target = "chat"
  BY <1>2 DEF CallNext, ListNothing, Respond, Chunk, StreamEnds, ErrorBody,
     ListBody, BadShape, Raise, Record, Outcome, callVars, call
<1>4. Staged /\ outcome \in Outcomes /\ status \in Nat
  BY <1>1, <1>3 DEF CallInv, Shape
<1>5. CASE ListNothing \/ ListBody \/ BadShape
  BY <1>3, <1>5 DEF ListNothing, ListBody, BadShape
<1>6. ASSUME NEW s \in Statuses, Respond(s)
      PROVE  Staged'
  <2>1. Open' /\ Unread'
    BY <1>4, <1>6 DEF Staged, Respond, heard, Open, Unread
  <2>2. ~Whole(bytes', cuts')
    BY <2>1 DEF Unread, Whole
  <2>3. \/ stage' = "stream" /\ Ok(status')
        \/ stage' = "body" /\ ~Ok(status')
    BY <1>3, <1>6 DEF Respond
  <2> QED
    BY <2>1, <2>2, <2>3 DEF Staged
<1>7. ASSUME NEW c \in Chunks, Chunk(c)
      PROVE  Staged'
  <2>1. stage = "stream" /\ Open /\ Ok(status) /\ ~Whole(bytes, cuts)
    BY <1>4, <1>7 DEF Staged, Chunk
  <2>2. c \in Seq(Bytes)
    BY ProbeCallAssumption DEF Chunks
  <2>3. Whole(bytes', cuts') <=> Found(c)
    BY <1>1, <1>7, <2>1, <2>2, WholeGrows DEF Chunk, Shape
  <2>4. CASE Found(c)
    <3>1. /\ stage' = "answered" /\ ended' = "clean" /\ status' = status
          /\ outcome' = Streamed(TRUE, TRUE)
      BY <1>7, <2>4 DEF Chunk, Outcome
    <3>2. BackFromStream'
      BY <1>4, <2>1, <2>3, <2>4, <3>1, StreamedIs DEF BackFromStream, Open
    <3> QED
      BY <3>1, <3>2 DEF Staged, Back
  <2>5. CASE ~Found(c)
    <3>1. UNCHANGED <<stage, status, ended, outcome>>
      BY <1>7, <2>5 DEF Chunk
    <3>2. Open' /\ Ok(status')
      BY <2>1, <3>1 DEF Open
    <3> QED
      BY <2>1, <2>3, <2>5, <3>1, <3>2 DEF Staged
  <2> QED
    BY <2>4, <2>5
<1>8. CASE StreamEnds
  <2> DEFINE o == Streamed(FALSE, bytes # << >>)
  <2>1. stage = "stream" /\ Open /\ Ok(status) /\ ~Whole(bytes, cuts)
    BY <1>4, <1>8 DEF Staged, StreamEnds
  <2>2. stage' = "answered" /\ ended' = "clean" /\ outcome' = o
    BY <1>8 DEF StreamEnds, Outcome
  <2>3. status' = status /\ bytes' = bytes /\ cuts' = cuts
    BY <1>8 DEF StreamEnds, Outcome, heard
  <2>4. (bytes # << >>) \in BOOLEAN
    OBVIOUS
  <2>5. /\ ~o.success /\ o.status = status /\ o.code \in {"", "other"}
        /\ o.missing = outcome.missing /\ o.retry = outcome.retry
    BY <1>4, <2>4, StreamedIs
  <2> HIDE DEF o
  <2>6. BackFromStream'
    BY <2>1, <2>2, <2>3, <2>5 DEF BackFromStream, Open
  <2> QED
    BY <2>2, <2>6 DEF Staged, Back
<1>9. CASE ErrorBody
  <2>1. Open /\ Unread /\ ~Ok(status)
    BY <1>4, <1>9 DEF Staged, ErrorBody
  <2>2. PICK missing \in BOOLEAN, retry \in BOOLEAN : Outcome(Refused(missing, retry), "clean")
    BY <1>9 DEF ErrorBody
  <2> DEFINE o == Refused(missing, retry)
  <2>3. stage' = "answered" /\ ended' = "clean" /\ outcome' = o /\ status' = status
    BY <2>2 DEF Outcome
  <2>4. bytes' = bytes /\ cuts' = cuts
    BY <1>9 DEF ErrorBody, heard
  <2>5. /\ o.success = outcome.success /\ o.status = status /\ o.code = Code(status)
        /\ o.retry => status = 429
    BY <1>4, RefusedIs
  <2> HIDE DEF o
  <2>6. BackFromRefusal'
    BY <2>1, <2>3, <2>4, <2>5 DEF BackFromRefusal, Open, Unread
  <2> QED
    BY <2>3, <2>6 DEF Staged, Back
<1>10. ASSUME NEW e \in Exceptions, Raise(e)
       PROVE  Staged'
  <2> DEFINE o == Failed(0, ExceptionCode(e))
  <2>1. Open /\ ~Whole(bytes, cuts)
    BY <1>4, <1>10, UnreadIsNotWhole DEF Staged, Raise
  <2>2. stage' = "answered" /\ ended' \in {"raised", "crashed"} /\ outcome' = o
    BY <1>10 DEF Raise, Outcome
  <2>3. bytes' = bytes /\ cuts' = cuts
    BY <1>10 DEF Raise, heard
  <2>4. ExceptionCode(e) \in {"timeout", "network", "other"} \cap Codes
    BY DEF ExceptionCode, Exceptions, Codes
  <2>5. /\ o.success = outcome.success /\ o.status = 0
        /\ o.code \in {"timeout", "network", "other"}
        /\ o.missing = outcome.missing /\ o.retry = outcome.retry
    BY <1>4, <2>4, FailedIs
  <2> HIDE DEF o
  <2>6. BackFromException'
    BY <2>1, <2>2, <2>3, <2>5 DEF BackFromException, Open
  <2> QED
    BY <2>2, <2>6 DEF Staged, Back
<1>11. CASE Record
  <2>1. /\ Back /\ stage' = "recorded"
        /\ UNCHANGED <<status, bytes, cuts, ended, outcome>>
    BY <1>4, <1>11 DEF Staged, Record, heard
  <2>2. Back'
    BY <2>1 DEF Back, BackFromStream, BackFromRefusal, BackFromException, Unread
  <2>3. verdict' = IF outcome'.success THEN "online" ELSE FailureStatus(outcome')
    BY <1>3, <1>11, <2>1 DEF Record
  <2>4. cooldown' = IF outcome'.status # 429 THEN ""
                    ELSE IF outcome'.retry THEN "as told" ELSE "default"
    BY <1>11, <2>1 DEF Record
  <2> QED
    BY <2>1, <2>2, <2>3, <2>4 DEF Staged, Recorded
<1>12. CASE UNCHANGED callVars
  <2>1. UNCHANGED <<stage, status, bytes, cuts, ended, outcome, verdict, cooldown>>
    BY <1>12 DEF callVars, heard, call
  <2>2. (Open <=> Open') /\ (Unread <=> Unread') /\ (Back <=> Back') /\ (Recorded <=> Recorded')
    BY <2>1 DEF Open, Unread, Back, BackFromStream, BackFromRefusal, BackFromException, Recorded
  <2>3. (Whole(bytes, cuts) <=> Whole(bytes', cuts')) /\ (Ok(status) <=> Ok(status'))
    BY <2>1
  <2> QED
    BY <1>4, <2>1, <2>2, <2>3 DEF Staged
<1> QED
  BY <1>5, <1>6, <1>7, <1>8, <1>9, <1>10, <1>11, <1>12 DEF CallNext

\* The invariant of a call.
LEMMA CallIsSound == CallSpec => []CallInv
<1>1. CallInit => CallInv
  <2> SUFFICES ASSUME CallInit PROVE CallInv
    OBVIOUS
  <2>1. Shape
    <3>1. stage = "sent" /\ status = 0
      BY DEF CallInit
    <3>2. bytes \in Seq(Bytes)
      <4>1. << >> \in Seq(Bytes)
        OBVIOUS
      <4> QED
        BY <4>1, Zenon DEF CallInit
    <3>3. cuts \in SUBSET (1 .. Len(bytes))
      BY Zenon DEF CallInit
    <3>4. outcome \in Outcomes
      BY DEF CallInit, Outcomes, Codes
    <3> QED
      BY <3>1, <3>2, <3>3, <3>4 DEF Shape
  <2>2. Open /\ Unread /\ stage = "sent"
    BY DEF CallInit, Open, Unread
  <2> QED
    BY <2>1, <2>2 DEF CallInv, Staged
<1>2. CallInv /\ [CallNext]_callVars => CallInv'
  BY StepKeepsCallInv
<1> QED
  BY <1>1, <1>2, PTL DEF CallSpec

\* A chat probe is green exactly for an answer of success that holds the terminator of
\* its provider within one chunk.
THEOREM GreenIsComplete == CallSpec => []SuccessIsComplete
<1>1. CallInv => SuccessIsComplete
  BY UnreadIsNotWhole DEF CallInv, Staged, Back, BackFromStream, BackFromRefusal,
     BackFromException, SuccessIsComplete
<1> QED
  BY <1>1, CallIsSound, PTL

\* What a model is said to suffer from is what its upstream said, to the end.
THEOREM DiagnosisIsHeard == CallSpec => []FailureIsClassified
<1>1. CallInv => FailureIsClassified
  <2> SUFFICES ASSUME Shape, Back, Recorded
               PROVE  FailureIsClassified
    BY DEF CallInv, Staged, FailureIsClassified
  <2>1. verdict = IF outcome.success THEN "online" ELSE FailureStatus(outcome)
    BY DEF Recorded
  <2>2. /\ outcome.status # 429 => cooldown = ""
        /\ outcome.status = 429 =>
              cooldown = IF outcome.retry THEN "as told" ELSE "default"
    BY DEF Recorded
  <2>3. /\ outcome.code = "auth" \/ outcome.status \in {401, 403}
               => FailureStatus(outcome) = "unauthorized"
        /\ outcome.code # "auth" /\ outcome.status \notin {401, 403} =>
              /\ outcome.code = "rate_limit" \/ outcome.status = 429
                     => FailureStatus(outcome) = "rate_limited"
              /\ outcome.code # "rate_limit" /\ outcome.status # 429
                     => FailureStatus(outcome) \in {"not_found", "failing"}
        /\ FailureStatus(outcome) = "not_found" => outcome.status = 404 \/ outcome.missing
    BY DEF FailureStatus
  <2>4. CASE BackFromStream
    <3>1. outcome.status = status /\ ~outcome.retry /\ ~outcome.missing
      BY <2>4 DEF BackFromStream
    <3>2. outcome.status \notin {401, 403, 404, 429}
      <4>1. status \in 200 .. 299
        BY <2>4 DEF BackFromStream, Ok
      <4>2. \A s \in 200 .. 299 : s \notin {401, 403, 404, 429}
        OBVIOUS
      <4> QED
        BY <3>1, <4>1, <4>2
    <3>3. outcome.code \notin {"auth", "rate_limit"}
      BY <2>4 DEF BackFromStream
    <3>4. verdict \in {"online", "failing"}
      BY <2>1, <2>3, <3>1, <3>2, <3>3
    <3>5. cooldown = ""
      BY <2>2, <3>2
    <3> QED
      BY <3>1, <3>2, <3>4, <3>5 DEF FailureIsClassified
  <2>5. CASE BackFromException
    <3>1. ~outcome.success /\ ~outcome.retry /\ ~outcome.missing /\ ended # "clean"
      BY <2>5 DEF BackFromException
    <3>2. outcome.status \notin {401, 403, 404, 429} /\ outcome.code \notin {"auth", "rate_limit"}
      BY <2>5 DEF BackFromException
    <3>3. verdict = "failing"
      BY <2>1, <2>3, <3>1, <3>2
    <3>4. cooldown = ""
      BY <2>2, <3>2
    <3> QED
      BY <3>1, <3>3, <3>4 DEF FailureIsClassified
  <2>6. CASE BackFromRefusal
    <3>1. /\ ended = "clean" /\ ~outcome.success /\ outcome.status = status
          /\ outcome.code = Code(status)
          /\ outcome.retry => status = 429
      BY <2>6 DEF BackFromRefusal
    <3>2. /\ Code(status) = "auth" <=> status \in {401, 403}
          /\ Code(status) = "rate_limit" <=> status = 429
      BY CodeSays DEF Shape
    <3>3. verdict = FailureStatus(outcome)
      BY <2>1, <3>1
    <3>4. verdict = "unauthorized" <=> status \in {401, 403}
      BY <2>3, <3>1, <3>2, <3>3
    <3>5. verdict = "rate_limited" <=> status = 429
      BY <2>3, <3>1, <3>2, <3>3
    <3>6. verdict = "not_found" => status = 404 \/ outcome.missing
      BY <2>3, <3>1, <3>3
    <3>7. (cooldown # "" <=> status = 429) /\ (outcome.retry => cooldown = "as told")
      BY <2>2, <3>1
    <3> QED
      BY <3>1, <3>4, <3>5, <3>6, <3>7 DEF FailureIsClassified
  <2> QED
    BY <2>4, <2>5, <2>6 DEF Back
<1> QED
  BY <1>1, CallIsSound, PTL

=============================================================================

--------------------------- MODULE ProbeRunProofs ---------------------------
(***************************************************************************)
(* That the probes of a provider keep its permit and the rows of its       *)
(* models right, for any number of probes, models and semaphores and any   *)
(* bound on the failures.                                                  *)
(***************************************************************************)
EXTENDS ProbeRun, SequenceTheorems, FiniteSetTheorems, TLAPS

(* The semaphores: a probe inside holds a permit, a waiting one stands in    *)
(* one place of one line, and a semaphore admits one at a time.  Dropping    *)
(* the current semaphore disturbs none of it.                                *)

Ran(s) == {s[i] : i \in 1 .. Len(s)}
Distinct(s) == \A i, j \in 1 .. Len(s) : s[i] = s[j] => i = j

HoldersAreInside == \A q \in Probes : (\E s \in Sems : q \in holders[s]) <=> q \in Inside

WaitersAreInLine == \A q \in Probes : (\E s \in Sems : q \in Ran(line[s])) <=> pc[q] = "waiting"

OnePlace ==
    /\ \A s \in Sems : Distinct(line[s])
    /\ \A s, t \in Sems : Ran(line[s]) \intersect Ran(line[t]) # {} => s = t

OnePermit == \A s \in Sems : \A q, r \in holders[s] : q = r

Permits == HoldersAreInside /\ WaitersAreInLine /\ OnePlace /\ OnePermit

(* The rows: the snapshot of a probe has the status and the counter of the   *)
(* row until another probe of the model records, and the column a user may   *)
(* have changed since is not among those it writes.                          *)

BeforeRecord == {"root", "waiting", "gate", "call", "record"}

SnapshotIsCurrent ==
    \A q \in Probes \ passed : pc[q] \in BeforeRecord =>
        /\ seen[q].status = row[of[q]].status
        /\ seen[q].failures = row[of[q]].failures

RoomToCount ==
    \A q \in Probes : pc[q] = "record" /\ outcome[q] # "ok" => seen[q].failures < MaxFailures

CountIsTrail == \A m \in Models \ blurred : row[m].failures = trail[m]

Rowwise == SnapshotIsCurrent /\ RoomToCount /\ CountIsTrail /\ StatusFollowsLatest /\ EditsSurvive

IInv == TypeOK /\ Permits /\ Rowwise

-----------------------------------------------------------------------------
(* Lines: what the three edits keep.                                        *)

\* The end of a line: one more stands in it.
LEMMA Joining ==
    ASSUME NEW S, NEW s \in Seq(S), NEW q \in S
    PROVE  /\ Append(s, q) \in Seq(S)
           /\ Ran(Append(s, q)) = Ran(s) \union {q}
           /\ Distinct(s) /\ q \notin Ran(s) => Distinct(Append(s, q))
<1>1. /\ Append(s, q) \in Seq(S) /\ Len(Append(s, q)) = Len(s) + 1
      /\ \A i \in 1 .. Len(s) : Append(s, q)[i] = s[i]
      /\ Append(s, q)[Len(s) + 1] = q
  BY AppendProperties
<1>2. Len(s) \in Nat
  BY LenProperties
<1>3. \A i \in 1 .. Len(s) + 1 : i \in 1 .. Len(s) \/ i = Len(s) + 1
  BY <1>2
<1>4. 1 .. Len(s) \subseteq 1 .. Len(s) + 1 /\ Len(s) + 1 \in 1 .. Len(s) + 1
  BY <1>2
<1>5. Ran(Append(s, q)) = Ran(s) \union {q}
  BY <1>1, <1>3, <1>4 DEF Ran
<1>6. Distinct(s) /\ q \notin Ran(s) => Distinct(Append(s, q))
  BY <1>1, <1>3 DEF Ran, Distinct
<1> QED
  BY <1>1, <1>5, <1>6

\* The head of a line: one less stands in it.
LEMMA Leading ==
    ASSUME NEW S, NEW s \in Seq(S), s # << >>, Distinct(s)
    PROVE  /\ Tail(s) \in Seq(S) /\ Head(s) \in S /\ Head(s) \in Ran(s)
           /\ Ran(Tail(s)) = Ran(s) \ {Head(s)}
           /\ Distinct(Tail(s))
<1>1. /\ Tail(s) \in Seq(S) /\ Head(s) \in S /\ Len(Tail(s)) = Len(s) - 1
      /\ \A i \in 1 .. Len(Tail(s)) : Tail(s)[i] = s[i + 1]
  BY HeadTailProperties
<1>2. Len(s) \in Nat \ {0}
  BY EmptySeq
<1>3. Head(s) = s[1]
  OBVIOUS
<1>4. \A i \in 1 .. Len(s) - 1 : i + 1 \in 1 .. Len(s) /\ i + 1 # 1
  BY <1>2
<1>5. \A i \in 1 .. Len(s) : i = 1 \/ (i - 1 \in 1 .. Len(s) - 1 /\ (i - 1) + 1 = i)
  BY <1>2
<1>6. 1 \in 1 .. Len(s)
  BY <1>2
<1>7. Ran(Tail(s)) \subseteq Ran(s) \ {Head(s)}
  BY <1>1, <1>3, <1>4, <1>6 DEF Ran, Distinct
<1>8. Ran(s) \ {Head(s)} \subseteq Ran(Tail(s))
  <2> SUFFICES ASSUME NEW i \in 1 .. Len(s), s[i] # Head(s)
               PROVE  s[i] \in Ran(Tail(s))
    BY DEF Ran
  <2>1. i - 1 \in 1 .. Len(Tail(s)) /\ Tail(s)[i - 1] = s[i]
    BY <1>1, <1>3, <1>5
  <2> QED
    BY <2>1 DEF Ran
<1>9. Distinct(Tail(s))
  <2> SUFFICES ASSUME NEW i \in 1 .. Len(s) - 1, NEW j \in 1 .. Len(s) - 1, s[i + 1] = s[j + 1]
               PROVE  i = j
    BY <1>1 DEF Distinct
  <2>1. i + 1 = j + 1
    BY <1>4 DEF Distinct
  <2> QED
    BY <2>1
<1> QED
  BY <1>1, <1>3, <1>6, <1>7, <1>8, <1>9 DEF Ran

\* The place of one that gives up: the others keep theirs.
LEMMA Leaving ==
    ASSUME NEW S, NEW s \in Seq(S), NEW q, Distinct(s)
    PROVE  /\ Without(s, q) \in Seq(S)
           /\ Ran(Without(s, q)) = Ran(s) \ {q}
           /\ Distinct(Without(s, q))
<1>1. CASE \A i \in 1 .. Len(s) : s[i] # q
  BY <1>1 DEF Without, Ran
<1>2. CASE \E i \in 1 .. Len(s) : s[i] = q
  <2> DEFINE k == CHOOSE i \in 1 .. Len(s) : s[i] = q /\ \A j \in 1 .. i - 1 : s[j] # q
             t == [i \in 1 .. Len(s) - 1 |-> s[IF i < k THEN i ELSE i + 1]]
  <2>1. PICK a \in 1 .. Len(s) : s[a] = q
    BY <1>2
  <2>2. Len(s) \in Nat /\ a \in 1 .. Len(s) /\ s \in [1 .. Len(s) -> S]
    BY LenProperties
  <2>3. \A j \in 1 .. a - 1 : j \in 1 .. Len(s) /\ j # a
    BY <2>2
  <2>4. \A j \in 1 .. a - 1 : s[j] # q
    BY <2>1, <2>2, <2>3 DEF Distinct
  <2>5. k \in 1 .. Len(s) /\ s[k] = q
    BY <2>1, <2>4
  <2>6. Without(s, q) = t
    BY <1>2 DEF Without
  <2> HIDE DEF k
  <2>7. \A i \in 1 .. Len(s) - 1 : (IF i < k THEN i ELSE i + 1) \in (1 .. Len(s)) \ {k}
    BY <2>2, <2>5
  <2>8. t \in [1 .. Len(s) - 1 -> S] /\ Len(s) - 1 \in Nat
    BY <2>2, <2>5, <2>7
  <2>9. t \in Seq(S) /\ Len(t) = Len(s) - 1
    BY <2>8
  <2>10. \A i \in 1 .. Len(s) : i # k =>
            \E j \in 1 .. Len(s) - 1 : i = IF j < k THEN j ELSE j + 1
    <3> SUFFICES ASSUME NEW i \in 1 .. Len(s), i # k
                 PROVE  \E j \in 1 .. Len(s) - 1 : i = IF j < k THEN j ELSE j + 1
      OBVIOUS
    <3>1. CASE i < k
      BY <2>2, <2>5, <3>1
    <3>2. CASE i > k
      <4>1. i - 1 \in 1 .. Len(s) - 1 /\ ~(i - 1 < k) /\ i = (i - 1) + 1
        BY <2>2, <2>5, <3>2
      <4> QED
        BY <4>1
    <3> QED
      BY <2>2, <2>5, <3>1, <3>2
  <2>11. Ran(t) \subseteq Ran(s) \ {q}
    BY <2>5, <2>7, <2>9 DEF Ran, Distinct
  <2>12. Ran(s) \ {q} \subseteq Ran(t)
    <3> SUFFICES ASSUME NEW i \in 1 .. Len(s), s[i] # q
                 PROVE  s[i] \in Ran(t)
      BY DEF Ran
    <3>1. PICK j \in 1 .. Len(s) - 1 : i = IF j < k THEN j ELSE j + 1
      BY <2>5, <2>10
    <3>2. t[j] = s[i]
      BY <3>1
    <3> QED
      BY <2>9, <3>2 DEF Ran
  <2>13. Distinct(t)
    <3> SUFFICES ASSUME NEW i \in 1 .. Len(s) - 1, NEW j \in 1 .. Len(s) - 1, t[i] = t[j]
                 PROVE  i = j
      BY <2>9 DEF Distinct
    <3>1. (IF i < k THEN i ELSE i + 1) = (IF j < k THEN j ELSE j + 1)
      BY <2>7 DEF Distinct
    <3> QED
      BY <2>2, <2>5, <3>1
  <2> QED
    BY <2>6, <2>9, <2>11, <2>12, <2>13
<1> QED
  BY <1>1, <1>2

-----------------------------------------------------------------------------
(* The steps keep the permits.                                              *)

\* A step of a probe that neither enters nor leaves, or of nobody.
LEMMA StayingKeepsPermits ==
    ASSUME Permits, line' = line, holders' = holders,
           \A q \in Probes : /\ (q \in Inside)' <=> q \in Inside
                             /\ pc'[q] = "waiting" <=> pc[q] = "waiting"
    PROVE  Permits'
BY DEF Permits, HoldersAreInside, WaitersAreInLine, OnePlace, OnePermit

\* A probe that begins joins the line, and takes no permit before it enters.
LEMMA BeginKeepsPermits ==
    ASSUME TypeOK, Permits, NEW q \in Probes, NEW m \in Models, Start(q, m)
    PROVE  Permits'
<1>1. holders' = holders /\ pc[q] = "idle" /\ \A r \in Probes \ {q} : pc'[r] = pc[r]
  BY DEF Start, Move, TypeOK
<1>2. \A r \in Probes : (r \in Inside)' <=> r \in Inside
  BY <1>1 DEF Start, Move, TypeOK, Inside
<1>3. CASE MaxConcurrency = 0
  BY <1>1, <1>2, <1>3, StayingKeepsPermits DEF Start, Move, TypeOK
<1>4. CASE MaxConcurrency # 0
  <2>1. pc'[q] = "waiting" /\ line' = [line EXCEPT ![current] = Append(@, q)]
    BY <1>4 DEF Start, Move, TypeOK
  <2>2. \A s \in Sems : q \notin Ran(line[s])
    BY <1>1 DEF Permits, WaitersAreInLine
  <2>3. current \in Sems /\ line[current] \in Seq(Probes) /\ Distinct(line[current])
    BY DEF TypeOK, Permits, OnePlace
  <2>4. /\ Ran(line'[current]) = Ran(line[current]) \union {q} /\ Distinct(line'[current])
        /\ \A s \in Sems \ {current} : line'[s] = line[s]
    BY <2>1, <2>2, <2>3, Joining DEF TypeOK
  <2>5. HoldersAreInside' /\ OnePermit'
    BY <1>1, <1>2 DEF Permits, HoldersAreInside, OnePermit
  <2>6. WaitersAreInLine'
    BY <1>1, <2>1, <2>3, <2>4 DEF Permits, WaitersAreInLine
  <2>7. OnePlace'
    <3>1. \A s \in Sems : Distinct(line'[s])
      BY <2>4 DEF Permits, OnePlace
    <3>2. ASSUME NEW s \in Sems, NEW t \in Sems, NEW r \in Ran(line'[s]) \intersect Ran(line'[t])
          PROVE  s = t
      <4>1. CASE r = q
        BY <2>2, <2>4, <3>2, <4>1
      <4>2. CASE r # q
        BY <2>4, <3>2, <4>2 DEF Permits, OnePlace
      <4> QED
        BY <4>1, <4>2
    <3> QED
      BY <3>1, <3>2 DEF OnePlace
  <2> QED
    BY <2>5, <2>6, <2>7 DEF Permits
<1> QED
  BY <1>3, <1>4

\* A probe that enters takes the permit it has waited for.
LEMMA EnterKeepsPermits ==
    ASSUME TypeOK, Permits, NEW q \in Probes, Enter(q)
    PROVE  Permits'
<1>1. PICK s \in Sems : /\ line[s] # << >> /\ Head(line[s]) = q /\ holders[s] = {}
                        /\ line' = [line EXCEPT ![s] = Tail(@)]
                        /\ holders' = [holders EXCEPT ![s] = @ \union {q}]
  BY DEF Enter, HasPermit
<1>2. /\ pc[q] = "waiting" /\ pc'[q] = "gate" /\ \A r \in Probes \ {q} : pc'[r] = pc[r]
      /\ line[s] \in Seq(Probes) /\ Distinct(line[s])
  BY DEF Enter, Move, TypeOK, Permits, OnePlace
<1>3. /\ q \in Ran(line[s]) /\ Ran(line'[s]) = Ran(line[s]) \ {q} /\ Distinct(line'[s])
      /\ \A t \in Sems \ {s} : line'[t] = line[t]
  <2>1. /\ Head(line[s]) \in Ran(line[s]) /\ Ran(Tail(line[s])) = Ran(line[s]) \ {Head(line[s])}
        /\ Distinct(Tail(line[s]))
    BY <1>1, <1>2, Leading
  <2> QED
    BY <1>1, <2>1 DEF TypeOK
<1>4. holders'[s] = {q} /\ \A t \in Sems \ {s} : holders'[t] = holders[t]
  BY <1>1 DEF TypeOK
<1>5. \A r \in Probes : (r \in Inside)' <=> (r \in Inside \/ r = q)
  BY <1>2 DEF Inside
<1>6. HoldersAreInside'
  <2> SUFFICES ASSUME NEW r \in Probes
               PROVE  (\E t \in Sems : r \in holders'[t]) <=> (r \in Inside)'
    BY DEF HoldersAreInside
  <2>1. CASE r = q
    BY <1>4, <1>5, <2>1
  <2>2. CASE r # q
    BY <1>1, <1>4, <1>5, <2>2 DEF Permits, HoldersAreInside
  <2> QED
    BY <2>1, <2>2
<1>7. \A t \in Sems : q \in Ran(line[t]) => t = s
  BY <1>3 DEF Permits, OnePlace
<1>8. WaitersAreInLine'
  <2> SUFFICES ASSUME NEW r \in Probes
               PROVE  (\E t \in Sems : r \in Ran(line'[t])) <=> pc'[r] = "waiting"
    BY DEF WaitersAreInLine
  <2>1. CASE r = q
    BY <1>2, <1>3, <1>7, <2>1
  <2>2. CASE r # q
    BY <1>2, <1>3, <2>2 DEF Permits, WaitersAreInLine
  <2> QED
    BY <2>1, <2>2
<1>9. OnePlace'
  BY <1>3 DEF Permits, OnePlace
<1>10. OnePermit'
  BY <1>4 DEF Permits, OnePermit
<1> QED
  BY <1>6, <1>8, <1>9, <1>10 DEF Permits

\* A probe that ends releases what it held and stands nowhere.
LEMMA EndKeepsPermits ==
    ASSUME TypeOK, Permits, NEW q \in Probes, End(q),
           \A s \in Sems : Ran(line'[s]) = Ran(line[s]) \ {q} /\ Distinct(line'[s])
    PROVE  Permits'
<1>1. /\ pc'[q] = "idle" /\ \A r \in Probes \ {q} : pc'[r] = pc[r]
      /\ \A s \in Sems : holders'[s] = holders[s] \ {q}
  BY DEF End, Left, TypeOK
<1>2. HoldersAreInside' /\ WaitersAreInLine'
  BY <1>1 DEF Permits, HoldersAreInside, WaitersAreInLine, Inside
<1>3. OnePlace' /\ OnePermit'
  BY <1>1 DEF Permits, OnePlace, OnePermit
<1> QED
  BY <1>2, <1>3 DEF Permits

\* A probe that ends inside stands in no line.
LEMMA InsideStandsInNoLine ==
    ASSUME Permits, NEW q \in Probes, pc[q] # "waiting", UNCHANGED line
    PROVE  \A s \in Sems : Ran(line'[s]) = Ran(line[s]) \ {q} /\ Distinct(line'[s])
BY DEF Permits, WaitersAreInLine, OnePlace

\* So does one that is cancelled while it waits.
LEMMA AbortKeepsPermits ==
    ASSUME TypeOK, Permits, NEW q \in Probes, Abort(q)
    PROVE  Permits'
<1>1. \A s \in Sems : line[s] \in Seq(Probes) /\ Distinct(line[s])
  BY DEF TypeOK, Permits, OnePlace
<1>2. \A s \in Sems : line'[s] = Without(line[s], q)
  BY DEF Abort
<1>3. \A s \in Sems : Ran(line'[s]) = Ran(line[s]) \ {q} /\ Distinct(line'[s])
  BY <1>1, <1>2, Leaving
<1> QED
  BY <1>3, EndKeepsPermits DEF Abort

-----------------------------------------------------------------------------
(* What a probe writes into the row.                                        *)

\* An UPDATE, column by column.
LEMMA FlushedColumns ==
    ASSUME NEW old \in Rows, NEW new \in Rows, NEW stored \in Rows
    PROVE  /\ Flushed(old, new, stored) \in Rows
           /\ Flushed(old, new, stored).enabled = IF new.enabled # old.enabled THEN new.enabled ELSE stored.enabled
           /\ Flushed(old, new, stored).status = IF new.status # old.status THEN new.status ELSE stored.status
           /\ Flushed(old, new, stored).failures = IF new.failures # old.failures THEN new.failures ELSE stored.failures
<1>1. DOMAIN stored = {"enabled", "status", "failures"}
  BY DEF Rows
<1>2. Flushed(old, new, stored) =
        [enabled  |-> IF new.enabled # old.enabled THEN new.enabled ELSE stored.enabled,
         status   |-> IF new.status # old.status THEN new.status ELSE stored.status,
         failures |-> IF new.failures # old.failures THEN new.failures ELSE stored.failures]
  BY <1>1 DEF Flushed
<1> QED
  BY <1>2 DEF Rows

\* What an outcome makes of a row, column by column.
LEMMA UpdatedColumns ==
    ASSUME NEW c \in Rows, NEW o \in Outcomes, o # "ok" => c.failures < MaxFailures
    PROVE  /\ Updated(c, o) \in Rows
           /\ Updated(c, o).enabled = c.enabled
           /\ Updated(c, o).failures = IF o = "ok" THEN 0 ELSE c.failures + 1
           /\ Updated(c, o).status = IF o = "ok" THEN "online" ELSE FailureStatus(o, c.failures + 1)
<1>1. MaxFailures \in Nat
  BY ProbeAssumption DEF ProbeAssumption
<1>2. FailureStatus(o, c.failures + 1) \in Statuses
  BY DEF FailureStatus, Statuses
<1>3. "online" \in Statuses
  BY DEF Statuses
<1>4. c.enabled \in BOOLEAN /\ c.failures \in 0 .. MaxFailures
  BY DEF Rows
<1>5. CASE o = "ok"
  <2>1. Updated(c, o) = [enabled |-> c.enabled, status |-> "online", failures |-> 0]
    BY <1>5 DEF Updated, Rows
  <2>2. 0 \in 0 .. MaxFailures
    BY <1>1
  <2> QED
    BY <1>3, <1>4, <1>5, <2>1, <2>2 DEF Rows
<1>6. CASE o # "ok"
  <2>1. Updated(c, o) = [enabled |-> c.enabled, status |-> FailureStatus(o, c.failures + 1),
                         failures |-> c.failures + 1]
    BY <1>6 DEF Updated, Rows
  <2>2. c.failures + 1 \in 0 .. MaxFailures
    BY <1>1, <1>4, <1>6
  <2> QED
    BY <1>2, <1>4, <1>6, <2>1, <2>2 DEF Rows
<1> QED
  BY <1>5, <1>6

-----------------------------------------------------------------------------
(* Every step keeps the types.                                              *)

\* The end of a probe keeps the types.
LEMMA EndKeepsTypes ==
    ASSUME TypeOK, NEW q \in Probes, End(q), line' \in [Sems -> Seq(Probes)]
    PROVE  TypeOK'
<1>1. AnyModel \in Models /\ NewRow \in Rows /\ "ok" \in Outcomes
  BY ProbeAssumption DEF ProbeAssumption, AnyModel, NewRow, Rows, Statuses
<1>2. UNCHANGED <<row, current, wanted, last, trail, blurred>>
  BY DEF End, hist, recorded
<1> QED
  BY <1>1, <1>2 DEF TypeOK, End, Left

\* The beginning of a probe keeps the types.
LEMMA BeginKeepsTypes ==
    ASSUME TypeOK, NEW q \in Probes, NEW m \in Models, Start(q, m)
    PROVE  TypeOK'
<1>1. line' \in [Sems -> Seq(Probes)]
  <2>1. CASE MaxConcurrency = 0
    BY <2>1 DEF TypeOK, Start
  <2>2. CASE MaxConcurrency # 0
    <3>1. line[current] \in Seq(Probes)
      BY DEF TypeOK
    <3>2. Append(line[current], q) \in Seq(Probes)
      BY <3>1, Joining
    <3> QED
      BY <2>2, <3>2 DEF TypeOK, Start
  <2> QED
    BY <2>1, <2>2
<1>2. pc' \in [Probes -> {"idle", "root", "waiting", "gate", "call", "record", "tell", "admin"}]
  BY DEF TypeOK, Start, Move
<1>3. UNCHANGED <<outcome, row, holders, current, wanted, last, trail, passed, blurred, told>>
  BY DEF Start, hist, recorded
<1> QED
  BY <1>1, <1>2, <1>3 DEF TypeOK, Start

\* Entering keeps the types.
LEMMA EnterKeepsTypes ==
    ASSUME TypeOK, Permits, NEW q \in Probes, Enter(q)
    PROVE  TypeOK'
<1>1. PICK s \in Sems : /\ line[s] # << >> /\ line' = [line EXCEPT ![s] = Tail(@)]
                        /\ holders' = [holders EXCEPT ![s] = @ \union {q}]
  BY DEF Enter
<1>2. Tail(line[s]) \in Seq(Probes)
  <2>1. line[s] \in Seq(Probes) /\ Distinct(line[s])
    BY DEF TypeOK, Permits, OnePlace
  <2> QED
    BY <1>1, <2>1, Leading
<1>3. pc' \in [Probes -> {"idle", "root", "waiting", "gate", "call", "record", "tell", "admin"}]
  BY DEF TypeOK, Enter, Move
<1>4. UNCHANGED <<of, seen, outcome, row, current, wanted, last, trail, passed, blurred, told>>
  BY DEF Enter, hist, recorded
<1> QED
  BY <1>1, <1>2, <1>3, <1>4 DEF TypeOK

\* A cancellation keeps the types.
LEMMA AbortKeepsTypes ==
    ASSUME TypeOK, Permits, NEW q \in Probes, Abort(q)
    PROVE  TypeOK'
<1>1. \A s \in Sems : line[s] \in Seq(Probes) /\ Distinct(line[s])
  BY DEF TypeOK, Permits, OnePlace
<1>2. \A s \in Sems : Without(line[s], q) \in Seq(Probes)
  BY <1>1, Leaving
<1> QED
  BY <1>2, EndKeepsTypes DEF Abort

\* What a probe writes is a row, and tells its last outcome and the failures up
\* to it if no other probe has recorded in between, whatever the user has done to
\* the row since it was read.
LEMMA RecordWrites ==
    ASSUME IInv, NEW q \in Probes, Record(q)
    PROVE  LET m == of[q]
               o == outcome[q]
           IN  /\ row'[m] \in Rows
               /\ row'[m].enabled = row[m].enabled
               /\ trail'[m] \in 0 .. MaxFailures
               /\ last'[m] = o
               /\ \A n \in Models \ {m} : row'[n] = row[n] /\ trail'[n] = trail[n] /\ last'[n] = last[n]
               /\ m \notin blurred' =>
                     /\ row'[m].failures = trail'[m]
                     /\ row'[m].status = IF o = "ok" THEN "online" ELSE FailureStatus(o, trail'[m])
<1> DEFINE m == of[q]
           o == outcome[q]
<1>1. m \in Models /\ o \in Outcomes /\ seen[q] \in Rows /\ row[m] \in Rows /\ trail[m] \in 0 .. MaxFailures
  BY DEF IInv, TypeOK
<1>2. pc[q] = "record"
  BY DEF Record
<1>3. q \notin passed => seen[q].status = row[m].status /\ seen[q].failures = row[m].failures
  BY <1>1, <1>2 DEF IInv, Rowwise, SnapshotIsCurrent, BeforeRecord
<1>4. o # "ok" => trail[m] < MaxFailures /\ seen[q].failures < MaxFailures
  BY <1>2 DEF IInv, Rowwise, RoomToCount, Record
<1>5. m \notin blurred => row[m].failures = trail[m]
  BY <1>1 DEF IInv, Rowwise, CountIsTrail
<1>6. /\ row'[m] = Flushed(seen[q], Updated(seen[q], o), row[m])
      /\ last'[m] = o
      /\ trail'[m] = IF o = "ok" THEN 0 ELSE trail[m] + 1
      /\ \A n \in Models \ {m} : row'[n] = row[n] /\ trail'[n] = trail[n] /\ last'[n] = last[n]
      /\ m \notin blurred' => q \notin passed /\ (o = "ok" \/ m \notin blurred)
  BY <1>1 DEF Record, IInv, TypeOK
<1> HIDE DEF m, o
<1>7. /\ Updated(seen[q], o) \in Rows
      /\ Updated(seen[q], o).enabled = seen[q].enabled
      /\ Updated(seen[q], o).failures = IF o = "ok" THEN 0 ELSE seen[q].failures + 1
      /\ Updated(seen[q], o).status = IF o = "ok" THEN "online" ELSE FailureStatus(o, seen[q].failures + 1)
  BY <1>1, <1>4, UpdatedColumns
<1>8. /\ row'[m] \in Rows
      /\ row'[m].enabled = row[m].enabled
      /\ q \notin passed => /\ row'[m].failures = Updated(seen[q], o).failures
                            /\ row'[m].status = Updated(seen[q], o).status
  BY <1>1, <1>3, <1>6, <1>7, FlushedColumns
<1>9. trail'[m] \in 0 .. MaxFailures
  BY <1>1, <1>4, <1>6, ProbeAssumption DEF ProbeAssumption
<1>10. m \notin blurred' =>
            /\ row'[m].failures = trail'[m]
            /\ row'[m].status = IF o = "ok" THEN "online" ELSE FailureStatus(o, trail'[m])
  BY <1>3, <1>5, <1>6, <1>7, <1>8
<1> QED
  BY <1>6, <1>8, <1>9, <1>10 DEF m, o

\* Recording keeps the types; the bound on failures is respected.
LEMMA RecordKeepsTypes ==
    ASSUME IInv, NEW q \in Probes, Record(q)
    PROVE  TypeOK'
<1>1. \A n \in Models : row'[n] \in Rows /\ trail'[n] \in 0 .. MaxFailures /\ last'[n] \in Outcomes \union {"none"}
  BY RecordWrites DEF IInv, TypeOK
<1>2. row' = [n \in Models |-> row'[n]] /\ trail' = [n \in Models |-> trail'[n]] /\ last' = [n \in Models |-> last'[n]]
  BY DEF IInv, TypeOK, Record
<1>3. row' \in [Models -> Rows] /\ trail' \in [Models -> 0 .. MaxFailures] /\ last' \in [Models -> Outcomes \union {"none"}]
  BY <1>1, <1>2
<1>4. pc' \in [Probes -> {"idle", "root", "waiting", "gate", "call", "record", "tell", "admin"}]
  BY DEF IInv, TypeOK, Record
<1>5. UNCHANGED <<of, seen, outcome, line, holders, current, wanted, told>>
  BY DEF Record, sems
<1>6. passed' \subseteq Probes /\ blurred' \subseteq Models
  BY DEF IInv, TypeOK, Record, Holding
<1> QED
  BY <1>3, <1>4, <1>5, <1>6 DEF IInv, TypeOK

-----------------------------------------------------------------------------
(* Every step keeps the rows right.                                         *)

\* The row a probe resolves at its beginning is current.
LEMMA BeginKeepsRows ==
    ASSUME TypeOK, Rowwise, NEW q \in Probes, NEW m \in Models, Start(q, m)
    PROVE  Rowwise'
<1>1. /\ of'[q] = m /\ seen'[q] = row[m] /\ pc'[q] \in {"root", "waiting"}
      /\ \A r \in Probes \ {q} : of'[r] = of[r] /\ seen'[r] = seen[r] /\ pc'[r] = pc[r]
      /\ UNCHANGED <<outcome, row, wanted, last, trail, passed, blurred>>
  BY DEF Start, Move, TypeOK, hist, recorded
<1>2. SnapshotIsCurrent'
  BY <1>1 DEF Rowwise, SnapshotIsCurrent
<1>3. RoomToCount'
  BY <1>1 DEF Rowwise, RoomToCount
<1>4. CountIsTrail' /\ StatusFollowsLatest' /\ EditsSurvive'
  BY <1>1 DEF Rowwise, CountIsTrail, StatusFollowsLatest, EditsSurvive
<1> QED
  BY <1>2, <1>3, <1>4 DEF Rowwise

\* A step that writes no row and leaves a probe at its model and its snapshot.
LEMMA WritingNothingKeepsRows ==
    ASSUME Rowwise, UNCHANGED <<row, wanted, last, trail, blurred>>,
           \A q \in Probes : pc'[q] # "idle" => /\ pc[q] # "idle" /\ of'[q] = of[q] /\ seen'[q] = seen[q]
                                                /\ q \in passed' <=> q \in passed
                                                /\ pc'[q] \in BeforeRecord => pc[q] \in BeforeRecord
                                                /\ pc'[q] = "record" /\ pc[q] # "record" /\ outcome'[q] # "ok"
                                                      => seen[q].failures < MaxFailures
                                                /\ pc[q] = "record" => outcome'[q] = outcome[q]
    PROVE  Rowwise'
<1>1. SnapshotIsCurrent'
  BY DEF Rowwise, SnapshotIsCurrent, BeforeRecord
<1>2. RoomToCount'
  BY DEF Rowwise, RoomToCount
<1>3. CountIsTrail' /\ StatusFollowsLatest' /\ EditsSurvive'
  BY DEF Rowwise, CountIsTrail, StatusFollowsLatest, EditsSurvive
<1> QED
  BY <1>1, <1>2, <1>3 DEF Rowwise

\* Recording writes the status from a copy that was current, or blurs the model.
LEMMA RecordKeepsRows ==
    ASSUME IInv, NEW q \in Probes, Record(q)
    PROVE  Rowwise'
<1> DEFINE m == of[q]
<1>1. /\ m \in Models /\ pc[q] = "record" /\ pc'[q] \in {"tell", "admin"} /\ wanted' = wanted
      /\ UNCHANGED <<of, seen, outcome>> /\ \A r \in Probes \ {q} : pc'[r] = pc[r]
  BY DEF Record, IInv, TypeOK
<1>2. /\ row'[m].enabled = row[m].enabled /\ last'[m] = outcome[q] /\ trail'[m] \in 0 .. MaxFailures
      /\ \A n \in Models \ {m} : row'[n] = row[n] /\ trail'[n] = trail[n] /\ last'[n] = last[n]
      /\ m \notin blurred' =>
            /\ row'[m].failures = trail'[m]
            /\ row'[m].status = IF outcome[q] = "ok" THEN "online" ELSE FailureStatus(outcome[q], trail'[m])
  BY RecordWrites
<1>3. \A r \in Probes \ {q} : pc[r] \in BeforeRecord /\ r \notin passed' => r \notin passed /\ of[r] \in Models \ {m}
  BY <1>1 DEF IInv, TypeOK, Record, Holding, BeforeRecord
<1>4. \A n \in Models \ {m} : n \in blurred' <=> n \in blurred
  BY DEF Record
<1> HIDE DEF m
<1>5. SnapshotIsCurrent'
  BY <1>1, <1>2, <1>3 DEF IInv, Rowwise, SnapshotIsCurrent, BeforeRecord
<1>6. RoomToCount'
  BY <1>1 DEF IInv, Rowwise, RoomToCount
<1>7. CountIsTrail' /\ EditsSurvive'
  BY <1>1, <1>2, <1>4 DEF IInv, Rowwise, CountIsTrail, EditsSurvive
<1>8. StatusFollowsLatest'
  <2> SUFFICES ASSUME NEW n \in Models, n \notin blurred', last'[n] # "none"
               PROVE  /\ row'[n].failures = trail'[n]
                      /\ row'[n].status = IF last'[n] = "ok" THEN "online" ELSE
                             CASE last'[n] = "auth" -> "unauthorized" [] last'[n] = "limited" -> "rate_limited"
                               [] last'[n] = "missing" -> "not_found"
                               [] OTHER -> IF trail'[n] < Threshold THEN "suspect" ELSE "offline"
    BY DEF StatusFollowsLatest
  <2>1. CASE n = m
    <3>1. Threshold \in Nat
      BY ProbeAssumption DEF ProbeAssumption
    <3> QED
      BY <1>2, <2>1, <3>1 DEF FailureStatus
  <2>2. CASE n # m
    BY <1>2, <1>4, <2>2 DEF IInv, Rowwise, StatusFollowsLatest
  <2> QED
    BY <2>1, <2>2
<1> QED
  BY <1>5, <1>6, <1>7, <1>8 DEF Rowwise

\* A user's edit changes the column no probe writes.
LEMMA EditKeepsIInv ==
    ASSUME IInv, NEW m \in Models, NEW e \in BOOLEAN, SetEnabled(m, e)
    PROVE  IInv'
<1>1. /\ row[m] \in Rows /\ UNCHANGED <<pc, of, seen, outcome, line, holders, current, last, trail,
                                          passed, blurred, told>>
      /\ row' = [row EXCEPT ![m].enabled = e] /\ wanted' = [wanted EXCEPT ![m] = e]
  BY DEF SetEnabled, IInv, TypeOK, sems, recorded
<1>2. /\ row'[m].enabled = e /\ row'[m].status = row[m].status /\ row'[m].failures = row[m].failures
      /\ row'[m] \in Rows /\ wanted'[m] = e
      /\ \A n \in Models \ {m} : row'[n] = row[n] /\ wanted'[n] = wanted[n]
  BY <1>1 DEF IInv, TypeOK, Rows
<1>3. TypeOK'
  BY <1>1, <1>2 DEF IInv, TypeOK
<1>4. Permits'
  BY <1>1, StayingKeepsPermits DEF IInv, Inside
<1>5. \A n \in Models : row'[n].status = row[n].status /\ row'[n].failures = row[n].failures
  BY <1>2
<1>6. SnapshotIsCurrent' /\ RoomToCount' /\ CountIsTrail' /\ StatusFollowsLatest'
  BY <1>1, <1>5 DEF IInv, TypeOK, Rowwise, SnapshotIsCurrent, RoomToCount, CountIsTrail,
                    StatusFollowsLatest
<1>7. EditsSurvive'
  BY <1>1, <1>2 DEF IInv, Rowwise, EditsSurvive
<1> QED
  BY <1>3, <1>4, <1>6, <1>7 DEF IInv, Rowwise

\* The end of a probe leaves the rows alone.
LEMMA EndKeepsRows ==
    ASSUME TypeOK, Rowwise, NEW q \in Probes, End(q)
    PROVE  Rowwise'
<1>1. /\ pc'[q] = "idle" /\ UNCHANGED <<row, wanted, last, trail, blurred>>
      /\ \A r \in Probes \ {q} : /\ pc'[r] = pc[r] /\ of'[r] = of[r] /\ seen'[r] = seen[r]
                                 /\ outcome'[r] = outcome[r]
                                 /\ r \in passed' <=> r \in passed
  BY DEF End, TypeOK, hist, recorded
<1> QED
  BY <1>1, WritingNothingKeepsRows

-----------------------------------------------------------------------------
(* The invariant.                                                           *)

\* The invariant holds at the start.
LEMMA InitIInv == Init => IInv
<1> SUFFICES ASSUME Init
             PROVE  IInv
  OBVIOUS
<1>1. /\ AnyModel \in Models /\ NewRow \in Rows /\ "ok" \in Outcomes /\ 1 \in Sems
      /\ 0 \in 0 .. MaxFailures /\ NewRow.failures = 0 /\ NewRow.enabled = TRUE
  BY ProbeAssumption DEF ProbeAssumption, AnyModel, NewRow, Rows, Statuses, Sems
<1>2. << >> \in Seq(Probes) /\ Len(<< >>) = 0
  BY EmptySeq
<1>3. TypeOK
  BY <1>1, <1>2 DEF Init, TypeOK
<1>4. \A s \in Sems : Ran(line[s]) = {} /\ Distinct(line[s]) /\ holders[s] = {}
  BY <1>2 DEF Init, Ran, Distinct
<1>5. Permits
  BY <1>4 DEF Init, Permits, HoldersAreInside, WaitersAreInLine, OnePlace, OnePermit, Inside
<1>6. Rowwise
  BY <1>1 DEF Init, Rowwise, SnapshotIsCurrent, RoomToCount, CountIsTrail, StatusFollowsLatest,
             EditsSurvive, BeforeRecord
<1> QED
  BY <1>3, <1>5, <1>6 DEF IInv

\* Every step of a probe keeps the invariant.
LEMMA WorkKeepsIInv ==
    ASSUME IInv, NEW q \in Probes, Work(q)
    PROVE  IInv'
<1>1. CASE Enter(q)
  <2>1. /\ \A r \in Probes : pc'[r] = IF r = q THEN "gate" ELSE pc[r]
        /\ pc[q] = "waiting" /\ UNCHANGED <<of, seen, outcome, row, wanted, last, trail, passed, blurred>>
    BY <1>1 DEF Enter, Move, IInv, TypeOK, hist, recorded
  <2>2. Rowwise'
    BY <2>1, WritingNothingKeepsRows DEF IInv, BeforeRecord
  <2> QED
    BY <1>1, <2>2, EnterKeepsTypes, EnterKeepsPermits DEF IInv
<1>2. CASE Skip(q) \/ Admin(q)
  <2>1. pc[q] \in {"gate", "admin"} /\ End(q) /\ UNCHANGED line
    BY <1>2 DEF Skip, Admin
  <2>2. Permits'
    BY <2>1, InsideStandsInNoLine, EndKeepsPermits DEF IInv
  <2>3. TypeOK'
    BY <2>1, EndKeepsTypes DEF IInv, TypeOK
  <2> QED
    BY <2>1, <2>2, <2>3, EndKeepsRows DEF IInv
<1>3. CASE Admit(q)
  <2>1. /\ \A r \in Probes : pc'[r] = IF r = q THEN "call" ELSE pc[r]
        /\ pc[q] = "gate"
        /\ UNCHANGED <<of, seen, outcome, row, line, holders, current, wanted, last, trail,
                       passed, blurred, told>>
    BY <1>3 DEF Admit, Move, IInv, TypeOK, hist, recorded, sems
  <2>2. TypeOK'
    BY <1>3, <2>1 DEF Admit, Move, IInv, TypeOK
  <2>3. Permits'
    BY <2>1, StayingKeepsPermits DEF IInv, Inside
  <2>4. Rowwise'
    BY <2>1, WritingNothingKeepsRows DEF IInv, BeforeRecord
  <2> QED
    BY <2>2, <2>3, <2>4 DEF IInv
<1>4. ASSUME NEW o \in Outcomes, Return(q, o)
      PROVE  IInv'
  <2>1. /\ \A r \in Probes : pc'[r] = IF r = q THEN "record" ELSE pc[r]
        /\ pc[q] = "call" /\ (o # "ok" => seen[q].failures < MaxFailures)
        /\ \A r \in Probes : outcome'[r] = IF r = q THEN o ELSE outcome[r]
        /\ UNCHANGED <<of, seen, row, line, holders, current, wanted, last, trail,
                       passed, blurred, told>>
    BY <1>4 DEF Return, Move, IInv, TypeOK, hist, recorded, sems
  <2>2. TypeOK'
    BY <1>4, <2>1 DEF Return, Move, IInv, TypeOK
  <2>3. Permits'
    BY <2>1, StayingKeepsPermits DEF IInv, Inside
  <2>4. Rowwise'
    BY <2>1, WritingNothingKeepsRows DEF IInv, BeforeRecord
  <2> QED
    BY <2>2, <2>3, <2>4 DEF IInv
<1>5. CASE Record(q)
  <2>1. /\ \A r \in Probes \ {q} : pc'[r] = pc[r]
        /\ pc[q] = "record" /\ pc'[q] \in {"tell", "admin"} /\ UNCHANGED <<line, holders>>
    BY <1>5 DEF Record, IInv, TypeOK, sems
  <2>2. Permits'
    BY <2>1, StayingKeepsPermits DEF IInv, Inside
  <2> QED
    BY <1>5, <2>2, RecordKeepsTypes, RecordKeepsRows DEF IInv
<1>6. CASE Tell(q)
  <2>1. /\ \A r \in Probes : pc'[r] = IF r = q THEN "admin" ELSE pc[r]
        /\ pc[q] = "tell"
        /\ UNCHANGED <<of, seen, outcome, row, line, holders, current, wanted, last, trail,
                       passed, blurred>>
    BY <1>6 DEF Tell, Move, IInv, TypeOK, hist, recorded, sems
  <2>2. TypeOK'
    BY <1>6, <2>1 DEF Tell, Move, IInv, TypeOK
  <2>3. Permits'
    BY <2>1, StayingKeepsPermits DEF IInv, Inside
  <2>4. Rowwise'
    BY <2>1, WritingNothingKeepsRows DEF IInv, BeforeRecord
  <2> QED
    BY <2>2, <2>3, <2>4 DEF IInv
<1> QED
  BY <1>1, <1>2, <1>3, <1>4, <1>5, <1>6 DEF Work

\* Every step but the dropping of a semaphore keeps the invariant.
LEMMA CommonKeepsIInv == IInv /\ [Common]_vars => IInv'
<1> SUFFICES ASSUME IInv, [Common]_vars
             PROVE  IInv'
  OBVIOUS
<1>1. ASSUME NEW q \in Probes, Work(q)
      PROVE  IInv'
  BY <1>1, WorkKeepsIInv
<1>2. ASSUME NEW q \in Probes, Abort(q)
      PROVE  IInv'
  BY <1>2, AbortKeepsTypes, AbortKeepsPermits, EndKeepsRows DEF IInv, Abort
<1>3. ASSUME NEW q \in Probes, NEW m \in Models, Start(q, m)
      PROVE  IInv'
  BY <1>3, BeginKeepsTypes, BeginKeepsPermits, BeginKeepsRows DEF IInv
<1>4. ASSUME NEW m \in Models, NEW e \in BOOLEAN, SetEnabled(m, e)
      PROVE  IInv'
  BY <1>4, EditKeepsIInv
<1>5. CASE UNCHANGED vars
  <2>1. TypeOK'
    BY <1>5 DEF vars, IInv, TypeOK
  <2>2. Permits'
    BY <1>5, StayingKeepsPermits DEF vars, IInv, Inside
  <2>3. Rowwise'
    BY <1>5, WritingNothingKeepsRows DEF vars, IInv
  <2> QED
    BY <2>1, <2>2, <2>3 DEF IInv
<1> QED
  BY <1>1, <1>2, <1>3, <1>4, <1>5 DEF Common

\* A dropped semaphore goes on to serve those who hold it or wait for it.
LEMMA DropKeepsIInv == IInv /\ DropSemaphore => IInv'
<1> SUFFICES ASSUME IInv, DropSemaphore
             PROVE  IInv'
  OBVIOUS
<1>1. /\ UNCHANGED <<pc, of, seen, outcome, row, line, holders, wanted, last, trail,
                       passed, blurred, told>>
      /\ current' = current + 1 /\ current < MaxSems
  BY DEF DropSemaphore, hist, recorded
<1>2. current' \in Sems
  BY <1>1, ProbeAssumption DEF ProbeAssumption, IInv, TypeOK, Sems
<1>3. TypeOK'
  BY <1>1, <1>2 DEF IInv, TypeOK
<1>4. Permits'
  BY <1>1, StayingKeepsPermits DEF IInv, Inside
<1>5. Rowwise'
  BY <1>1, WritingNothingKeepsRows DEF IInv
<1> QED
  BY <1>3, <1>4, <1>5 DEF IInv

\* Every reachable state satisfies the invariant, also when semaphores are
\* dropped while they are held.
THEOREM Inductive == (Spec => []IInv) /\ (DroppedSpec => []IInv)
<1>1. Init => IInv
  BY InitIInv
<1>2. IInv /\ [Common]_vars => IInv'
  BY CommonKeepsIInv
<1>3. IInv /\ [Common \/ DropSemaphore]_vars => IInv'
  BY CommonKeepsIInv, DropKeepsIInv
<1>4. Spec => []IInv
  BY <1>1, <1>2, PTL DEF Spec
<1>5. DroppedSpec => []IInv
  BY <1>1, <1>3, PTL DEF DroppedSpec
<1> QED
  BY <1>4, <1>5

\* All variables have their types; the rows hold no count beyond the bound.
THEOREM TypeCorrect == Spec => []TypeOK
<1>1. IInv => TypeOK
  BY DEF IInv
<1> QED
  BY <1>1, Inductive, PTL

\* The permit is held exactly by the probes inside, and a waiting probe stands in
\* one place of one line: also when the semaphore is dropped.
THEOREM PermitsAreKept == (Spec => []PermitMatches) /\ (DroppedSpec => []PermitMatches)
<1>1. ASSUME IInv
      PROVE  PermitMatches
  <2>1. UNION {holders[s] : s \in Sems} = Inside
    <3>1. \A s \in Sems : holders[s] \subseteq Probes
      BY <1>1 DEF IInv, TypeOK
    <3> QED
      BY <1>1, <3>1 DEF IInv, Permits, HoldersAreInside, Inside
  <2>2. UNION {{line[s][i] : i \in 1 .. Len(line[s])} : s \in Sems} = {q \in Probes : pc[q] = "waiting"}
    <3>1. \A s \in Sems : Ran(line[s]) \subseteq Probes
      <4> SUFFICES ASSUME NEW s \in Sems, NEW i \in 1 .. Len(line[s])
                   PROVE  line[s][i] \in Probes
        BY DEF Ran
      <4>1. line[s] \in Seq(Probes)
        BY <1>1 DEF IInv, TypeOK
      <4> QED
        BY <4>1, ElementOfSeq
    <3>2. UNION {Ran(line[s]) : s \in Sems} = {q \in Probes : pc[q] = "waiting"}
      BY <1>1, <3>1 DEF IInv, Permits, WaitersAreInLine
    <3> QED
      BY <3>2 DEF Ran
  <2>3. ASSUME NEW s \in Sems, NEW t \in Sems, NEW i \in 1 .. Len(line[s]), NEW j \in 1 .. Len(line[t]),
               line[s][i] = line[t][j]
        PROVE  s = t /\ i = j
    <3>1. line[s][i] \in Ran(line[s]) \intersect Ran(line[t])
      BY <2>3 DEF Ran
    <3>2. s = t
      BY <1>1, <3>1 DEF IInv, Permits, OnePlace
    <3> QED
      BY <1>1, <2>3, <3>2 DEF IInv, Permits, OnePlace, Distinct
  <2> QED
    BY <2>1, <2>2, <2>3 DEF PermitMatches
<1> QED
  BY <1>1, Inductive, PTL

\* The status and the counter of a model follow its last outcome, although they
\* are computed from a row read before the wait, however the probes overlap, as long
\* as none has recorded over a record made since it read the row: also when the
\* semaphore is dropped.
THEOREM StatusIsLatest == (Spec => []StatusFollowsLatest) /\ (DroppedSpec => []StatusFollowsLatest)
<1>1. IInv => StatusFollowsLatest
  BY DEF IInv, Rowwise
<1> QED
  BY <1>1, Inductive, PTL

\* No probe undoes what a user has saved while it waited or ran.
THEOREM EditsAreKept == (Spec => []EditsSurvive) /\ (DroppedSpec => []EditsSurvive)
<1>1. IInv => EditsSurvive
  BY DEF IInv, Rowwise
<1> QED
  BY <1>1, Inductive, PTL

(* While no semaphore is dropped there is the first one only.               *)

OneSemaphore ==
    /\ current = 1
    /\ \A s \in Sems : s # 1 => line[s] = << >> /\ holders[s] = {}

\* The probes of a provider are sequential, as long as its semaphore is not dropped.
THEOREM Sequential == Spec => []OneAtATime
<1>1. Init => OneSemaphore
  BY DEF Init, OneSemaphore
<1>2. ASSUME IInv, OneSemaphore, [Common]_vars
      PROVE  OneSemaphore'
  <2>1. ASSUME NEW q \in Probes, Work(q)
        PROVE  OneSemaphore'
    <3>1. CASE Enter(q)
      BY <1>2, <3>1 DEF Enter, OneSemaphore, IInv, TypeOK
    <3>2. CASE Skip(q) \/ Admin(q)
      BY <1>2, <3>2 DEF Skip, Admin, End, Left, OneSemaphore
    <3>3. CASE Admit(q) \/ (\E o \in Outcomes : Return(q, o)) \/ Record(q) \/ Tell(q)
      BY <1>2, <3>3 DEF Admit, Return, Record, Tell, sems, OneSemaphore
    <3> QED
      BY <2>1, <3>1, <3>2, <3>3 DEF Work
  <2>2. ASSUME NEW q \in Probes, Abort(q)
        PROVE  OneSemaphore'
    <3>1. \A s \in Sems : s # 1 => Without(line[s], q) = line[s]
      BY <1>2 DEF OneSemaphore, Without
    <3>2. /\ current' = current
          /\ \A s \in Sems : line'[s] = Without(line[s], q) /\ holders'[s] = holders[s] \ {q}
      BY <2>2 DEF Abort, End, Left
    <3> QED
      BY <1>2, <3>1, <3>2 DEF OneSemaphore
  <2>3. ASSUME NEW q \in Probes, NEW m \in Models, Start(q, m)
        PROVE  OneSemaphore'
    BY <1>2, <2>3 DEF Start, OneSemaphore, IInv, TypeOK
  <2>4. ASSUME NEW m \in Models, NEW e \in BOOLEAN, SetEnabled(m, e)
        PROVE  OneSemaphore'
    BY <1>2, <2>4 DEF SetEnabled, sems, OneSemaphore
  <2>5. CASE UNCHANGED vars
    BY <1>2, <2>5 DEF vars, OneSemaphore
  <2> QED
    BY <1>2, <2>1, <2>2, <2>3, <2>4, <2>5 DEF Common
<1>3. ASSUME IInv, OneSemaphore
      PROVE  OneAtATime
  <2>1. \A q, r \in Inside : q = r
    <3> SUFFICES ASSUME NEW q \in Inside, NEW r \in Inside
                 PROVE  q = r
      OBVIOUS
    <3>1. q \in Probes /\ r \in Probes
      BY DEF Inside
    <3>2. q \in holders[1] /\ r \in holders[1] /\ 1 \in Sems
      BY <1>3, <3>1 DEF IInv, TypeOK, Permits, HoldersAreInside, OneSemaphore
    <3> QED
      BY <1>3, <3>2 DEF IInv, Permits, OnePermit
  <2>2. CASE Inside = {}
    BY <2>2, FS_EmptySet DEF OneAtATime
  <2>3. CASE Inside # {}
    <3>1. PICK q : Inside = {q}
      BY <2>1, <2>3
    <3> QED
      BY <3>1, FS_Singleton DEF OneAtATime
  <2> QED
    BY <2>2, <2>3
<1> QED
  BY <1>1, <1>2, <1>3, Inductive, PTL DEF Spec
=============================================================================

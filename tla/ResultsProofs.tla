--------------------------- MODULE ResultsProofs ---------------------------
(***************************************************************************)
(* That the readers of the probe log agree with the statuses of the        *)
(* models, and that neither cleanup changes what they show, for every      *)
(* number of models and rows, every retention and every threshold.         *)
(***************************************************************************)
EXTENDS Results, FiniteSetTheorems, TLAPS

(* The properties speak of what can be computed from the log; what makes    *)
(* them inductive is where the last check of a model is to be found in it:  *)
(* nothing is younger than it, and its row is the newest one for as long as *)
(* neither of the two cleanups takes it.                                    *)

NothingYounger == \A m \in Models : \A i \in RowsOf(m) : checked[m] <= row[i].age

LastIs(m, ok) ==
    \E i \in RowsOf(m) : Newest(i, RowsOf(m)) /\ row[i].ok = ok /\ row[i].age = checked[m]

SuccessIsThere ==
    \A m \in Models : status[m] = "online" /\ checked[m] <= Retention => LastIs(m, TRUE)

FailureIsThere ==
    \A m \in Models \ trimmed :
        status[m] # "online" /\ checked[m] <= Window => LastIs(m, FALSE)

IInv == TypeOK /\ NothingYounger /\ SuccessIsThere /\ FailureIsThere

-----------------------------------------------------------------------------

\* The thresholds are numbers, in the order the settings enforce.
LEMMA Bounds ==
    /\ {TTL, LIMIT, Window, Retention, StaleAge, Horizon} \subseteq Nat
    /\ TTL <= Window /\ Window <= Retention /\ Retention < Horizon /\ StaleAge < Horizon
BY ResultsAssumption DEF ResultsAssumption

\* The invariant holds at the start.
LEMMA InitIInv == Init => IInv
<1> SUFFICES ASSUME Init
             PROVE  IInv
  OBVIOUS
<1>1. DOMAIN row = {}
  BY DEF Init
<1>2. TypeOK
  BY <1>1, Bounds DEF Init, TypeOK, Statuses
<1>3. NothingYounger
  BY <1>1 DEF NothingYounger, RowsOf
<1>4. SuccessIsThere
  BY DEF Init, SuccessIsThere
<1>5. FailureIsThere
  BY Bounds DEF Init, FailureIsThere
<1> QED
  BY <1>2, <1>3, <1>4, <1>5 DEF IInv

\* Growing older keeps the order of ages.
LEMMA OlderIsLater ==
    /\ \A n \in 0 .. Horizon : Older(n) \in 0 .. Horizon /\ n <= Older(n)
    /\ \A n, k \in 0 .. Horizon : n <= k => Older(n) <= Older(k)
<1>1. Horizon \in Nat
  BY Bounds
<1>2. ASSUME NEW n \in 0 .. Horizon
      PROVE  Older(n) \in 0 .. Horizon /\ n <= Older(n)
  BY <1>1 DEF Older
<1>3. ASSUME NEW n \in 0 .. Horizon, NEW k \in 0 .. Horizon, n <= k
      PROVE  Older(n) <= Older(k)
  BY <1>1, <1>3 DEF Older
<1> QED
  BY <1>2, <1>3

\* A row grows older and changes nothing else.
LEMMA AgedRow ==
    ASSUME NEW r \in Row
    PROVE  /\ Aged(r) \in Row /\ Aged(r).age = Older(r.age)
           /\ Aged(r).of = r.of /\ Aged(r).ok = r.ok /\ Aged(r).pinned = r.pinned
<1>1. Older(r.age) \in 0 .. Horizon
  BY OlderIsLater DEF Row
<1> QED
  BY <1>1 DEF Aged, Row

\* A pin changes nothing else.
LEMMA FlaggedRow ==
    ASSUME NEW r \in Row, NEW p \in BOOLEAN
    PROVE  /\ Flagged(r, p) \in Row /\ Flagged(r, p).pinned = p
           /\ Flagged(r, p).of = r.of /\ Flagged(r, p).ok = r.ok /\ Flagged(r, p).age = r.age
BY DEF Flagged, Row

\* The passing of time keeps the invariant.
LEMMA TickKeepsIInv == IInv /\ Tick => IInv'
<1> SUFFICES ASSUME IInv, Tick
             PROVE  IInv'
  OBVIOUS
<1> USE Bounds DEF IInv
<1>1. /\ DOMAIN row' = DOMAIN row
      /\ \A i \in DOMAIN row : row[i] \in Row /\ row'[i] = Aged(row[i])
  BY DEF TypeOK, Tick
<1>2. \A i \in DOMAIN row : /\ row'[i].of = row[i].of /\ row'[i].ok = row[i].ok
                            /\ row'[i].pinned = row[i].pinned
                            /\ row'[i].age = Older(row[i].age)
                            /\ row[i].age \in 0 .. Horizon /\ row'[i] \in Row
  BY <1>1, AgedRow DEF Row
<1>3. /\ \A m \in Models : checked'[m] = Older(checked[m]) /\ checked[m] \in 0 .. Horizon
      /\ checked' \in [Models -> 0 .. Horizon]
      /\ UNCHANGED <<last, status, enabled, trimmed>>
  BY OlderIsLater DEF TypeOK, Tick
<1>4. \A m : RowsOf(m)' = RowsOf(m)
  BY <1>1, <1>2 DEF RowsOf
<1>5. TypeOK'
  BY <1>1, <1>2, <1>3, OlderIsLater DEF TypeOK
<1>6. NothingYounger'
  BY <1>1, <1>2, <1>3, <1>4, OlderIsLater DEF NothingYounger, RowsOf
<1>7. ASSUME NEW m \in Models, NEW ok \in BOOLEAN, LastIs(m, ok)
      PROVE  LastIs(m, ok)'
  BY <1>1, <1>2, <1>3, <1>4, <1>7 DEF LastIs, Newest, RowsOf
<1>8. \A m \in Models : checked[m] <= checked'[m] /\ checked[m] \in Nat /\ checked'[m] \in Nat
  BY <1>3, OlderIsLater
<1>9. SuccessIsThere'
  <2> SUFFICES ASSUME NEW m \in Models, status'[m] = "online", checked'[m] <= Retention
               PROVE  LastIs(m, TRUE)'
    BY DEF SuccessIsThere
  <2>1. status[m] = "online" /\ checked[m] <= Retention
    BY <1>3, <1>8
  <2> QED
    BY <1>7, <2>1 DEF SuccessIsThere
<1>10. FailureIsThere'
  <2> SUFFICES ASSUME NEW m \in Models \ trimmed', status'[m] # "online", checked'[m] <= Window
               PROVE  LastIs(m, FALSE)'
    BY DEF FailureIsThere
  <2>1. m \in Models \ trimmed /\ status[m] # "online" /\ checked[m] <= Window
    BY <1>3, <1>8
  <2> QED
    BY <1>7, <2>1 DEF FailureIsThere
<1> QED
  BY <1>5, <1>6, <1>9, <1>10

\* A recorded probe keeps it.
LEMMA RecordKeepsIInv ==
    ASSUME IInv, NEW m \in Models \union {List}, NEW ok \in BOOLEAN, Record(m, ok)
    PROVE  IInv'
<1> USE Bounds DEF IInv
<1> DEFINE New == [of |-> m, ok |-> ok, age |-> 0, pinned |-> FALSE]
<1>1. /\ last' \in Nat /\ last' = last + 1 /\ last' \notin DOMAIN row
      /\ DOMAIN row' = DOMAIN row \union {last'}
      /\ \A i \in DOMAIN row : row'[i] = row[i] /\ i \in 1 .. last /\ i < last'
  BY DEF TypeOK, Record
<1>2. row'[last'] = New /\ New \in Row
  BY DEF Record, Row
<1>3. /\ \A n \in Models : n # m => status'[n] = status[n] /\ checked'[n] = checked[n]
      /\ m \in Models => /\ checked'[m] = 0
                         /\ status'[m] = IF ok THEN "online" ELSE "failing"
      /\ trimmed' = trimmed \ {m} /\ enabled' = enabled
      /\ status' \in [Models -> Statuses] /\ checked' \in [Models -> 0 .. Horizon]
  BY DEF TypeOK, Record, Statuses
<1>4. /\ \A n \in Models : n # m => RowsOf(n)' = RowsOf(n)
      /\ last' \in RowsOf(m)'
  BY <1>1, <1>2 DEF RowsOf
<1>5. TypeOK'
  <2>1. DOMAIN row' \subseteq 1 .. last'
    BY <1>1 DEF TypeOK
  <2>2. \A i \in DOMAIN row' : row'[i] \in Row /\ ~(row'[i].ok /\ row'[i].pinned)
    BY <1>1, <1>2 DEF TypeOK
  <2>3. \A i \in DOMAIN row : row[i].age \in 0 .. Horizon
    BY DEF TypeOK, Row
  <2>4. ASSUME NEW i \in DOMAIN row', NEW j \in DOMAIN row', i < j
        PROVE  row'[i].age >= row'[j].age
    <3>1. i \in DOMAIN row
      BY <1>1, <2>4
    <3>2. CASE j \in DOMAIN row
      BY <1>1, <2>4, <3>1, <3>2 DEF TypeOK
    <3>3. CASE j = last'
      BY <1>1, <1>2, <2>3, <3>1, <3>3
    <3> QED
      BY <1>1, <3>2, <3>3
  <2> QED
    BY <1>1, <1>3, <2>1, <2>2, <2>4 DEF TypeOK
<1>6. ASSUME m \in Models
      PROVE  LastIs(m, ok)'
  BY <1>1, <1>2, <1>3, <1>4, <1>6 DEF LastIs, Newest, RowsOf
<1>7. ASSUME NEW n \in Models, n # m, NEW o \in BOOLEAN, LastIs(n, o)
      PROVE  LastIs(n, o)'
  BY <1>1, <1>3, <1>4, <1>7 DEF LastIs, Newest, RowsOf
<1>8. NothingYounger'
  <2> SUFFICES ASSUME NEW n \in Models, NEW i \in RowsOf(n)'
               PROVE  checked'[n] <= row'[i].age
    BY DEF NothingYounger
  <2>1. CASE n = m
    BY <1>3, <1>5, <2>1 DEF TypeOK, Row, RowsOf
  <2>2. CASE n # m
    BY <1>1, <1>3, <1>4, <2>2 DEF NothingYounger, RowsOf
  <2> QED
    BY <2>1, <2>2
<1>9. SuccessIsThere'
  <2> SUFFICES ASSUME NEW n \in Models, status'[n] = "online", checked'[n] <= Retention
               PROVE  LastIs(n, TRUE)'
    BY DEF SuccessIsThere
  <2>1. CASE n = m
    BY <1>3, <1>6, <2>1
  <2>2. CASE n # m
    BY <1>3, <1>7, <2>2 DEF SuccessIsThere
  <2> QED
    BY <2>1, <2>2
<1>10. FailureIsThere'
  <2> SUFFICES ASSUME NEW n \in Models \ trimmed', status'[n] # "online", checked'[n] <= Window
               PROVE  LastIs(n, FALSE)'
    BY DEF FailureIsThere
  <2>1. CASE n = m
    BY <1>3, <1>6, <2>1
  <2>2. CASE n # m
    BY <1>3, <1>7, <2>2 DEF FailureIsThere
  <2> QED
    BY <2>1, <2>2
<1> QED
  BY <1>5, <1>8, <1>9, <1>10

\* A pin changes nothing but a flag of a failure.
LEMMA FlagKeepsIInv ==
    ASSUME IInv, NEW i \in DOMAIN row, NEW p \in BOOLEAN, p => ~row[i].ok,
           row' = [row EXCEPT ![i] = Flagged(row[i], p)],
           UNCHANGED <<last, status, checked, enabled, trimmed>>
    PROVE  IInv'
<1> USE Bounds DEF IInv
<1>1. /\ DOMAIN row' = DOMAIN row
      /\ \A j \in DOMAIN row : row'[j] = IF j = i THEN Flagged(row[i], p) ELSE row[j]
      /\ \A j \in DOMAIN row : row[j] \in Row
  BY DEF TypeOK
<1>2. \A j \in DOMAIN row : /\ row'[j] \in Row /\ row'[j].of = row[j].of
                            /\ row'[j].ok = row[j].ok /\ row'[j].age = row[j].age
                            /\ row'[j].pinned = IF j = i THEN p ELSE row[j].pinned
  BY <1>1, FlaggedRow
<1>3. \A m : RowsOf(m)' = RowsOf(m)
  BY <1>1, <1>2 DEF RowsOf
<1>4. TypeOK'
  BY <1>1, <1>2 DEF TypeOK
<1>5. NothingYounger'
  BY <1>1, <1>2, <1>3 DEF NothingYounger, RowsOf
<1>6. ASSUME NEW m \in Models, NEW ok \in BOOLEAN, LastIs(m, ok)
      PROVE  LastIs(m, ok)'
  BY <1>1, <1>2, <1>3, <1>6 DEF LastIs, Newest, RowsOf
<1>7. SuccessIsThere' /\ FailureIsThere'
  BY <1>6 DEF SuccessIsThere, FailureIsThere
<1> QED
  BY <1>4, <1>5, <1>7

\* The rows that remain are as they were.
LEMMA KeepIsRestriction ==
    ASSUME NEW is, is \subseteq DOMAIN row, Keep(is)
    PROVE  /\ DOMAIN row' = is /\ \A i \in is : row'[i] = row[i]
           /\ \A m : RowsOf(m)' = RowsOf(m) \intersect is
BY DEF Keep, RowsOf

\* What a cleanup must leave: the newest row of a model that is online, if it is
\* within the retention, and that of any other model which is within the window and
\* not said to be trimmed.
LEMMA CleanupKeepsIInv ==
    ASSUME IInv, NEW is, is \subseteq DOMAIN row, Keep(is),
           UNCHANGED <<last, status, checked, enabled>>,
           trimmed \subseteq trimmed', trimmed' \subseteq Models,
           \A m \in Models, i \in DOMAIN row :
               /\ i \in RowsOf(m) /\ Newest(i, RowsOf(m)) /\ row[i].age = checked[m]
               /\ \/ row[i].ok /\ row[i].age <= Retention
                  \/ ~row[i].ok /\ row[i].age <= Window /\ m \notin trimmed'
               => i \in is
    PROVE  IInv'
<1> USE Bounds DEF IInv
<1>1. /\ DOMAIN row' = is /\ \A i \in is : row'[i] = row[i]
      /\ \A m : RowsOf(m)' = RowsOf(m) \intersect is
  BY KeepIsRestriction
<1>2. TypeOK'
  BY <1>1 DEF TypeOK
<1>3. NothingYounger'
  BY <1>1 DEF NothingYounger, RowsOf
<1>4. ASSUME NEW m \in Models, NEW ok \in BOOLEAN, LastIs(m, ok),
             ok => checked[m] <= Retention,
             ~ok => checked[m] <= Window /\ m \notin trimmed'
      PROVE  LastIs(m, ok)'
  <2>1. PICK i \in RowsOf(m) : Newest(i, RowsOf(m)) /\ row[i].ok = ok /\ row[i].age = checked[m]
    BY <1>4 DEF LastIs
  <2>2. i \in is
    BY <1>4, <2>1 DEF RowsOf
  <2> QED
    BY <1>1, <2>1, <2>2 DEF LastIs, Newest
<1>5. SuccessIsThere'
  BY <1>4 DEF SuccessIsThere
<1>6. FailureIsThere'
  BY <1>4 DEF FailureIsThere
<1> QED
  BY <1>2, <1>3, <1>5, <1>6

\* Every step keeps it.
LEMMA NextKeepsIInv == IInv /\ [Next]_vars => IInv'
<1> SUFFICES ASSUME IInv, [Next]_vars
             PROVE  IInv'
  OBVIOUS
<1> USE Bounds
<1>1. ASSUME NEW m \in Models \union {List}, NEW ok \in BOOLEAN, Record(m, ok)
      PROVE  IInv'
  BY <1>1, RecordKeepsIInv
<1>2. ASSUME NEW m \in Models, Toggle(m)
      PROVE  IInv'
  BY <1>2 DEF Toggle, IInv, TypeOK, NothingYounger, SuccessIsThere, FailureIsThere,
              LastIs, Newest, RowsOf
<1>3. ASSUME NEW i \in DOMAIN row, Pin(i)
      PROVE  IInv'
  BY <1>3, FlagKeepsIInv DEF Pin, Pinnable, Failures
<1>4. ASSUME NEW i \in DOMAIN row, Unpin(i)
      PROVE  IInv'
  BY <1>4, FlagKeepsIInv DEF Unpin
<1>5. CASE Tick
  BY <1>5, TickKeepsIInv
<1>6. CASE CleanupErrors
  <2>1. Kept \subseteq DOMAIN row /\ Keep(Kept) /\ UNCHANGED <<last, status, checked, enabled>>
    BY <1>6 DEF CleanupErrors, Kept
  <2>2. trimmed' = trimmed \union {m \in Models : \E i \in RowsOf(m) \ Kept : Newest(i, RowsOf(m))}
    BY <1>6 DEF CleanupErrors
  <2>3. trimmed \subseteq trimmed' /\ trimmed' \subseteq Models
    BY <2>2 DEF IInv, TypeOK
  <2>4. ASSUME NEW m \in Models, NEW i \in RowsOf(m), Newest(i, RowsOf(m)),
               row[i].ok \/ m \notin trimmed'
        PROVE  i \in Kept
    <3>1. CASE row[i].ok
      BY <3>1 DEF Kept, RowsOf
    <3>2. CASE m \notin trimmed'
      BY <2>2, <2>4, <3>2
    <3> QED
      BY <2>4, <3>1, <3>2
  <2> QED
    BY <2>1, <2>3, <2>4, CleanupKeepsIInv
<1>7. CASE CleanupOld
  <2>1. Retained \subseteq DOMAIN row /\ Keep(Retained)
        /\ UNCHANGED <<last, status, checked, enabled, trimmed>> /\ trimmed \subseteq Models
    BY <1>7 DEF CleanupOld, Retained, IInv, TypeOK
  <2>2. \A i \in DOMAIN row : row[i].age \in Nat
    BY DEF IInv, TypeOK, Row
  <2>3. \A i \in DOMAIN row : row[i].age <= Retention \/ row[i].age <= Window => i \in Retained
    BY <2>2 DEF Retained
  <2> QED
    BY <2>1, <2>3, CleanupKeepsIInv
<1>8. CASE UNCHANGED vars
  BY <1>8 DEF vars, IInv, TypeOK, NothingYounger, SuccessIsThere, FailureIsThere,
              LastIs, Newest, RowsOf
<1> QED
  BY <1>1, <1>2, <1>3, <1>4, <1>5, <1>6, <1>7, <1>8 DEF Next

\* Every reachable state satisfies the invariant.
THEOREM Inductive == Spec => []IInv
<1>1. Init => IInv
  BY InitIInv
<1>2. IInv /\ [Next]_vars => IInv'
  BY NextKeepsIInv
<1> QED
  BY <1>1, <1>2, PTL DEF Spec

\* The log and the statuses have their types; in particular, rows are as old as
\* their numbers say, and nothing successful is pinned.
THEOREM TypeCorrect == Spec => []TypeOK
<1>1. IInv => TypeOK
  BY DEF IInv
<1> QED
  BY <1>1, Inductive, PTL

-----------------------------------------------------------------------------
(* What the dashboard computes, against the statuses.                       *)

\* The newest row decides what is said of a model checked within the window.
LEMMA LastDecides ==
    ASSUME IInv, NEW m \in Models, NEW ok \in BOOLEAN, LastIs(m, ok), checked[m] <= Window
    PROVE  Probes(m) # {} /\ (Succeeds(m) <=> ok)
<1>1. PICK i \in RowsOf(m) : Newest(i, RowsOf(m)) /\ row[i].ok = ok /\ row[i].age = checked[m]
  BY DEF LastIs
<1>2. i \in Probes(m) /\ \A j \in Probes(m) : j <= i
  BY <1>1 DEF Probes, Recent, RowsOf, Newest
<1>3. \A j \in Probes(m) : i <= j => j = i
  <2>1. Probes(m) \subseteq Nat
    BY DEF Probes, RowsOf, IInv, TypeOK
  <2> QED
    BY <1>2, <2>1
<1>4. ASSUME ok
      PROVE  Succeeds(m)
  BY <1>1, <1>2, <1>4 DEF Succeeds, Newest
<1>5. ASSUME Succeeds(m)
      PROVE  ok
  BY <1>1, <1>2, <1>3, <1>5 DEF Succeeds, Newest
<1> QED
  BY <1>2, <1>4, <1>5

\* A model with a row in the window was checked within it.
LEMMA ProbedIsChecked ==
    ASSUME IInv, NEW m \in Models, Probes(m) # {}
    PROVE  checked[m] <= Window
<1>1. PICK i \in RowsOf(m) : row[i].age <= Window
  BY DEF Probes, Recent
<1>2. checked[m] <= row[i].age /\ row[i].age \in Nat /\ checked[m] \in Nat
  BY <1>1 DEF IInv, NothingYounger, TypeOK, Row, RowsOf
<1> QED
  BY <1>1, <1>2, Bounds

\* An online model checked within the window is available in the log.
LEMMA OnlineIsAvailable ==
    ASSUME IInv, NEW m \in Models, status[m] = "online", checked[m] <= Window
    PROVE  Succeeds(m) /\ Probes(m) # {}
<1>1. checked[m] <= Retention
  BY Bounds DEF IInv, TypeOK
<1>2. LastIs(m, TRUE)
  BY <1>1 DEF IInv, SuccessIsThere
<1> QED
  BY <1>2, LastDecides

\* Any other is not, unless its newest row was trimmed.
LEMMA OtherIsNot ==
    ASSUME IInv, NEW m \in Models \ trimmed, status[m] # "online", checked[m] <= Window
    PROVE  ~Succeeds(m) /\ Probes(m) # {}
<1>1. LastIs(m, FALSE)
  BY DEF IInv, FailureIsThere
<1> QED
  BY <1>1, LastDecides

\* The invariant implies that the rollup agrees.
LEMMA RollupFollows == IInv => RollupAgrees
<1> SUFFICES ASSUME IInv
             PROVE  RollupAgrees
  OBVIOUS
<1> DEFINE Judged == {m \in enabled : checked[m] <= Window}
<1>0. enabled \subseteq Models
  BY DEF IInv, TypeOK
<1>1. \A m \in Models : checked[m] <= Window /\ status[m] = "online" => m \in Available
  BY OnlineIsAvailable DEF Available
<1>2. ASSUME NEW m \in Available
      PROVE  status[m] = "online" \/ m \in trimmed
  <2>1. Probes(m) # {} /\ Succeeds(m) /\ m \in Models
    BY DEF Available, Succeeds
  <2>2. checked[m] <= Window
    BY <2>1, ProbedIsChecked
  <2> QED
    BY <2>1, <2>2, OtherIsNot
<1>3. ASSUME Health = "ok", enabled # {}, NEW m \in Judged
      PROVE  status[m] = "online" \/ m \in trimmed
  <2>1. Online = Known
    BY <1>3 DEF Health
  <2>2. SUFFICES ASSUME status[m] # "online", m \notin trimmed
                 PROVE  FALSE
    OBVIOUS
  <2>3. ~Succeeds(m) /\ Probes(m) # {}
    BY <1>0, <2>2, OtherIsNot
  <2> QED
    BY <2>1, <2>3 DEF Known, Online
<1>4. ASSUME Health = "fail", Probes(List) = {}, NEW m \in Judged
      PROVE  status[m] # "online"
  <2>1. Online = {}
    BY <1>4 DEF Health
  <2>2. SUFFICES ASSUME status[m] = "online"
                 PROVE  FALSE
    OBVIOUS
  <2>3. Succeeds(m) /\ Probes(m) # {}
    BY <1>0, <2>2, OnlineIsAvailable
  <2> QED
    BY <2>1, <2>3 DEF Known, Online
<1>5. ASSUME Health = "degraded"
      PROVE  \E m \in Judged : status[m] # "online"
  <2>1. Online # Known
    BY <1>5 DEF Health
  <2>2. PICK m \in Known : ~Succeeds(m)
    BY <2>1 DEF Online
  <2>3. m \in Judged
    BY <1>0, <2>2, ProbedIsChecked DEF Known
  <2>4. status[m] # "online"
    BY <1>0, <2>2, <2>3, OnlineIsAvailable
  <2> QED
    BY <2>3, <2>4
<1> QED
  BY <1>1, <1>2, <1>3, <1>4, <1>5 DEF RollupAgrees

\* The invariant implies that stale means old.
LEMMA StaleFollows == IInv => StaleMeansOld
<1> SUFFICES ASSUME IInv, NEW m \in Models, status[m] = "online"
             PROVE  /\ checked[m] > StaleAge => Stale(m)
                    /\ Stale(m) => checked[m] > StaleAge \/ checked[m] > Retention
  BY DEF StaleMeansOld
<1>1. checked[m] \in Nat /\ StaleAge \in Nat /\ Retention \in Nat
  BY Bounds DEF IInv, TypeOK
<1>2. ASSUME checked[m] > StaleAge
      PROVE  Stale(m)
  <2>1. \A i \in RowsOf(m) : checked[m] <= row[i].age /\ row[i].age \in Nat
    BY DEF IInv, NothingYounger, TypeOK, Row, RowsOf
  <2> QED
    BY <1>1, <1>2, <2>1 DEF Stale
<1>3. ASSUME checked[m] <= StaleAge, checked[m] <= Retention
      PROVE  ~Stale(m)
  <2>1. LastIs(m, TRUE)
    BY <1>3 DEF IInv, SuccessIsThere
  <2> QED
    BY <1>3, <2>1 DEF Stale, LastIs
<1> QED
  BY <1>1, <1>2, <1>3

\* The rollup of the dashboard agrees with the statuses of the models, whatever the
\* order of probes, toggles, pins and cleanups.
THEOREM RollupIsRight == Spec => []RollupAgrees
BY RollupFollows, Inductive, PTL

\* A card says "stale" of an online model exactly if its last check is too old, but
\* for a retention that is shorter than the threshold.
THEOREM StaleIsRight == Spec => []StaleMeansOld
BY StaleFollows, Inductive, PTL

-----------------------------------------------------------------------------
(* What the retention removes.                                              *)

\* A run of the retention changes no reading of the last day.
LEMMA RetentionStep ==
    ASSUME IInv, CleanupOld
    PROVE  /\ Recent' = Recent /\ Health' = Health /\ Listed' = Listed
           /\ \A m \in Models : Counts(m)' = Counts(m)
           /\ \A i \in DOMAIN row : row[i].pinned => i \in DOMAIN row'
<1> USE Bounds
<1>1. /\ Retained \subseteq DOMAIN row /\ Keep(Retained) /\ enabled' = enabled
      /\ \A i \in DOMAIN row : row[i].pinned \/ row[i].age <= Retention => i \in Retained
  BY DEF CleanupOld, Retained
<1>2. \A i \in DOMAIN row : row[i].age \in Nat
  BY DEF IInv, TypeOK, Row
<1>3. DOMAIN row' = Retained /\ \A i \in Retained : row'[i] = row[i]
  BY <1>1, KeepIsRestriction
<1>4. Recent \subseteq Retained /\ Visible \subseteq Retained
  BY <1>1, <1>2 DEF Recent, Visible, Failures
<1>5. Recent' = Recent /\ Visible' = Visible
  BY <1>1, <1>3, <1>4 DEF Recent, Visible, Failures
<1>6. \A m : Probes(m)' = Probes(m) /\ Probes(m) \subseteq Retained
  BY <1>1, <1>3, <1>4, <1>5 DEF Probes, RowsOf
<1>7. \A m : Succeeds(m)' <=> Succeeds(m)
  BY <1>3, <1>6 DEF Succeeds, Newest
<1>8. Known' = Known /\ Online' = Online
  BY <1>1, <1>6, <1>7 DEF Known, Online
<1>9. Health' = Health
  BY <1>1, <1>6, <1>7, <1>8 DEF Health
<1>10. \A i \in Visible : Above(i)' = Above(i)
  BY <1>3, <1>4, <1>5 DEF Above
<1>11. Listed' = Listed
  BY <1>5, <1>10 DEF Listed
<1>12. ASSUME NEW m \in Models
       PROVE  Counts(m)' = Counts(m)
  <2>1. {i \in Probes(m) : row[i].ok}' = {i \in Probes(m) : row[i].ok}
    BY <1>3, <1>6
  <2> QED
    BY <1>6, <2>1 DEF Counts
<1> QED
  BY <1>1, <1>3, <1>5, <1>9, <1>11, <1>12

\* The retention changes nothing that a page shows of the last day, and spares the
\* pinned errors.
THEOREM RetentionIsInvisible == Spec => RetentionInvisible
<1>1. IInv /\ [Next]_vars =>
        [CleanupOld =>
            /\ Recent' = Recent /\ Health' = Health /\ Listed' = Listed
            /\ \A m \in Models : Counts(m)' = Counts(m)
            /\ \A i \in DOMAIN row : row[i].pinned => i \in DOMAIN row']_vars
  BY RetentionStep
<1> QED
  BY <1>1, Inductive, PTL DEF Spec, RetentionInvisible

-----------------------------------------------------------------------------
(* What the error history trims.                                            *)

\* The visible failures below a row, as the cleanup counts them.
Later(i) == {j \in Visible : j > i}

\* There are finitely many failures, and fewer above or behind one of them than there
\* are in all.
LEMMA FewerAbove ==
    ASSUME IInv, NEW i \in Visible, NEW S \in SUBSET Visible
    PROVE  /\ IsFiniteSet(S) /\ Cardinality(S) \in Nat /\ Cardinality(Visible) \in Nat
           /\ i \notin S => Cardinality(S) < Cardinality(Visible)
<1>1. IsFiniteSet(Visible)
  <2>1. last \in Nat /\ Visible \subseteq 1 .. last
    BY DEF IInv, TypeOK, Visible, Failures
  <2>2. IsFiniteSet(1 .. last)
    BY <2>1, FS_Interval
  <2> QED
    BY <2>1, <2>2, FS_Subset
<1>2. IsFiniteSet(S) /\ Cardinality(S) \in Nat /\ Cardinality(Visible) \in Nat
  BY <1>1, FS_Subset, FS_CardinalityType
<1>3. ASSUME i \notin S PROVE Cardinality(S) < Cardinality(Visible)
  <2>1. S \subseteq Visible \ {i}
    BY <1>3
  <2>2. IsFiniteSet(Visible \ {i}) /\ Cardinality(Visible \ {i}) = Cardinality(Visible) - 1
    BY <1>1, FS_RemoveElement
  <2>3. Cardinality(S) <= Cardinality(Visible \ {i})
    BY <2>1, <2>2, FS_Subset
  <2> QED
    BY <1>2, <2>2, <2>3
<1> QED
  BY <1>2, <1>3

\* A run of the cleanup leaves the visible failures it keeps, as they were.
LEMMA TrimmedVisible ==
    ASSUME CleanupErrors
    PROVE  /\ Visible' = {i \in Visible : Cardinality(Later(i)) < LIMIT}
           /\ \A i \in Visible' : row'[i] = row[i] /\ Above(i)' = Above(i) \intersect Visible'
<1>1. Kept \subseteq DOMAIN row /\ Keep(Kept)
  BY DEF CleanupErrors, Kept, Visible, Failures
<1>2. DOMAIN row' = Kept /\ \A i \in Kept : row'[i] = row[i]
  BY <1>1, KeepIsRestriction
<1>3. Visible' = Visible \intersect Kept
  BY <1>1, <1>2 DEF Visible, Failures
<1>4. \A i \in Visible : i \in Kept <=> Cardinality(Later(i)) < LIMIT
  BY DEF Kept, Later, Visible, Failures
<1>5. Visible' = {i \in Visible : Cardinality(Later(i)) < LIMIT}
  BY <1>3, <1>4
<1>6. ASSUME NEW i \in Visible'
      PROVE  row'[i] = row[i] /\ Above(i)' = Above(i) \intersect Visible'
  <2>1. row'[i] = row[i] /\ \A j \in Visible' : row'[j] = row[j] /\ j \in Visible
    BY <1>2, <1>3
  <2> QED
    BY <2>1 DEF Above
<1> QED
  BY <1>5, <1>6

\* With nothing pinned, and with everything within the limit, the list of errors is
\* the visible failures that the cleanup keeps.
LEMMA ListedIsKept ==
    ASSUME IInv,
           ~\E i \in Visible : row[i].pinned /\ Cardinality(Visible) > LIMIT
    PROVE  Listed = {i \in Visible : Cardinality(Later(i)) < LIMIT}
<1>1. CASE Cardinality(Visible) > LIMIT
  <2>1. \A i \in Visible : row[i].pinned = FALSE
    BY <1>1 DEF IInv, TypeOK, Row, Visible, Failures
  <2>2. \A i \in Visible : Above(i) = Later(i)
    BY <2>1 DEF Above, Later
  <2> QED
    BY <2>2 DEF Listed
<1>2. CASE ~(Cardinality(Visible) > LIMIT)
  <2>1. ASSUME NEW i \in Visible
        PROVE  Cardinality(Above(i)) < LIMIT /\ Cardinality(Later(i)) < LIMIT
    <3>1. i \in Nat
      BY DEF IInv, TypeOK, Visible, Failures
    <3>2. Above(i) \in SUBSET Visible /\ i \notin Above(i)
      BY <3>1 DEF Above
    <3>3. Later(i) \in SUBSET Visible /\ i \notin Later(i)
      BY <3>1 DEF Later
    <3>4. /\ Cardinality(Above(i)) \in Nat /\ Cardinality(Later(i)) \in Nat
          /\ Cardinality(Visible) \in Nat
          /\ Cardinality(Above(i)) < Cardinality(Visible)
          /\ Cardinality(Later(i)) < Cardinality(Visible)
      BY <3>2, <3>3, FewerAbove
    <3> QED
      BY <1>2, <3>4, Bounds
  <2> QED
    BY <2>1 DEF Listed
<1> QED
  BY <1>1, <1>2

\* What the cleanup keeps is listed after it, as it was before.
LEMMA TrimStep ==
    ASSUME IInv, CleanupErrors
    PROVE  \/ \E i \in Visible : row[i].pinned /\ Cardinality(Visible) > LIMIT
           \/ Listed' = Listed
<1> SUFFICES ASSUME ~\E i \in Visible : row[i].pinned /\ Cardinality(Visible) > LIMIT
             PROVE  Listed' = Listed
  OBVIOUS
<1>1. Listed = Visible'
  BY ListedIsKept, TrimmedVisible
<1>2. Listed' = {i \in Visible' : Cardinality(Above(i)') < LIMIT}
  BY DEF Listed
<1>3. ASSUME NEW i \in Visible'
      PROVE  Cardinality(Above(i)') < LIMIT
  <2>1. i \in Visible /\ Cardinality(Above(i)) < LIMIT
    BY <1>1 DEF Listed
  <2>2. Above(i)' = Above(i) \intersect Visible' /\ Above(i) \in SUBSET Visible
    BY TrimmedVisible DEF Above
  <2>3. IsFiniteSet(Above(i)) /\ Cardinality(Above(i)) \in Nat
    BY <2>1, <2>2, FewerAbove
  <2>4. Cardinality(Above(i)') <= Cardinality(Above(i)) /\ Cardinality(Above(i)') \in Nat
    BY <2>2, <2>3, FS_Subset, FS_CardinalityType
  <2> QED
    BY <2>1, <2>3, <2>4, Bounds
<1> QED
  BY <1>1, <1>2, <1>3

\* Trimming the error history changes nothing that the list of errors shows, as long
\* as nothing in it is pinned or all of it fits.
THEOREM TrimIsInvisible == Spec => TrimInvisible
<1>1. IInv /\ [Next]_vars =>
        [CleanupErrors =>
            \/ \E i \in Visible : row[i].pinned /\ Cardinality(Visible) > LIMIT
            \/ Listed' = Listed]_vars
  BY TrimStep
<1> QED
  BY <1>1, Inductive, PTL DEF Spec, TrimInvisible
=============================================================================

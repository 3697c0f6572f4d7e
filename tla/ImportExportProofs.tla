------------------------- MODULE ImportExportProofs -------------------------
(***************************************************************************)
(* What an import may rely on although it decides by rows it has read      *)
(* before its first spec, and what it brings back, for any uuids, names,   *)
(* models and number of edits.                                             *)
(***************************************************************************)
EXTENDS ImportExport, FiniteSetTheorems, WellFoundedInduction, TLAPS

(* The file and the part of it that is still to be applied.                 *)

FileKeys ==
    \A i, j \in 1 .. Len(file) :
        i # j => file[i].uuid # file[j].uuid /\ file[i].name # file[j].name

Applied == Len(file) - Len(imp.todo)

TodoIsRest ==
    imp.pc = "specs" =>
        /\ Applied \in Nat
        /\ \A j \in 1 .. Len(imp.todo) : imp.todo[j] = file[Applied + j]

(* The session's rows and the dictionaries built from them.                 *)

FoundBy(n) == {imp.active[n], imp.deleted[n]}
Finds(e, u) == e.uuid = u \/ u \in FoundBy(e.name)

LookupsAreRows ==
    Importing =>
        \A n \in Names : \A u \in FoundBy(n) \ {None} :
            /\ imp.copy[u] # None
            /\ \A m \in Names : u \in FoundBy(m) => m = n

\* A row the session holds is still there, and if it is active now the session
\* does not take it for deleted.
CopiesAreRows ==
    Importing =>
        \A u \in Uuids : imp.copy[u] # None =>
            /\ row[u] # None
            /\ ~row[u].deleted => ~imp.copy[u].deleted

\* Neither does it take one for deleted that was deleted under its eyes, as long
\* as some spec will look for it.
GoneIsDeleted ==
    /\ gone \subseteq used
    /\ \A u \in gone : ~ActiveIn(row, u)
    /\ Importing => \A u \in gone : row[u] # None
    /\ imp.pc = "specs" =>
           \A u \in gone, j \in 1 .. Len(imp.todo) :
               imp.copy[u] # None /\ imp.copy[u].deleted => ~Finds(imp.todo[j], u)

\* A row that was deleted when the import began is not touched while two specs,
\* or one for two reasons, are still to find it.
FoundTwiceIsUntouched ==
    imp.pc = "specs" =>
        \A u \in Uuids, j, k \in 1 .. Len(imp.todo) :
            imp.deleted[imp.todo[j].name] = u /\ imp.todo[k].uuid = u => imp.copy[u].deleted

\* What a spec finds by its name has that name in the session, unless another
\* spec is about that row.
FoundHasName ==
    imp.pc = "specs" =>
        \A j \in 1 .. Len(imp.todo) : \A u \in FoundBy(imp.todo[j].name) \ {None} :
            imp.copy[u].name = imp.todo[j].name \/ \E i \in 1 .. Len(file) : file[i].uuid = u

(* An import nobody interferes with.                                        *)

Alone == imp.fair /\ ~disturbed

CopyIsCurrent == Alone /\ Importing => imp.copy = row

\* Of what is to come, a spec is about the one row its name and its uuid lead to.
PendingIsClear ==
    Alone /\ imp.pc = "specs" =>
        \A j \in 1 .. Len(imp.todo) :
            LET e == imp.todo[j]
            IN  /\ Named(row, e.name) \subseteq {e.uuid}
                /\ FoundBy(e.name) \subseteq {e.uuid, None}
                /\ imp.active[e.name] = e.uuid => ActiveIn(row, e.uuid)
                /\ imp.deleted[e.name] = e.uuid => ~ActiveIn(row, e.uuid)
                /\ imp.kept[e.uuid] = DeletedProxy(e.uuid)

BackAs(e) == row[e.uuid] = AsExported(e)

AppliedIsBack ==
    Alone =>
        /\ imp.pc # "failed"
        /\ imp.pc = "specs" => \A i \in 1 .. Applied : BackAs(file[i])
        /\ imp.pc \in {"favorites", "disabled", "done"} => \A i \in 1 .. Len(file) : BackAs(file[i])
        /\ imp.pc \in {"disabled", "done"} =>
               \A i \in 1 .. Len(file) : file[i].fav # {} => fav[file[i].uuid] = file[i].fav
        /\ imp.pc = "done" =>
               \A i \in 1 .. Len(file) : file[i].off # {} => off[file[i].uuid] = file[i].off

SafeInv ==
    /\ TypeOK /\ FileKeys /\ TodoIsRest
    /\ LookupsAreRows /\ CopiesAreRows /\ GoneIsDeleted /\ FoundTwiceIsUntouched /\ FoundHasName
IInv == SafeInv /\ CopyIsCurrent /\ PendingIsClear /\ AppliedIsBack

-----------------------------------------------------------------------------
(* Facts about the operators.                                               *)

Less == {pair \in Nat \X Nat : pair[1] < pair[2]}

\* The order of the natural numbers is well-founded.
LEMMA LessIsWellFounded == IsWellFoundedOn(Less, Nat)
  BY NatLessThanWellFounded DEF OpToRel, Less

\* A set of natural numbers that is not empty has a least member.
LEMMA LeastMember ==
  ASSUME NEW S \in SUBSET Nat, S # {}
  PROVE  \E i \in S : \A j \in S : i <= j
<1>1. PICK i \in S : \A j \in S : <<j, i>> \notin Less
  BY LessIsWellFounded, WFMin
<1>2. \A j \in S : ~(j < i)
  BY <1>1 DEF Less
<1>3. \A j \in S : i <= j
  BY <1>2
<1>. QED BY <1>3

\* None is not a row.
LEMMA NoneIsNoRow == None \notin Row
  BY TransferAssumption DEF Row, Proxy

\* What apply_favorites_import makes of a model list: the old one, or that of an
\* entry that leads to the provider by uuid or by name.
LEMMA RestoredFrom ==
  ASSUME NEW old \in [Uuids -> SUBSET Models], NEW byName,
         NEW lists \in [1 .. Len(file) -> SUBSET Models], Len(file) \in Nat
  PROVE  /\ Restored(old, lists, byName) \in [Uuids -> SUBSET Models]
         /\ \A u \in Uuids :
              \/ Restored(old, lists, byName)[u] = old[u]
              \/ \E i \in 1 .. Len(file) :
                    Target(file[i], byName) = u \/ byName[file[i].name] = u
<1> DEFINE es == {i \in 1 .. Len(file) : lists[i] # {}}
           Rich(u) == {i \in es : Target(file[i], byName) = u}
           Legacy(u) == {i \in es : byName[file[i].name] = u}
           First(is) == CHOOSE i \in is : \A j \in is : i <= j
           New(u) == IF Rich(u) # {} THEN lists[First(Rich(u))]
                     ELSE IF Legacy(u) # {} THEN lists[First(Legacy(u))]
                     ELSE old[u]
<1>1. Restored(old, lists, byName) = [u \in Uuids |-> New(u)]
  BY DEF Restored
<1>2. ASSUME NEW S \in SUBSET (1 .. Len(file)), S # {}
      PROVE  First(S) \in S
  <2>1. \E i \in S : \A j \in S : i <= j
    BY <1>2, LeastMember
  <2>. QED BY <2>1
<1>3. ASSUME NEW u \in Uuids
      PROVE  /\ New(u) \in SUBSET Models
             /\ New(u) = old[u] \/ \E i \in 1 .. Len(file) :
                    Target(file[i], byName) = u \/ byName[file[i].name] = u
  <2>1. Rich(u) \in SUBSET (1 .. Len(file)) /\ Legacy(u) \in SUBSET (1 .. Len(file))
    OBVIOUS
  <2>2. CASE Rich(u) # {}
    BY <1>2, <2>1, <2>2
  <2>3. CASE Rich(u) = {} /\ Legacy(u) # {}
    BY <1>2, <2>1, <2>3
  <2>4. CASE Rich(u) = {} /\ Legacy(u) = {}
    BY <2>4
  <2>. QED BY <2>2, <2>3, <2>4
<1> HIDE DEF New
<1>. QED BY <1>1, <1>3

\* If every entry's row is there and no uuid is listed twice, each provider gets
\* the list of its own entry.
LEMMA RestoredByUuid ==
  ASSUME NEW old \in [Uuids -> SUBSET Models], NEW byName, FileKeys,
         NEW lists \in [1 .. Len(file) -> SUBSET Models], Len(file) \in Nat,
         \A i \in 1 .. Len(file) : Exists(row, file[i].uuid),
         NEW i \in 1 .. Len(file), lists[i] # {}, file[i].uuid \in Uuids
  PROVE  Restored(old, lists, byName)[file[i].uuid] = lists[i]
<1> DEFINE es == {j \in 1 .. Len(file) : lists[j] # {}}
           Rich(u) == {j \in es : Target(file[j], byName) = u}
           Legacy(u) == {j \in es : byName[file[j].name] = u}
           First(is) == CHOOSE j \in is : \A k \in is : j <= k
<1>1. Restored(old, lists, byName)[file[i].uuid] =
        IF Rich(file[i].uuid) # {} THEN lists[First(Rich(file[i].uuid))]
        ELSE IF Legacy(file[i].uuid) # {} THEN lists[First(Legacy(file[i].uuid))]
        ELSE old[file[i].uuid]
  BY DEF Restored
<1>2. \A j \in 1 .. Len(file) : Target(file[j], byName) = file[j].uuid
  BY DEF Target
<1>3. Rich(file[i].uuid) = {i}
  BY <1>2 DEF FileKeys
<1>4. First({i}) = i
  OBVIOUS
<1>. QED BY <1>1, <1>3, <1>4

\* An UPDATE of a row the session sees as it is writes all its columns.
LEMMA FlushedWhole ==
  ASSUME NEW u, NEW new \in Row, row[u] \in Row, imp.copy[u] = row[u]
  PROVE  Flushed(u, new) = new
  BY DEF Flushed, Row

\* What an UPDATE leaves is a row.
LEMMA FlushedIsRow ==
  ASSUME NEW u, NEW new \in Row, row[u] \in Row, imp.copy[u] \in Row
  PROVE  Flushed(u, new) \in Row
  BY DEF Flushed, Row

\* The entries of the file are entries.
LEMMA FileEntries ==
  ASSUME TypeOK
  PROVE  /\ Len(file) \in Nat
         /\ \A i \in 1 .. Len(file) :
               /\ file[i] \in Entry
               /\ file[i].uuid \in Uuids /\ file[i].name \in Names /\ file[i].on \in BOOLEAN
               /\ file[i].proxy \in Proxy
               /\ file[i].fav \in SUBSET Models /\ file[i].off \in SUBSET Models
<1>1. file \in Seq(Entry)
  BY DEF TypeOK
<1>2. Len(file) \in Nat /\ \A i \in 1 .. Len(file) : file[i] \in Entry
  BY <1>1
<1>. QED BY <1>2 DEF Entry

\* What an entry comes back as is a row, an active one of its name.
LEMMA ExportedIsRow ==
  ASSUME NEW e \in Entry, imp \in Import
  PROVE  /\ AsExported(e) \in Row
         /\ AsExported(e).name = e.name /\ ~AsExported(e).deleted
<1>1. imp.kept[e.uuid] \in Proxy /\ e.proxy \in Proxy /\ e.name \in Names /\ e.on \in BOOLEAN
  BY DEF Entry, Import
<1>. QED BY <1>1 DEF AsExported, Row

\* A provider that is back is there.
LEMMA BackIsThere ==
  ASSUME NEW e \in Entry, imp \in Import, BackAs(e)
  PROVE  Exists(row, e.uuid) /\ ActiveIn(row, e.uuid)
<1>1. AsExported(e) \in Row
  BY ExportedIsRow
<1>2. row[e.uuid] # None
  BY <1>1, NoneIsNoRow DEF BackAs
<1>3. ~row[e.uuid].deleted
  BY ExportedIsRow DEF BackAs
<1>. QED BY <1>2, <1>3 DEF Exists, ActiveIn

-----------------------------------------------------------------------------
(* The start, and what users do.                                            *)

\* The state without an import is one.
LEMMA NoImportIsImport == NoImport \in Import /\ NoImport.pc = "idle"
  BY DEF NoImport, Import, Proxy

\* The invariant holds at the start.
LEMMA InitIsInvariant == Init => IInv
<1> SUFFICES ASSUME Init PROVE IInv
  OBVIOUS
<1> USE NoImportIsImport DEF Init, Importing
<1>1. TypeOK
  <2>1. \A u \in Uuids : row[u] = None
    OBVIOUS
  <2>2. << >> \in Seq(Entry) /\ 0 \in 0 .. MaxEdits
    BY TransferAssumption
  <2>. QED BY <2>1, <2>2 DEF TypeOK, ActiveIn
<1>2. FileKeys /\ TodoIsRest /\ LookupsAreRows /\ CopiesAreRows /\ GoneIsDeleted
        /\ FoundTwiceIsUntouched /\ FoundHasName
  BY DEF FileKeys, TodoIsRest, LookupsAreRows, CopiesAreRows, GoneIsDeleted, FoundTwiceIsUntouched,
         FoundHasName
<1>3. CopyIsCurrent /\ PendingIsClear /\ AppliedIsBack
  BY DEF CopyIsCurrent, PendingIsClear, AppliedIsBack, Alone
<1>. QED BY <1>1, <1>2, <1>3 DEF IInv, SafeInv

\* What an edit of the rows must not do, for the import to go on as before: take a
\* row away, make two active ones share a name, or make one active that was not.
LEMMA EditKeeps ==
  ASSUME IInv, NEW rows, Edit(rows), rows \in [Uuids -> Row \union {None}],
         used \subseteq used', used' \subseteq Uuids,
         \A u \in Uuids : rows[u] # None => u \in used',
         \A u \in Uuids : row[u] # None => rows[u] # None,
         \A u \in Uuids : ActiveIn(rows, u) => ActiveIn(row, u) \/ u \notin used,
         fav' = fav, gone \subseteq gone',
         \A u \in gone' : u \in gone \/ (u \in Uuids /\ Importing /\ ActiveIn(row, u) /\ ~ActiveIn(rows, u))
  PROVE  IInv'
<1> USE DEF IInv, SafeInv, Edit
<1>1. TypeOK'
  <2>1. \A u, v \in Uuids :
            ActiveIn(row', u) /\ ActiveIn(row', v) /\ row'[u].name = row'[v].name => u = v
    BY DEF Conflict
  <2>2. \A u \in gone' : u \in Uuids
    BY DEF TypeOK, ActiveIn
  <2>. QED BY <2>1, <2>2, TransferAssumption DEF TypeOK
<1>2. file' = file /\ imp' = imp
  OBVIOUS
<1>3. FileKeys' /\ TodoIsRest' /\ LookupsAreRows' /\ FoundTwiceIsUntouched' /\ FoundHasName'
  <2>1. FileKeys' /\ TodoIsRest'
    BY <1>2 DEF FileKeys, TodoIsRest, Applied
  <2>2. LookupsAreRows'
    BY <1>2 DEF LookupsAreRows, Importing, FoundBy
  <2>3. FoundTwiceIsUntouched' /\ FoundHasName'
    BY <1>2 DEF FoundTwiceIsUntouched, FoundHasName, FoundBy
  <2>. QED BY <2>1, <2>2, <2>3
<1>4. CopiesAreRows'
  BY DEF CopiesAreRows, TypeOK, ActiveIn, Importing
<1>5. GoneIsDeleted'
  <2>1. gone' \subseteq Uuids
    BY DEF TypeOK, ActiveIn
  <2>2. \A u \in gone' : u \in used /\ ~ActiveIn(rows, u)
    BY <2>1 DEF GoneIsDeleted, TypeOK, ActiveIn
  <2>3. Importing => \A u \in gone' : rows[u] # None
    BY <2>1 DEF GoneIsDeleted, TypeOK, ActiveIn
  <2>4. ASSUME imp.pc = "specs", NEW u \in gone', NEW j \in 1 .. Len(imp.todo),
               imp.copy[u] # None, imp.copy[u].deleted
        PROVE  ~Finds(imp.todo[j], u)
    <3>1. u \in gone
      BY <2>1, <2>4 DEF CopiesAreRows, ActiveIn, Importing
    <3>. QED BY <3>1, <2>4 DEF GoneIsDeleted
  <2>. QED BY <2>2, <2>3, <2>4 DEF GoneIsDeleted, Importing, Finds, FoundBy, ActiveIn
<1>6. ~Alone' \/ imp'.pc = "idle"
  BY DEF Alone
<1>7. CopyIsCurrent' /\ PendingIsClear' /\ AppliedIsBack'
  BY <1>6 DEF CopyIsCurrent, PendingIsClear, AppliedIsBack, Alone, Importing
<1>. QED BY <1>1, <1>3, <1>4, <1>5, <1>7

\* A user creates a provider.
LEMMA CreateKeeps ==
  ASSUME IInv, NEW u \in Uuids, NEW n \in Names, NEW e \in BOOLEAN, NEW p \in Proxy, Create(u, n, e, p)
  PROVE  IInv'
<1> DEFINE rows == [row EXCEPT ![u] = [name |-> n, on |-> e, proxy |-> p, deleted |-> FALSE]]
<1>1. [name |-> n, on |-> e, proxy |-> p, deleted |-> FALSE] \in Row
  BY DEF Row
<1>2. row \in [Uuids -> Row \union {None}] /\ used \subseteq Uuids
        /\ \A v \in Uuids : row[v] # None => v \in used
  BY DEF IInv, SafeInv, TypeOK
<1>3. rows \in [Uuids -> Row \union {None}] /\ rows[u] # None
        /\ \A v \in Uuids : v # u => rows[v] = row[v]
  BY <1>1, <1>2, NoneIsNoRow
<1>4. \A v \in Uuids : ActiveIn(rows, v) => ActiveIn(row, v) \/ v \notin used
  BY <1>3 DEF Create, ActiveIn
<1>5. Edit(rows) /\ used' = used \union {u} /\ fav' = fav /\ gone' = gone
  BY DEF Create
<1>6. (\A v \in Uuids : rows[v] # None => v \in used')
        /\ (\A v \in Uuids : row[v] # None => rows[v] # None)
  BY <1>2, <1>3, <1>5
<1> HIDE DEF rows
<1>. QED BY <1>2, <1>3, <1>4, <1>5, <1>6, EditKeeps

\* A user edits or renames an active provider.
LEMMA PatchKeeps ==
  ASSUME IInv, NEW u \in Uuids, NEW n \in Names, NEW e \in BOOLEAN, NEW p \in Proxy, Patch(u, n, e, p)
  PROVE  IInv'
<1> DEFINE rows == [row EXCEPT ![u] = [name |-> n, on |-> e, proxy |-> p, deleted |-> FALSE]]
<1>1. [name |-> n, on |-> e, proxy |-> p, deleted |-> FALSE] \in Row
  BY DEF Row
<1>2. row \in [Uuids -> Row \union {None}] /\ used \subseteq Uuids
        /\ \A v \in Uuids : row[v] # None => v \in used
  BY DEF IInv, SafeInv, TypeOK
<1>3. rows \in [Uuids -> Row \union {None}] /\ rows[u] # None
        /\ \A v \in Uuids : v # u => rows[v] = row[v]
  BY <1>1, <1>2, NoneIsNoRow
<1>4. ActiveIn(row, u)
  BY DEF Patch, Active
<1>5. Edit(rows) /\ used' = used /\ fav' = fav /\ gone' = gone
  BY DEF Patch
<1>6. \A v \in Uuids : ActiveIn(rows, v) => ActiveIn(row, v) \/ v \notin used
  BY <1>3, <1>4 DEF ActiveIn
<1>7. (\A v \in Uuids : rows[v] # None => v \in used')
        /\ (\A v \in Uuids : row[v] # None => rows[v] # None)
  BY <1>2, <1>3, <1>4, <1>5 DEF ActiveIn
<1> HIDE DEF rows
<1>. QED BY <1>2, <1>3, <1>5, <1>6, <1>7, EditKeeps

\* A user deletes a provider, while an import runs or not.
LEMMA DeleteKeeps ==
  ASSUME IInv, NEW u \in Uuids, Delete(u)
  PROVE  IInv'
<1> DEFINE rows == [row EXCEPT ![u].deleted = TRUE]
<1>1. row \in [Uuids -> Row \union {None}] /\ used \subseteq Uuids
        /\ \A v \in Uuids : row[v] # None => v \in used
  BY DEF IInv, SafeInv, TypeOK
<1>2. ActiveIn(row, u) /\ row[u] \in Row
  BY <1>1 DEF Delete, Active, ActiveIn
<1>3. rows \in [Uuids -> Row \union {None}] /\ rows[u] \in Row /\ rows[u].deleted
        /\ \A v \in Uuids : v # u => rows[v] = row[v]
  BY <1>1, <1>2 DEF Row
<1>4. Edit(rows) /\ used' = used /\ fav' = fav
        /\ gone' = IF Importing THEN gone \union {u} ELSE gone
  BY DEF Delete
<1>5. \A v \in Uuids : ActiveIn(rows, v) => ActiveIn(row, v) \/ v \notin used
  BY <1>3 DEF ActiveIn
<1>6. (\A v \in Uuids : rows[v] # None => v \in used')
        /\ (\A v \in Uuids : row[v] # None => rows[v] # None)
  BY <1>1, <1>2, <1>3, <1>4, NoneIsNoRow DEF ActiveIn
<1>7. \A v \in gone' : v \in gone \/ (v \in Uuids /\ Importing /\ ActiveIn(row, v) /\ ~ActiveIn(rows, v))
  BY <1>2, <1>3, <1>4 DEF ActiveIn
<1> HIDE DEF rows
<1>. QED BY <1>1, <1>3, <1>4, <1>5, <1>6, <1>7, EditKeeps

\* A user changes favorites and disabled models, which no import allows meanwhile.
LEMMA PatchModelKeeps ==
  ASSUME IInv, NEW u \in Uuids, NEW f \in SUBSET Models, NEW d \in SUBSET Models,
         PatchModel(u, f, d)
  PROVE  IInv'
<1> USE DEF IInv, SafeInv, PatchModel
<1>1. TypeOK'
  BY TransferAssumption DEF TypeOK, ActiveIn
<1>2. FileKeys' /\ TodoIsRest' /\ LookupsAreRows' /\ CopiesAreRows' /\ GoneIsDeleted'
        /\ FoundTwiceIsUntouched' /\ FoundHasName'
  BY DEF FileKeys, TodoIsRest, LookupsAreRows, CopiesAreRows, GoneIsDeleted, FoundTwiceIsUntouched,
         FoundHasName, Importing, ActiveIn, Applied, FoundBy, Finds
<1>3. CopyIsCurrent' /\ PendingIsClear' /\ AppliedIsBack'
  BY DEF CopyIsCurrent, PendingIsClear, AppliedIsBack, Alone, Importing
<1>. QED BY <1>1, <1>2, <1>3

\* The database is emptied, the file is kept.
LEMMA ReinstallKeeps ==
  ASSUME IInv, Reinstall
  PROVE  IInv'
<1> USE DEF IInv, SafeInv, Reinstall
<1>1. TypeOK'
  BY TransferAssumption, NoImportIsImport DEF TypeOK, ActiveIn
<1>2. FileKeys' /\ TodoIsRest' /\ LookupsAreRows' /\ CopiesAreRows'
        /\ FoundTwiceIsUntouched' /\ FoundHasName'
  BY NoImportIsImport DEF FileKeys, TodoIsRest, LookupsAreRows, CopiesAreRows,
         FoundTwiceIsUntouched, FoundHasName, Importing
<1>3. GoneIsDeleted'
  BY NoImportIsImport DEF GoneIsDeleted, TypeOK, ActiveIn, Importing
<1>4. CopyIsCurrent' /\ PendingIsClear' /\ AppliedIsBack'
  BY NoImportIsImport DEF CopyIsCurrent, PendingIsClear, AppliedIsBack, Alone, Importing
<1>. QED BY <1>1, <1>2, <1>3, <1>4

\* An export lists each uuid and each name once.
LEMMA ExportKeeps ==
  ASSUME IInv, Export
  PROVE  IInv'
<1> USE DEF IInv, SafeInv
<1>1. IsFiniteSet(Active)
  BY TransferAssumption, FS_Subset DEF Active
<1> DEFINE N == Cardinality(Active)
<1>2. N \in Nat
  BY <1>1, FS_CardinalityType
<1> HIDE DEF N
<1>3. PICK us \in [1 .. N -> Active] :
          /\ \A i, j \in 1 .. N : i < j => row[us[i]].name < row[us[j]].name
          /\ file' = [i \in 1 .. N |->
                [uuid |-> us[i], name |-> row[us[i]].name, on |-> row[us[i]].on, proxy |-> row[us[i]].proxy,
                 fav |-> fav[us[i]], off |-> off[us[i]]]]
  BY DEF Export, Ordered, Entries, N
<1>4. \A i \in 1 .. N : us[i] \in Uuids /\ row[us[i]] \in Row
  BY DEF Active, ActiveIn, TypeOK
<1>5. \A i \in 1 .. N : file'[i] \in Entry
  BY <1>3, <1>4 DEF Entry, Row, TypeOK
<1>6. file' \in Seq(Entry) /\ Len(file') = N
  BY <1>2, <1>3, <1>5
<1>7. imp' = NoImport /\ UNCHANGED <<row, used, fav, off, edits, disturbed, gone>>
  BY DEF Export
<1>8. TypeOK'
  BY <1>6, <1>7, TransferAssumption, NoImportIsImport DEF TypeOK, ActiveIn
<1>9. FileKeys'
  <2>1. ASSUME NEW i \in 1 .. N, NEW j \in 1 .. N, i < j
        PROVE  file'[i].uuid # file'[j].uuid /\ file'[i].name # file'[j].name
    <3>1. row[us[i]].name \in Nat /\ row[us[j]].name \in Nat
      BY <1>4, TransferAssumption DEF Row
    <3>2. row[us[i]].name < row[us[j]].name
      BY <1>3, <2>1
    <3>. QED BY <1>3, <3>1, <3>2
  <2>2. \A i, j \in 1 .. N : i # j => i < j \/ j < i
    BY <1>2
  <2>. QED BY <2>1, <2>2, <1>6 DEF FileKeys
<1>10. TodoIsRest' /\ LookupsAreRows' /\ CopiesAreRows' /\ GoneIsDeleted'
        /\ FoundTwiceIsUntouched' /\ FoundHasName'
  BY <1>7, NoImportIsImport DEF TodoIsRest, LookupsAreRows, CopiesAreRows, GoneIsDeleted,
         FoundTwiceIsUntouched, FoundHasName, Importing, ActiveIn
<1>11. CopyIsCurrent' /\ PendingIsClear' /\ AppliedIsBack'
  BY <1>7, NoImportIsImport DEF CopyIsCurrent, PendingIsClear, AppliedIsBack, Importing
<1>. QED BY <1>8, <1>9, <1>10, <1>11

-----------------------------------------------------------------------------
(* The import, but for its specs.                                           *)

\* A dictionary by name leads to rows that bear the name.
LEMMA DictsLeadToRows ==
  ASSUME NEW from \in SUBSET Uuids, NEW d \in Dicts(from), NEW n \in Names
  PROVE  /\ d \in [Names -> Uuids \union {None}]
         /\ d[n] # None => d[n] \in Named(row, n) \intersect from
         /\ d[n] = None => Named(row, n) \intersect from = {}
  BY TransferAssumption DEF Dicts, Named

\* An import begins: the session's rows are the rows, and the dictionaries lead to them.
LEMMA BeginKeeps ==
  ASSUME IInv, Begin
  PROVE  IInv'
<1> USE DEF IInv, SafeInv
<1>1. PICK a \in Dicts(Active), d \in Dicts(Uuids \ Active) :
          imp' = [pc |-> "specs", todo |-> file, active |-> a, deleted |-> d, copy |-> row,
                  kept |-> [u \in Uuids |-> DeletedProxy(u)],
                  fair |-> \A i \in 1 .. Len(file) : Named(row, file[i].name) \subseteq {file[i].uuid}]
  BY DEF Begin
<1>2. /\ disturbed' = FALSE /\ gone' = {}
      /\ UNCHANGED <<row, used, fav, off, file, edits>>
  BY DEF Begin
<1>3. file \in Seq(Entry) /\ Len(file) \in Nat /\ row \in [Uuids -> Row \union {None}]
  BY DEF TypeOK
<1>4. \A i \in 1 .. Len(file) : file[i] \in Entry /\ file[i].name \in Names /\ file[i].uuid \in Uuids
  BY FileEntries
<1>5. /\ imp'.pc = "specs" /\ imp'.todo = file /\ imp'.active = a /\ imp'.deleted = d
      /\ imp'.copy = row /\ imp'.kept = [u \in Uuids |-> DeletedProxy(u)]
      /\ imp'.fair = \A i \in 1 .. Len(file) : Named(row, file[i].name) \subseteq {file[i].uuid}
  BY <1>1
<1>6. Importing' /\ Applied' = 0
  BY <1>2, <1>3, <1>5 DEF Importing, Applied
<1>7. \A n \in Names :
          /\ a[n] # None => a[n] \in Named(row, n) /\ ActiveIn(row, a[n])
          /\ d[n] # None => d[n] \in Named(row, n) /\ ~ActiveIn(row, d[n])
  BY DictsLeadToRows DEF Active
<1>8. imp' \in Import
  <2>1. a \in [Names -> Uuids \union {None}] /\ d \in [Names -> Uuids \union {None}]
    BY DEF Dicts
  <2>2. \A u \in Uuids : DeletedProxy(u) \in Proxy
    BY <1>3 DEF DeletedProxy, Row, Proxy
  <2>. QED BY <1>1, <1>3, <2>1, <2>2 DEF Import
<1>9. TypeOK'
  BY <1>2, <1>8 DEF TypeOK, ActiveIn
<1>10. FileKeys' /\ TodoIsRest'
  BY <1>2, <1>3, <1>5, <1>6 DEF FileKeys, TodoIsRest
<1>11. \A n \in Names : \A u \in FoundBy(n)' : u = a[n] \/ u = d[n]
  BY <1>5 DEF FoundBy
<1>12. \A n \in Names : \A u \in FoundBy(n)' \ {None} : u \in Uuids /\ row[u] # None /\ row[u].name = n
  BY <1>7, <1>11 DEF Named
<1>13. LookupsAreRows'
  BY <1>5, <1>12 DEF LookupsAreRows
<1>14. CopiesAreRows' /\ GoneIsDeleted'
  BY <1>2, <1>5 DEF CopiesAreRows, GoneIsDeleted
<1>15. FoundTwiceIsUntouched'
  <2>1. \A j \in 1 .. Len(file), u \in Uuids : d[file[j].name] = u => row[u].deleted
    BY <1>4, <1>7, TransferAssumption DEF Named, ActiveIn
  <2>. QED BY <1>2, <1>5, <2>1 DEF FoundTwiceIsUntouched
<1>16. FoundHasName'
  BY <1>2, <1>4, <1>5, <1>12 DEF FoundHasName
<1>17. CopyIsCurrent' /\ AppliedIsBack'
  BY <1>2, <1>5, <1>6 DEF CopyIsCurrent, AppliedIsBack
<1>18. PendingIsClear'
  <2> SUFFICES ASSUME Alone', NEW j \in 1 .. Len(file)
               PROVE  /\ Named(row, file[j].name) \subseteq {file[j].uuid}
                      /\ {a[file[j].name], d[file[j].name]} \subseteq {file[j].uuid, None}
                      /\ a[file[j].name] = file[j].uuid => ActiveIn(row, file[j].uuid)
                      /\ d[file[j].name] = file[j].uuid => ~ActiveIn(row, file[j].uuid)
    BY <1>2, <1>4, <1>5 DEF PendingIsClear, ActiveIn, Named, FoundBy, DeletedProxy
  <2>1. Named(row, file[j].name) \subseteq {file[j].uuid}
    BY <1>5 DEF Alone
  <2>2. {a[file[j].name], d[file[j].name]} \subseteq {file[j].uuid, None}
    BY <1>4, <1>7, <2>1
  <2>3. file[j].uuid # None
    BY <1>4, TransferAssumption
  <2>. QED BY <1>4, <1>7, <2>1, <2>2, <2>3
<1>. QED BY <1>9, <1>10, <1>13, <1>14, <1>15, <1>16, <1>17, <1>18

\* With nothing left to apply, every entry of the file has been.
LEMMA EndSpecsKeeps ==
  ASSUME IInv, EndSpecs
  PROVE  IInv'
<1> USE DEF IInv, SafeInv, EndSpecs
<1>1. imp \in Import
  BY DEF TypeOK
<1>2. /\ imp'.pc = "favorites" /\ imp' \in Import /\ imp'.copy = imp.copy /\ imp'.fair = imp.fair
      /\ imp'.kept = imp.kept /\ imp'.active = imp.active /\ imp'.deleted = imp.deleted
  BY <1>1 DEF Import
<1>3. TypeOK'
  BY <1>2 DEF TypeOK, ActiveIn
<1>4. FileKeys' /\ TodoIsRest' /\ FoundTwiceIsUntouched' /\ FoundHasName' /\ PendingIsClear'
  BY <1>2 DEF FileKeys, TodoIsRest, FoundTwiceIsUntouched, FoundHasName, PendingIsClear
<1>5. LookupsAreRows' /\ CopiesAreRows' /\ GoneIsDeleted' /\ CopyIsCurrent'
  BY <1>2 DEF LookupsAreRows, CopiesAreRows, GoneIsDeleted, CopyIsCurrent, Importing, FoundBy,
         ActiveIn, Alone
<1>6. Len(file) \in Nat /\ Applied = Len(file)
  BY DEF TypeOK, Applied
<1>7. AppliedIsBack'
  BY <1>2, <1>6 DEF AppliedIsBack, Alone, BackAs, AsExported
<1>. QED BY <1>3, <1>4, <1>5, <1>7

\* The favorites come back to the providers of the file.
LEMMA FavoritesKeeps ==
  ASSUME IInv, Favorites
  PROVE  IInv'
<1> USE DEF IInv, SafeInv
<1> DEFINE lists == [i \in 1 .. Len(file) |-> file[i].fav]
<1>1. PICK byName \in Dicts(Uuids) : fav' = Restored(fav, lists, byName)
  BY DEF Favorites
<1>2. /\ imp.pc = "favorites" /\ imp' = [imp EXCEPT !.pc = "disabled"]
      /\ UNCHANGED <<row, used, off, file, edits, disturbed, gone>>
  BY DEF Favorites
<1>3. file \in Seq(Entry) /\ Len(file) \in Nat /\ fav \in [Uuids -> SUBSET Models] /\ imp \in Import
  BY DEF TypeOK
<1>4. \A i \in 1 .. Len(file) : file[i] \in Entry /\ file[i].uuid \in Uuids
  BY FileEntries
<1>5. lists \in [1 .. Len(file) -> SUBSET Models]
  BY FileEntries
<1>6. /\ imp'.pc = "disabled" /\ imp' \in Import /\ imp'.copy = imp.copy /\ imp'.fair = imp.fair
      /\ imp'.kept = imp.kept /\ imp'.active = imp.active /\ imp'.deleted = imp.deleted
  BY <1>2, <1>3 DEF Import
<1>7. fav' \in [Uuids -> SUBSET Models]
  <2> HIDE DEF lists
  <2>. QED BY <1>1, <1>3, <1>5, RestoredFrom
<1>8. TypeOK'
  BY <1>2, <1>6, <1>7 DEF TypeOK, ActiveIn
<1>9. FileKeys' /\ TodoIsRest' /\ FoundTwiceIsUntouched' /\ FoundHasName' /\ PendingIsClear'
  BY <1>2, <1>6 DEF FileKeys, TodoIsRest, FoundTwiceIsUntouched, FoundHasName, PendingIsClear
<1>10. LookupsAreRows' /\ CopiesAreRows' /\ GoneIsDeleted' /\ CopyIsCurrent'
  BY <1>2, <1>6 DEF LookupsAreRows, CopiesAreRows, GoneIsDeleted, CopyIsCurrent, Importing, FoundBy,
         ActiveIn, Alone
<1>11. AppliedIsBack'
  <2> SUFFICES ASSUME Alone
               PROVE  /\ \A i \in 1 .. Len(file) : BackAs(file[i])'
                      /\ \A i \in 1 .. Len(file) : file[i].fav # {} => fav'[file[i].uuid] = file[i].fav
    BY <1>2, <1>6 DEF AppliedIsBack, Alone, BackAs, AsExported
  <2>1. \A i \in 1 .. Len(file) : BackAs(file[i])
    BY <1>2 DEF AppliedIsBack
  <2>2. \A i \in 1 .. Len(file) : Exists(row, file[i].uuid)
    BY <1>3, <2>1, FileEntries, BackIsThere
  <2>3. ASSUME NEW i \in 1 .. Len(file), file[i].fav # {}
        PROVE  fav'[file[i].uuid] = file[i].fav
    <3>1. lists[i] = file[i].fav
      OBVIOUS
    <3> HIDE DEF lists
    <3>. QED BY <1>1, <1>3, <1>4, <1>5, <2>2, <2>3, <3>1, RestoredByUuid
  <2>. QED BY <1>2, <1>6, <2>1, <2>3 DEF BackAs, AsExported
<1>. QED BY <1>8, <1>9, <1>10, <1>11

\* The disabled models come back to the providers of the file.
LEMMA DisabledKeeps ==
  ASSUME IInv, Disabled
  PROVE  IInv'
<1> USE DEF IInv, SafeInv
<1> DEFINE lists == [i \in 1 .. Len(file) |-> file[i].off]
<1>1. PICK byName \in Dicts(Uuids) : off' = Restored(off, lists, byName)
  BY DEF Disabled
<1>2. /\ imp.pc = "disabled" /\ imp' = [NoImport EXCEPT !.pc = "done", !.kept = imp.kept, !.fair = imp.fair]
      /\ UNCHANGED <<row, used, fav, file, edits, disturbed, gone>>
  BY DEF Disabled
<1>3. file \in Seq(Entry) /\ Len(file) \in Nat /\ off \in [Uuids -> SUBSET Models] /\ imp \in Import
  BY DEF TypeOK
<1>4. \A i \in 1 .. Len(file) : file[i] \in Entry /\ file[i].uuid \in Uuids
  BY FileEntries
<1>5. lists \in [1 .. Len(file) -> SUBSET Models]
  BY FileEntries
<1>6. imp'.pc = "done" /\ imp' \in Import /\ imp'.fair = imp.fair /\ imp'.kept = imp.kept
  BY <1>2, <1>3, NoImportIsImport DEF Import, NoImport
<1>7. off' \in [Uuids -> SUBSET Models]
  <2> HIDE DEF lists
  <2>. QED BY <1>1, <1>3, <1>5, RestoredFrom
<1>8. TypeOK'
  BY <1>2, <1>6, <1>7 DEF TypeOK, ActiveIn
<1>9. FileKeys' /\ TodoIsRest' /\ FoundTwiceIsUntouched' /\ FoundHasName' /\ PendingIsClear'
  BY <1>2, <1>6 DEF FileKeys, TodoIsRest, FoundTwiceIsUntouched, FoundHasName, PendingIsClear
<1>10. LookupsAreRows' /\ CopiesAreRows' /\ GoneIsDeleted' /\ CopyIsCurrent'
  BY <1>2, <1>6 DEF LookupsAreRows, CopiesAreRows, GoneIsDeleted, CopyIsCurrent, Importing,
         ActiveIn, Alone
<1>11. AppliedIsBack'
  <2> SUFFICES ASSUME Alone
               PROVE  /\ \A i \in 1 .. Len(file) : BackAs(file[i])'
                      /\ \A i \in 1 .. Len(file) : file[i].fav # {} => fav[file[i].uuid] = file[i].fav
                      /\ \A i \in 1 .. Len(file) : file[i].off # {} => off'[file[i].uuid] = file[i].off
    BY <1>2, <1>6 DEF AppliedIsBack, Alone, BackAs, AsExported
  <2>1. \A i \in 1 .. Len(file) : BackAs(file[i])
    BY <1>2 DEF AppliedIsBack
  <2>2. \A i \in 1 .. Len(file) : Exists(row, file[i].uuid)
    BY <1>3, <2>1, FileEntries, BackIsThere
  <2>3. ASSUME NEW i \in 1 .. Len(file), file[i].off # {}
        PROVE  off'[file[i].uuid] = file[i].off
    <3>1. lists[i] = file[i].off
      OBVIOUS
    <3> HIDE DEF lists
    <3>. QED BY <1>1, <1>3, <1>4, <1>5, <2>2, <2>3, <3>1, RestoredByUuid
  <2>. QED BY <1>2, <1>6, <2>1, <2>3 DEF BackAs, AsExported, AppliedIsBack
<1>. QED BY <1>8, <1>9, <1>10, <1>11

-----------------------------------------------------------------------------
(* A spec of the import.                                                    *)

\* The spec at hand is the next of the file, and no other has its uuid or name.
LEMMA NextSpec ==
  ASSUME SafeInv, imp.pc = "specs", imp.todo # << >>
  PROVE  /\ Applied \in Nat /\ Applied + 1 \in 1 .. Len(file) /\ Spec1 = file[Applied + 1]
         /\ 1 \in 1 .. Len(imp.todo) /\ Spec1 = imp.todo[1]
         /\ Spec1 \in Entry
         /\ Spec1.uuid \in Uuids /\ Spec1.name \in Names /\ Spec1.on \in BOOLEAN
         /\ Spec1.proxy \in Proxy
         /\ Tail(imp.todo) \in Seq(Entry) /\ Len(Tail(imp.todo)) = Len(imp.todo) - 1
         /\ \A j \in 1 .. Len(Tail(imp.todo)) :
               /\ j + 1 \in 1 .. Len(imp.todo)
               /\ Tail(imp.todo)[j] = imp.todo[j + 1]
               /\ Tail(imp.todo)[j] = file[Applied + 1 + j] /\ Applied + 1 + j \in 1 .. Len(file)
               /\ Tail(imp.todo)[j].uuid \in Uuids /\ Tail(imp.todo)[j].name \in Names
               /\ Tail(imp.todo)[j].uuid # Spec1.uuid /\ Tail(imp.todo)[j].name # Spec1.name
<1> USE DEF SafeInv
<1>1. imp.todo \in Seq(Entry) /\ file \in Seq(Entry)
  BY DEF TypeOK, Import
<1>2. Len(imp.todo) \in Nat \ {0} /\ Len(file) \in Nat
  BY <1>1
<1>3. Applied \in Nat /\ \A j \in 1 .. Len(imp.todo) : imp.todo[j] = file[Applied + j]
  BY DEF TodoIsRest
<1>4. Len(file) = Applied + Len(imp.todo)
  BY <1>2, <1>3 DEF Applied
<1>5. Tail(imp.todo) \in Seq(Entry) /\ Len(Tail(imp.todo)) = Len(imp.todo) - 1
        /\ \A j \in 1 .. Len(Tail(imp.todo)) : Tail(imp.todo)[j] = imp.todo[j + 1]
  BY <1>1, <1>2
<1>6. Spec1 = imp.todo[1]
  BY <1>1, <1>2 DEF Spec1
<1>7. 1 \in 1 .. Len(imp.todo) /\ Spec1 = file[Applied + 1] /\ Applied + 1 \in 1 .. Len(file)
  BY <1>2, <1>3, <1>4, <1>6
<1>8. Spec1 \in Entry /\ Spec1.uuid \in Uuids /\ Spec1.name \in Names /\ Spec1.on \in BOOLEAN
        /\ Spec1.proxy \in Proxy
  BY <1>7, FileEntries
<1>9. ASSUME NEW j \in 1 .. Len(Tail(imp.todo))
      PROVE  /\ j + 1 \in 1 .. Len(imp.todo)
             /\ Tail(imp.todo)[j] = file[Applied + 1 + j] /\ Applied + 1 + j \in 1 .. Len(file)
             /\ Applied + 1 + j # Applied + 1
  <2>1. j + 1 \in 1 .. Len(imp.todo)
    BY <1>2, <1>5
  <2>2. Tail(imp.todo)[j] = file[Applied + (j + 1)]
    BY <1>3, <1>5, <2>1
  <2>3. Applied + (j + 1) = Applied + 1 + j /\ Applied + 1 + j \in 1 .. Len(file)
          /\ Applied + 1 + j # Applied + 1
    BY <1>2, <1>3, <1>4, <2>1
  <2>. QED BY <2>1, <2>2, <2>3
<1>10. ASSUME NEW j \in 1 .. Len(Tail(imp.todo))
       PROVE  /\ Tail(imp.todo)[j].uuid \in Uuids /\ Tail(imp.todo)[j].name \in Names
              /\ Tail(imp.todo)[j].uuid # Spec1.uuid /\ Tail(imp.todo)[j].name # Spec1.name
  <2>1. PICK k \in 1 .. Len(file) : k # Applied + 1 /\ Tail(imp.todo)[j] = file[k]
    BY <1>9
  <2>2. file[k].uuid \in Uuids /\ file[k].name \in Names
    BY FileEntries
  <2>3. file[k].uuid # file[Applied + 1].uuid /\ file[k].name # file[Applied + 1].name
    BY <1>7, <2>1 DEF FileKeys
  <2>. QED BY <1>7, <2>1, <2>2, <2>3
<1>. QED BY <1>3, <1>5, <1>6, <1>7, <1>8, <1>9, <1>10

\* What the lookups of a spec find.
LEMMA SpecFinds ==
  ASSUME SafeInv, imp.pc = "specs", imp.todo # << >>
  PROVE  /\ Existing # None =>
               Existing \in Uuids /\ imp.copy[Existing] # None /\ Finds(Spec1, Existing)
         /\ Deleted # None =>
               /\ Deleted \in Uuids /\ imp.copy[Deleted] # None /\ Finds(Spec1, Deleted)
               /\ (Deleted = Spec1.uuid /\ imp.copy[Deleted].deleted)
                    \/ Deleted = imp.deleted[Spec1.name]
<1>1. Spec1.uuid \in Uuids /\ Spec1.name \in Names
  BY NextSpec
<1>2. /\ imp.active[Spec1.name] \in Uuids \union {None}
      /\ imp.deleted[Spec1.name] \in Uuids \union {None}
  BY <1>1 DEF SafeInv, TypeOK, Import
<1>3. \A u \in FoundBy(Spec1.name) \ {None} : imp.copy[u] # None
  BY <1>1 DEF SafeInv, LookupsAreRows, Importing
<1>4. ByUuid # None => ByUuid = Spec1.uuid /\ imp.copy[ByUuid] # None
  BY DEF ByUuid, Exists
<1>5. Existing # None =>
          Existing \in Uuids /\ imp.copy[Existing] # None /\ Finds(Spec1, Existing)
  BY <1>1, <1>2, <1>3, <1>4 DEF Existing, Finds, FoundBy, ActiveIn
<1>6. Deleted # None =>
          /\ Deleted \in Uuids /\ imp.copy[Deleted] # None /\ Finds(Spec1, Deleted)
          /\ (Deleted = Spec1.uuid /\ imp.copy[Deleted].deleted)
               \/ Deleted = imp.deleted[Spec1.name]
  BY <1>1, <1>2, <1>3, <1>4 DEF Deleted, Finds, FoundBy, ActiveIn
<1>. QED BY <1>5, <1>6

\* The ways a spec ends: a row is written that the spec finds, or it is left
\* alone, or the request fails.  A row that was deleted during the import stays so.
Written(u, new) ==
    /\ Finds(Spec1, u)
    /\ row' = [row EXCEPT ![u] = new]
    /\ ~Conflict(row')
    /\ imp' = [imp EXCEPT !.todo = Tail(@), !.copy[u] = new]
    /\ used' = used \union {u}
    /\ u \in gone =>
           new.deleted /\ ~imp.copy[u].deleted /\ imp.deleted[Spec1.name] = u
LeftAlone == imp' = [imp EXCEPT !.todo = Tail(@)] /\ UNCHANGED <<row, used>>
Refused ==
    /\ imp' = [imp EXCEPT !.pc = "failed"]
    /\ row' = row
    /\ used \subseteq used' /\ used' \subseteq Uuids

\* A commit is refused, or writes the row and refreshes the session's copy.
LEMMA CommitEnds ==
  ASSUME NEW u \in Uuids, NEW new \in Row, NEW twice \in BOOLEAN, Commit(u, new, twice)
  PROVE  \/ imp' = [imp EXCEPT !.pc = "failed"] /\ row' = row
         \/ /\ row' = [row EXCEPT ![u] = new] /\ ~Conflict(row') /\ ~twice
            /\ imp' = [imp EXCEPT !.todo = Tail(@), !.copy[u] = new]
  BY DEF Commit

\* Every spec ends in one of these ways.
LEMMA ApplyEnds ==
  ASSUME SafeInv, Apply
  PROVE  \/ \E u \in Uuids, new \in Row : Written(u, new)
         \/ LeftAlone
         \/ Refused
<1>1. imp.pc = "specs" /\ imp.todo # << >>
  BY DEF Apply
<1>2. Spec1.uuid \in Uuids /\ Spec1.name \in Names /\ Spec1.on \in BOOLEAN /\ Spec1.proxy \in Proxy
        /\ 1 \in 1 .. Len(imp.todo) /\ Spec1 = imp.todo[1]
  BY <1>1, NextSpec
<1>3. /\ row \in [Uuids -> Row \union {None}] /\ imp.copy \in [Uuids -> Row \union {None}]
      /\ used \subseteq Uuids /\ \A u \in Uuids : row[u] # None => u \in used
  BY DEF SafeInv, TypeOK, Import
<1>4. \A u \in Uuids : imp.copy[u] # None => row[u] # None /\ row[u] \in Row /\ imp.copy[u] \in Row
  BY <1>1, <1>3 DEF SafeInv, CopiesAreRows, Importing
<1>5. CASE Update
  <2>1. PICK u \in Uuids : u = Existing
    BY <1>1, <1>5, SpecFinds DEF Update
  <2>2. imp.copy[u] # None /\ Finds(Spec1, u)
    BY <1>1, <1>5, <2>1, SpecFinds DEF Update
  <2>3. PICK new : new = Flushed(u, Given(Spec1.proxy, imp.copy[u].deleted))
    OBVIOUS
  <2>4. new \in Row /\ new.deleted = row[u].deleted
    <3>1. Given(Spec1.proxy, imp.copy[u].deleted) \in Row
      BY <1>2, <1>4, <2>2 DEF Row, Given
    <3>. QED BY <1>4, <2>2, <2>3, <3>1, FlushedIsRow DEF Flushed, Given
  <2>5. CASE row[u].deleted
    BY <1>5, <2>1, <2>5 DEF Update, LeftAlone
  <2>6. CASE ~row[u].deleted
    <3>1. Commit(u, new, FALSE) /\ used' = used
      BY <1>5, <2>1, <2>3, <2>6 DEF Update
    <3>2. u \notin gone /\ u \in used
      BY <1>3, <1>4, <2>2, <2>6 DEF SafeInv, GoneIsDeleted, ActiveIn
    <3>3. CASE imp' = [imp EXCEPT !.pc = "failed"] /\ row' = row
      BY <1>3, <3>1, <3>3 DEF Refused
    <3>4. CASE /\ row' = [row EXCEPT ![u] = new] /\ ~Conflict(row')
               /\ imp' = [imp EXCEPT !.todo = Tail(@), !.copy[u] = new]
      BY <2>2, <2>4, <3>1, <3>2, <3>4 DEF Written
    <3>. QED BY <2>4, <3>1, <3>3, <3>4, CommitEnds
  <2>. QED BY <2>5, <2>6
<1>6. CASE Restore
  <2>1. PICK u \in Uuids : u = Deleted
    BY <1>1, <1>6, SpecFinds DEF Restore
  <2>2. /\ imp.copy[u] # None /\ Finds(Spec1, u)
        /\ (u = Spec1.uuid /\ imp.copy[u].deleted) \/ u = imp.deleted[Spec1.name]
    BY <1>1, <1>6, <2>1, SpecFinds DEF Restore
  <2>3. PICK new : new = Flushed(u, Given(Kept, FALSE))
    OBVIOUS
  <2>4. new \in Row /\ (~imp.copy[u].deleted => new.deleted = row[u].deleted)
    <3>1. Given(Kept, FALSE) \in Row
      <4>1. Kept \in Proxy
        BY <1>2, <1>4, <2>1, <2>2 DEF Kept, Row
      <4>. QED BY <1>2, <4>1 DEF Row, Given
    <3>2. imp.copy[u].deleted \in BOOLEAN
      BY <1>4, <2>2 DEF Row
    <3>. QED BY <1>4, <2>2, <2>3, <3>1, <3>2, FlushedIsRow DEF Flushed, Given
  <2>5. Commit(u, new, FALSE) /\ used' = used /\ u \in used
    BY <1>3, <1>4, <1>6, <2>1, <2>2, <2>3 DEF Restore
  <2>6. u \in gone => row[u].deleted /\ ~imp.copy[u].deleted /\ imp.deleted[Spec1.name] = u
    BY <1>1, <1>2, <1>4, <2>2 DEF SafeInv, GoneIsDeleted, ActiveIn
  <2>7. CASE imp' = [imp EXCEPT !.pc = "failed"] /\ row' = row
    BY <1>3, <2>5, <2>7 DEF Refused
  <2>8. CASE /\ row' = [row EXCEPT ![u] = new] /\ ~Conflict(row')
             /\ imp' = [imp EXCEPT !.todo = Tail(@), !.copy[u] = new]
    BY <2>2, <2>4, <2>5, <2>6, <2>8 DEF Written
  <2>. QED BY <2>4, <2>5, <2>7, <2>8, CommitEnds
<1>7. CASE CreateNew
  <2>1. PICK u \in Uuids : u = NewUuid /\ u = Spec1.uuid
    BY <1>2 DEF NewUuid
  <2>2. PICK new \in Row : new = Given(Spec1.proxy, FALSE)
    BY <1>2 DEF Row, Given
  <2>3. Commit(u, new, row[u] # None) /\ used' = used \union {u}
    BY <1>7, <2>1, <2>2 DEF CreateNew
  <2>4. CASE imp' = [imp EXCEPT !.pc = "failed"] /\ row' = row
    BY <1>3, <2>3, <2>4 DEF Refused
  <2>5. CASE /\ row' = [row EXCEPT ![u] = new] /\ ~Conflict(row') /\ row[u] = None
             /\ imp' = [imp EXCEPT !.todo = Tail(@), !.copy[u] = new]
    <3>1. u \notin gone
      BY <1>1, <2>5 DEF SafeInv, GoneIsDeleted, Importing
    <3>. QED BY <2>1, <2>3, <2>5, <3>1 DEF Written, Finds
  <2>. QED BY <2>3, <2>4, <2>5, CommitEnds
<1>. QED BY <1>5, <1>6, <1>7 DEF Apply

\* A spec that ends the request keeps what holds of the import.
LEMMA RefusedKeeps ==
  ASSUME SafeInv, Apply, Refused
  PROVE  SafeInv'
<1>1. imp \in Import /\ UNCHANGED <<row, fav, off, file, edits, disturbed, gone>>
  BY DEF SafeInv, TypeOK, Apply, Refused
<1>2. imp' \in Import /\ imp'.pc = "failed"
  BY <1>1 DEF Import, Refused
<1>3. TypeOK'
  BY <1>1, <1>2 DEF SafeInv, TypeOK, ActiveIn, Refused
<1>4. GoneIsDeleted'
  BY <1>1, <1>2 DEF SafeInv, GoneIsDeleted, ActiveIn, Importing, Refused
<1>5. FileKeys' /\ TodoIsRest' /\ LookupsAreRows' /\ CopiesAreRows' /\ FoundTwiceIsUntouched'
        /\ FoundHasName'
  BY <1>1, <1>2 DEF SafeInv, FileKeys, TodoIsRest, LookupsAreRows, CopiesAreRows,
         FoundTwiceIsUntouched, FoundHasName, Importing
<1>. QED BY <1>3, <1>4, <1>5 DEF SafeInv

\* What is still to be applied, one spec further.
LEMMA TodoAdvances ==
  ASSUME SafeInv, Apply, imp' \in Import, imp'.pc = imp.pc, imp'.todo = Tail(imp.todo)
  PROVE  FileKeys' /\ TodoIsRest' /\ Applied' = Applied + 1
<1>1. file' = file /\ imp.pc = "specs" /\ imp.todo # << >>
  BY DEF Apply
<1>2. Len(file) \in Nat /\ Len(imp.todo) \in Nat
  BY DEF SafeInv, TypeOK, Import
<1>3. Applied' = Applied + 1
  <2>1. Len(imp'.todo) = Len(imp.todo) - 1
    BY <1>1, NextSpec
  <2>2. Len(imp'.todo) \in Nat
    BY <1>1, NextSpec DEF Import
  <2>3. \A a, b, c \in Nat : b = c - 1 => a - b = (a - c) + 1
    OBVIOUS
  <2>4. Applied' = Len(file) - Len(imp'.todo)
    BY <1>1 DEF Applied
  <2>5. Applied = Len(file) - Len(imp.todo)
    BY DEF Applied
  <2>. QED BY <1>2, <2>1, <2>2, <2>3, <2>4, <2>5, Zenon
<1>4. TodoIsRest'
  BY <1>1, <1>3, NextSpec DEF TodoIsRest
<1>. QED BY <1>1, <1>3, <1>4 DEF FileKeys, SafeInv

\* A spec whose row was deleted meanwhile is skipped.
LEMMA LeftAloneKeeps ==
  ASSUME SafeInv, Apply, LeftAlone
  PROVE  SafeInv'
<1>1. /\ imp \in Import /\ imp.pc = "specs" /\ imp.todo # << >>
      /\ UNCHANGED <<row, used, fav, off, file, edits, disturbed, gone>>
  BY DEF SafeInv, TypeOK, Apply, LeftAlone
<1>2. /\ imp' \in Import /\ imp'.pc = imp.pc /\ imp'.todo = Tail(imp.todo) /\ imp'.copy = imp.copy
      /\ imp'.active = imp.active /\ imp'.deleted = imp.deleted
  BY <1>1, NextSpec DEF Import, LeftAlone
<1>3. TypeOK'
  BY <1>1, <1>2 DEF SafeInv, TypeOK, ActiveIn
<1>4. FileKeys' /\ TodoIsRest'
  BY <1>2, TodoAdvances
<1>5. LookupsAreRows' /\ CopiesAreRows'
  BY <1>1, <1>2 DEF SafeInv, LookupsAreRows, CopiesAreRows, Importing, FoundBy
<1>6. \A j \in 1 .. Len(imp'.todo) : j + 1 \in 1 .. Len(imp.todo) /\ imp'.todo[j] = imp.todo[j + 1]
  BY <1>1, <1>2, NextSpec
<1>7. GoneIsDeleted'
  BY <1>1, <1>2, <1>6 DEF SafeInv, GoneIsDeleted, ActiveIn, Importing, Finds, FoundBy
<1>8. FoundTwiceIsUntouched'
  BY <1>1, <1>2, <1>6 DEF SafeInv, FoundTwiceIsUntouched
<1>9. FoundHasName'
  BY <1>1, <1>2, <1>6 DEF SafeInv, FoundHasName, FoundBy
<1>. QED BY <1>3, <1>4, <1>5, <1>7, <1>8, <1>9 DEF SafeInv

\* A row that is written: it is one the spec finds, and no other spec to come finds
\* it by the same uuid or the same name.
LEMMA WrittenKeeps ==
  ASSUME SafeInv, Apply, NEW u \in Uuids, NEW new \in Row, Written(u, new)
  PROVE  SafeInv'
<1>1. /\ imp \in Import /\ imp.pc = "specs" /\ imp.todo # << >>
      /\ UNCHANGED <<fav, off, file, edits, disturbed, gone>>
  BY DEF SafeInv, TypeOK, Apply
<1>2. imp.copy \in [Uuids -> Row \union {None}] /\ row \in [Uuids -> Row \union {None}]
        /\ used \subseteq Uuids /\ \A v \in Uuids : row[v] # None => v \in used
  BY <1>1 DEF SafeInv, TypeOK, Import
<1>3. /\ imp' \in Import /\ imp'.pc = imp.pc /\ imp'.todo = Tail(imp.todo)
      /\ imp'.active = imp.active /\ imp'.deleted = imp.deleted
      /\ imp'.copy = [imp.copy EXCEPT ![u] = new]
  BY <1>1, <1>2, NextSpec DEF Import, Written
<1>4. /\ row' = [row EXCEPT ![u] = new] /\ used' = used \union {u} /\ Finds(Spec1, u)
      /\ u \in gone => new.deleted /\ ~imp.copy[u].deleted /\ imp.deleted[Spec1.name] = u
  BY DEF Written
<1>5. /\ row'[u] = new /\ imp'.copy[u] = new /\ new # None
      /\ \A v \in Uuids : v # u => row'[v] = row[v] /\ imp'.copy[v] = imp.copy[v]
  BY <1>2, <1>3, <1>4, NoneIsNoRow
<1>6. TypeOK'
  <2>1. \A v, w \in Uuids :
            ActiveIn(row', v) /\ ActiveIn(row', w) /\ row'[v].name = row'[w].name => v = w
    BY DEF Written, Conflict
  <2>2. row' \in [Uuids -> Row \union {None}] /\ used' \subseteq Uuids
          /\ \A v \in Uuids : row'[v] # None => v \in used'
    BY <1>2, <1>4, <1>5
  <2>. QED BY <1>1, <1>3, <2>1, <2>2 DEF SafeInv, TypeOK
<1>7. FileKeys' /\ TodoIsRest'
  BY <1>3, TodoAdvances
<1>8. LookupsAreRows'
  <2>1. ASSUME NEW n \in Names, NEW v \in FoundBy(n)' \ {None}
        PROVE  /\ imp'.copy[v] # None
               /\ \A m \in Names : v \in FoundBy(m)' => m = n
    <3>1. v \in FoundBy(n) \ {None} /\ v \in Uuids
      BY <1>1, <1>3 DEF FoundBy, Import
    <3>. QED BY <1>1, <1>3, <1>5, <3>1 DEF SafeInv, LookupsAreRows, Importing, FoundBy
  <2>. QED BY <2>1 DEF LookupsAreRows
<1>9. CopiesAreRows'
  BY <1>1, <1>5 DEF SafeInv, CopiesAreRows, Importing
<1>10. \A j \in 1 .. Len(imp'.todo) :
          /\ j + 1 \in 1 .. Len(imp.todo) /\ imp'.todo[j] = imp.todo[j + 1]
          /\ imp'.todo[j].uuid # Spec1.uuid /\ imp'.todo[j].name # Spec1.name
          /\ imp'.todo[j].name \in Names
  BY <1>1, <1>3, NextSpec
<1>11. Spec1.name \in Names /\ 1 \in 1 .. Len(imp.todo) /\ Spec1 = imp.todo[1]
  BY <1>1, NextSpec
<1>12. ASSUME NEW j \in 1 .. Len(imp'.todo), u \in FoundBy(imp'.todo[j].name)
       PROVE  u = Spec1.uuid /\ u \notin FoundBy(Spec1.name)
  <2>1. u # None
    BY TransferAssumption
  <2>2. u \notin FoundBy(Spec1.name)
    BY <1>1, <1>10, <1>11, <1>12, <2>1 DEF SafeInv, LookupsAreRows, Importing
  <2>. QED BY <1>4, <2>2 DEF Finds
<1>13. GoneIsDeleted'
  <2>1. gone \subseteq used /\ (\A v \in gone : ~ActiveIn(row, v) /\ row[v] # None)
    BY <1>1 DEF SafeInv, GoneIsDeleted, Importing
  <2>2. \A v \in gone : v \in used' /\ ~ActiveIn(row', v) /\ row'[v] # None
    BY <1>2, <1>4, <1>5, <2>1 DEF ActiveIn
  <2>3. ASSUME NEW v \in gone, NEW j \in 1 .. Len(imp'.todo),
               imp'.copy[v] # None, imp'.copy[v].deleted, Finds(imp.todo[j], v)'
        PROVE  FALSE
    <3>1. v \in Uuids
      BY <1>2, <2>1
    <3>2. imp'.todo[j].uuid = v \/ v \in FoundBy(imp'.todo[j].name)
      BY <1>3, <2>3 DEF Finds, FoundBy
    <3>3. CASE v # u
      BY <1>1, <1>5, <1>10, <2>3, <3>1, <3>2, <3>3 DEF SafeInv, GoneIsDeleted, Finds
    <3>4. CASE v = u
      <4>1. ~imp.copy[u].deleted /\ imp.deleted[Spec1.name] = u
        BY <1>4, <3>4
      <4>2. imp'.todo[j].uuid = u
        BY <1>12, <3>2, <3>4, <4>1 DEF FoundBy
      <4>. QED BY <1>1, <1>10, <1>11, <4>1, <4>2 DEF SafeInv, FoundTwiceIsUntouched
    <3>. QED BY <3>3, <3>4
  <2>. QED BY <1>1, <2>2, <2>3 DEF GoneIsDeleted
<1>14. FoundTwiceIsUntouched'
  <2>1. ASSUME NEW v \in Uuids, NEW j \in 1 .. Len(imp'.todo), NEW k \in 1 .. Len(imp'.todo),
               imp.deleted[imp'.todo[j].name] = v, imp'.todo[k].uuid = v
        PROVE  imp'.copy[v].deleted
    <3>1. v # u
      BY <1>10, <1>12, <2>1 DEF FoundBy
    <3>2. imp.copy[v].deleted
      BY <1>1, <1>10, <2>1 DEF SafeInv, FoundTwiceIsUntouched
    <3>. QED BY <1>5, <3>1, <3>2
  <2>. QED BY <1>3, <2>1 DEF FoundTwiceIsUntouched
<1>15. FoundHasName'
  <2>1. ASSUME NEW j \in 1 .. Len(imp'.todo), NEW v \in FoundBy(imp'.todo[j].name) \ {None}
        PROVE  imp'.copy[v].name = imp'.todo[j].name \/ \E i \in 1 .. Len(file) : file[i].uuid = v
    <3>1. v \in Uuids
      BY <1>1, <1>10 DEF FoundBy, Import
    <3>2. CASE v = u
      <4>1. Spec1.uuid = u
        BY <1>12, <2>1, <3>2
      <4>2. Applied + 1 \in 1 .. Len(file) /\ Spec1 = file[Applied + 1]
        BY <1>1, NextSpec
      <4>3. file[Applied + 1].uuid = v
        BY <3>2, <4>1, <4>2
      <4>. QED BY <4>2, <4>3
    <3>3. CASE v # u
      <4>1. PICK k \in 1 .. Len(imp.todo) : imp'.todo[j] = imp.todo[k]
        BY <1>10
      <4>2. imp.copy[v].name = imp.todo[k].name \/ \E i \in 1 .. Len(file) : file[i].uuid = v
        BY <1>1, <2>1, <4>1 DEF SafeInv, FoundHasName
      <4>. QED BY <1>5, <3>1, <3>3, <4>1, <4>2
    <3>. QED BY <3>2, <3>3
  <2>. QED BY <1>1, <1>3, <2>1 DEF FoundHasName, FoundBy
<1>. QED BY <1>6, <1>7, <1>8, <1>9, <1>13, <1>14, <1>15 DEF SafeInv

\* Whatever the spec does, what is said of any import is kept.
LEMMA ApplyKeepsSafe ==
  ASSUME SafeInv, Apply
  PROVE  SafeInv'
  BY ApplyEnds, RefusedKeeps, LeftAloneKeeps, WrittenKeeps

\* Whichever way a spec finds its row, or has to create it, the row is written and
\* is then as the file says.
LEMMA AloneIsWritten ==
  ASSUME IInv, Apply, Alone
  PROVE  /\ row' = [row EXCEPT ![Spec1.uuid] = AsExported(Spec1)]
         /\ imp' = [imp EXCEPT !.todo = Tail(@), !.copy[Spec1.uuid] = AsExported(Spec1)]
<1> USE DEF IInv
<1>1. imp.pc = "specs" /\ imp.todo # << >> /\ imp.copy = row
  BY DEF Apply, CopyIsCurrent, Importing
<1>2. PICK u \in Uuids : u = Spec1.uuid
  BY <1>1, NextSpec
<1>3. PICK new \in Row : new = AsExported(Spec1)
  BY <1>1, NextSpec, ExportedIsRow DEF SafeInv, TypeOK
<1>4. /\ Named(row, Spec1.name) \subseteq {u}
      /\ FoundBy(Spec1.name) \subseteq {u, None}
      /\ imp.active[Spec1.name] = u => ActiveIn(row, u)
      /\ imp.deleted[Spec1.name] = u => ~ActiveIn(row, u)
      /\ imp.kept[u] = DeletedProxy(u)
  BY <1>1, <1>2, NextSpec DEF PendingIsClear
<1>5. u # None /\ new # None /\ (row[u] # None => row[u] \in Row) /\ row \in [Uuids -> Row \union {None}]
  BY TransferAssumption, NoneIsNoRow DEF SafeInv, TypeOK
<1>6. ByUuid \in {u, None}
  BY <1>2 DEF ByUuid
<1>7. \A v \in FoundBy(Spec1.name) : v # None => row[v] # None
  BY <1>1, NextSpec DEF SafeInv, LookupsAreRows, Importing
<1>8. row[u] # None => ByUuid = u \/ u \in FoundBy(Spec1.name)
  BY <1>1, <1>2 DEF ByUuid, FoundBy, Exists
<1>9. ~Conflict([row EXCEPT ![u] = new])
  <2> DEFINE rows == [row EXCEPT ![u] = new]
  <2>1. rows[u] = new /\ \A v \in Uuids : v # u => rows[v] = row[v]
    BY <1>5
  <2>2. new.name = Spec1.name
    BY <1>3 DEF AsExported
  <2> HIDE DEF rows
  <2>3. ASSUME NEW v \in Uuids, NEW w \in Uuids, v # w, ActiveIn(rows, v), ActiveIn(rows, w),
               rows[v].name = rows[w].name
        PROVE  FALSE
    <3>1. CASE v = u
      BY <1>4, <2>1, <2>2, <2>3, <3>1 DEF Named, ActiveIn
    <3>2. CASE w = u
      BY <1>4, <2>1, <2>2, <2>3, <3>2 DEF Named, ActiveIn
    <3>3. CASE v # u /\ w # u
      BY <2>1, <2>3, <3>3 DEF SafeInv, TypeOK, ActiveIn
    <3>. QED BY <3>1, <3>2, <3>3
  <2>. QED BY <2>3 DEF Conflict, rows
<1>10. \A twice \in BOOLEAN : ~twice /\ Commit(u, new, twice) =>
          /\ row' = [row EXCEPT ![u] = new]
          /\ imp' = [imp EXCEPT !.todo = Tail(@), !.copy[u] = new]
  BY <1>9 DEF Commit
<1>11. CASE Update
  <2>1. Existing = u
    BY <1>4, <1>6, <1>11 DEF Update, Existing, FoundBy
  <2>2. ActiveIn(row, u)
    BY <1>1, <1>4, <1>5, <1>6, <2>1 DEF Existing
  <2>3. Flushed(u, Given(Spec1.proxy, imp.copy[u].deleted)) = new
    <3>1. row[u] \in Row /\ row[u].deleted = FALSE /\ imp.kept[u] = None
      BY <1>4, <1>5, <2>2 DEF ActiveIn, Row, DeletedProxy
    <3>2. Given(Spec1.proxy, imp.copy[u].deleted) = new
      BY <1>1, <1>2, <1>3, <3>1 DEF AsExported, Given
    <3>. QED BY <1>1, <3>1, <3>2, FlushedWhole
  <2>4. Commit(u, new, FALSE)
    BY <1>11, <2>1, <2>2, <2>3 DEF Update, ActiveIn
  <2>. QED BY <1>2, <1>3, <1>10, <2>4
<1>12. CASE Restore
  <2>1. Deleted = u /\ Deleted # None
    BY <1>4, <1>6, <1>12 DEF Restore, Deleted, FoundBy
  <2>2. row[u] \in Row
    BY <1>1, <1>5, <2>1, SpecFinds
  <2>3. Flushed(u, Given(Kept, FALSE)) = new
    <3>1. ~ActiveIn(row, u)
      BY <1>1, <1>4, <1>6, <1>12, <2>1 DEF Restore, Deleted, Existing
    <3>2. imp.kept[u] = row[u].proxy
      BY <1>4, <2>2, <3>1, NoneIsNoRow DEF ActiveIn, DeletedProxy
    <3>3. Given(Kept, FALSE) = new
      BY <1>1, <1>2, <1>3, <2>1, <3>2 DEF AsExported, Given, Kept
    <3>. QED BY <1>1, <1>3, <2>2, <3>3, FlushedWhole
  <2>4. Commit(u, new, FALSE)
    BY <1>12, <2>1, <2>3 DEF Restore
  <2>. QED BY <1>2, <1>3, <1>10, <2>4
<1>13. CASE CreateNew
  <2>1. row[u] = None
    BY <1>4, <1>5, <1>6, <1>8, <1>13 DEF CreateNew, Existing, Deleted, FoundBy
  <2>2. Given(Spec1.proxy, FALSE) = new
    BY <1>2, <1>3, <1>4, <2>1 DEF Given, AsExported, DeletedProxy
  <2>3. Commit(u, new, FALSE)
    BY <1>2, <1>13, <2>1, <2>2 DEF CreateNew, NewUuid
  <2>. QED BY <1>2, <1>3, <1>10, <2>3
<1>. QED BY <1>11, <1>12, <1>13 DEF Apply

\* A spec, of an import that is interfered with or not, keeps the invariant.
LEMMA ApplyKeeps ==
  ASSUME IInv, Apply
  PROVE  IInv'
<1>1. SafeInv'
  BY ApplyKeepsSafe DEF IInv
<1>2. /\ imp \in Import /\ imp.pc = "specs" /\ imp.todo # << >> /\ disturbed' = disturbed
      /\ file' = file /\ row \in [Uuids -> Row \union {None}] /\ imp.copy \in [Uuids -> Row \union {None}]
  BY DEF IInv, SafeInv, TypeOK, Apply, Import
<1>3. CASE Alone
  <2>1. PICK u \in Uuids : u = Spec1.uuid
    BY <1>2, NextSpec DEF IInv
  <2>2. PICK new : new = AsExported(Spec1)
    OBVIOUS
  <2>3. /\ row' = [row EXCEPT ![u] = new]
        /\ imp' = [imp EXCEPT !.todo = Tail(@), !.copy[u] = new]
    BY <1>3, <2>1, <2>2, AloneIsWritten
  <2>4. /\ imp'.pc = "specs" /\ imp'.todo = Tail(imp.todo) /\ imp'.fair = imp.fair
        /\ imp'.active = imp.active /\ imp'.deleted = imp.deleted
        /\ imp'.copy = [imp.copy EXCEPT ![u] = new] /\ imp'.kept = imp.kept
    BY <1>2, <2>3 DEF Import
  <2>5. row'[u] = new /\ \A v \in Uuids : v # u => row'[v] = row[v]
    BY <1>2, <2>3
  <2>6. CopyIsCurrent'
    BY <1>2, <1>3, <2>3, <2>4 DEF IInv, CopyIsCurrent, Importing
  <2>7. \A j \in 1 .. Len(imp'.todo) :
            /\ j + 1 \in 1 .. Len(imp.todo) /\ imp'.todo[j] = imp.todo[j + 1]
            /\ imp'.todo[j].uuid \in Uuids
            /\ imp'.todo[j].uuid # u /\ imp'.todo[j].name # Spec1.name
    <3>1. SafeInv
      BY DEF IInv
    <3>2. /\ \A j \in 1 .. Len(Tail(imp.todo)) :
                 /\ j + 1 \in 1 .. Len(imp.todo) /\ Tail(imp.todo)[j] = imp.todo[j + 1]
                 /\ Tail(imp.todo)[j].uuid \in Uuids
                 /\ Tail(imp.todo)[j].uuid # Spec1.uuid /\ Tail(imp.todo)[j].name # Spec1.name
      BY <1>2, <3>1, NextSpec
    <3>3. imp'.todo = Tail(imp.todo)
      BY <2>4
    <3>. QED BY <2>1, <3>2, <3>3, Zenon
  <2>8. PendingIsClear'
    <3>1. ASSUME NEW j \in 1 .. Len(imp'.todo), NEW e, e = imp'.todo[j]
          PROVE  /\ Named(row', e.name) \subseteq {e.uuid}
                 /\ FoundBy(e.name) \subseteq {e.uuid, None}
                 /\ imp.active[e.name] = e.uuid => ActiveIn(row', e.uuid)
                 /\ imp.deleted[e.name] = e.uuid => ~ActiveIn(row', e.uuid)
                 /\ imp.kept[e.uuid] = DeletedProxy(e.uuid)'
      <4>1. PICK k \in 1 .. Len(imp.todo) : e = imp.todo[k]
        BY <2>7, <3>1
      <4>2. e.uuid \in Uuids /\ e.uuid # u /\ e.name # Spec1.name
        BY <2>7, <3>1
      <4>3. /\ Named(row, e.name) \subseteq {e.uuid}
            /\ FoundBy(e.name) \subseteq {e.uuid, None}
            /\ imp.active[e.name] = e.uuid => ActiveIn(row, e.uuid)
            /\ imp.deleted[e.name] = e.uuid => ~ActiveIn(row, e.uuid)
            /\ imp.kept[e.uuid] = DeletedProxy(e.uuid)
        BY <1>2, <1>3, <4>1 DEF IInv, PendingIsClear
      <4>4. new.name = Spec1.name
        BY <2>2 DEF AsExported
      <4>5. Named(row', e.name) \subseteq {e.uuid}
        BY <2>5, <4>2, <4>3, <4>4 DEF Named
      <4>. QED BY <2>5, <4>2, <4>3, <4>5 DEF ActiveIn, DeletedProxy
    <3>2. \A j \in 1 .. Len(imp'.todo) :
              /\ Named(row', imp'.todo[j].name) \subseteq {imp'.todo[j].uuid}
              /\ {imp'.active[imp'.todo[j].name], imp'.deleted[imp'.todo[j].name]}
                     \subseteq {imp'.todo[j].uuid, None}
              /\ imp'.active[imp'.todo[j].name] = imp'.todo[j].uuid => ActiveIn(row', imp'.todo[j].uuid)
              /\ imp'.deleted[imp'.todo[j].name] = imp'.todo[j].uuid => ~ActiveIn(row', imp'.todo[j].uuid)
              /\ imp'.kept[imp'.todo[j].uuid] = DeletedProxy(imp.todo[j].uuid)'
      BY <2>4, <3>1 DEF FoundBy
    <3>. QED BY <3>2 DEF PendingIsClear, FoundBy, Named, ActiveIn, DeletedProxy
  <2>9. AppliedIsBack'
    <3>1. Applied' = Applied + 1 /\ Applied \in Nat
      BY <1>2, <2>3, <2>4, TodoAdvances, <1>1, NextSpec DEF IInv, SafeInv, TypeOK
    <3>2. Applied + 1 \in 1 .. Len(file) /\ Spec1 = file[Applied + 1]
      BY <1>2, NextSpec DEF IInv
    <3>3. \A i \in 1 .. Applied : row[file[i].uuid] = AsExported(file[i])
      BY <1>2, <1>3 DEF IInv, AppliedIsBack, BackAs
    <3>4. ASSUME NEW i \in 1 .. Applied + 1
          PROVE  row'[file[i].uuid] = AsExported(file[i])
      <4>1. CASE i = Applied + 1
        BY <2>1, <2>2, <2>5, <3>2, <4>1
      <4>2. CASE i # Applied + 1
        <5>1. i \in 1 .. Applied /\ i \in 1 .. Len(file)
          BY <3>1, <3>2, <4>2, FileEntries DEF IInv, SafeInv
        <5>2. file[i].uuid # u /\ file[i].uuid \in Uuids
          BY <2>1, <3>2, <4>2, <5>1, FileEntries DEF IInv, SafeInv, FileKeys
        <5>. QED BY <2>5, <3>3, <5>1, <5>2
      <4>. QED BY <4>1, <4>2
    <3>5. \A i \in 1 .. Applied' : row'[file[i].uuid] = AsExported(file[i])
      BY <3>1, <3>4
    <3>. QED BY <1>2, <2>4, <3>5 DEF AppliedIsBack, BackAs, AsExported
  <2>. QED BY <1>1, <2>6, <2>8, <2>9 DEF IInv
<1>4. CASE ~Alone
  <2>1. imp'.fair = imp.fair
    BY <1>2, ApplyEnds DEF IInv, Written, LeftAlone, Refused, Import
  <2>2. ~Alone'
    BY <1>2, <1>4, <2>1 DEF Alone
  <2>. QED BY <1>1, <2>2 DEF IInv, CopyIsCurrent, PendingIsClear, AppliedIsBack
<1>. QED BY <1>3, <1>4

-----------------------------------------------------------------------------
(* The theorems.                                                            *)

\* Every step keeps the invariant.
LEMMA StepKeepsInv ==
  ASSUME IInv, [Next]_vars
  PROVE  IInv'
<1>1. CASE User
  <2>1. ASSUME NEW u \in Uuids, NEW n \in Names, NEW e \in BOOLEAN, NEW p \in Proxy,
               Create(u, n, e, p) \/ Patch(u, n, e, p)
        PROVE  IInv'
    BY <2>1, CreateKeeps, PatchKeeps
  <2>2. ASSUME NEW u \in Uuids, Delete(u)
        PROVE  IInv'
    BY <2>2, DeleteKeeps
  <2>3. ASSUME NEW u \in Uuids, NEW f \in SUBSET Models, NEW d \in SUBSET Models, PatchModel(u, f, d)
        PROVE  IInv'
    BY <2>3, PatchModelKeeps
  <2>. QED BY <1>1, <2>1, <2>2, <2>3, ReinstallKeeps DEF User
<1>2. CASE UNCHANGED vars
  <2>1. SafeInv'
    <3>1. TypeOK' /\ FileKeys' /\ TodoIsRest'
      BY <1>2 DEF vars, IInv, SafeInv, TypeOK, FileKeys, TodoIsRest, ActiveIn, Applied
    <3>2. LookupsAreRows' /\ CopiesAreRows' /\ GoneIsDeleted'
      BY <1>2 DEF vars, IInv, SafeInv, LookupsAreRows, CopiesAreRows, GoneIsDeleted, Importing,
         ActiveIn, FoundBy, Finds
    <3>3. FoundTwiceIsUntouched' /\ FoundHasName'
      BY <1>2 DEF vars, IInv, SafeInv, FoundTwiceIsUntouched, FoundHasName, FoundBy
    <3>. QED BY <3>1, <3>2, <3>3 DEF SafeInv
  <2>2. CopyIsCurrent' /\ PendingIsClear' /\ AppliedIsBack'
    BY <1>2 DEF vars, IInv, CopyIsCurrent, PendingIsClear, AppliedIsBack, Importing, ActiveIn, Applied,
       FoundBy, Alone, BackAs, AsExported, DeletedProxy, Named
  <2>. QED BY <2>1, <2>2 DEF IInv
<1>. QED BY <1>1, <1>2, ExportKeeps, BeginKeeps, ApplyKeeps, EndSpecsKeeps, FavoritesKeeps, DisabledKeeps
       DEF Next

\* The invariant holds in every state.
THEOREM Inductive == Spec => []IInv
<1>1. Init => IInv
  BY InitIsInvariant
<1>2. IInv /\ [Next]_vars => IInv'
  BY StepKeepsInv
<1>. QED BY <1>1, <1>2, PTL DEF Spec

\* The state has its type through edits, exports, imports and reinstallations: in
\* particular no two active providers share a name, whatever an import renames.
THEOREM TypeCorrect == Spec => []TypeOK
<1>1. IInv => TypeOK
  BY DEF IInv, SafeInv
<1>. QED BY <1>1, Inductive, PTL

\* A provider that is deleted while an import runs is not brought back by it,
\* although the import may hold its row as active, and may find it more than once.
THEOREM DeletionIsKept == Spec => []DeletionWins
<1>1. IInv => DeletionWins
  BY DEF IInv, SafeInv, GoneIsDeleted, DeletionWins
<1>. QED BY <1>1, Inductive, PTL

\* What a file has comes back, if no user edits providers meanwhile and no other row
\* has one of the names: the import succeeds, through update, restoration and
\* creation alike, and every provider of the file is active with its columns, and
\* with the favorites and disabled models listed.  Without a proxy or headers in the
\* file, a restored provider keeps those it was deleted with; empty lists change
\* nothing.
THEOREM ExportComesBack == Spec => []RoundTrip
<1>1. ASSUME IInv, imp.pc \in {"done", "failed"}, imp.fair, ~disturbed
      PROVE  imp.pc = "done" /\ \A i \in 1 .. Len(file) : Back(file[i])
  <2>1. imp.pc = "done"
    BY <1>1 DEF IInv, AppliedIsBack, Alone
  <2>2. ASSUME NEW i \in 1 .. Len(file)
        PROVE  Back(file[i])
    <3>1. /\ BackAs(file[i])
          /\ file[i].fav # {} => fav[file[i].uuid] = file[i].fav
          /\ file[i].off # {} => off[file[i].uuid] = file[i].off
      BY <1>1, <2>1 DEF IInv, AppliedIsBack, Alone
    <3>2. file[i].uuid \in Uuids /\ ActiveIn(row, file[i].uuid)
      BY <1>1, <3>1, FileEntries, BackIsThere DEF IInv, SafeInv, TypeOK
    <3>. QED BY <3>1, <3>2 DEF Back, BackAs
  <2>. QED BY <2>1, <2>2
<1>2. IInv => RoundTrip
  BY <1>1 DEF RoundTrip
<1>. QED BY <1>2, Inductive, PTL

\* What a row's change during an import is due to.
Spared(u) ==
    \/ row'[u] = row[u] /\ fav'[u] = fav[u] /\ off'[u] = off[u]
    \/ edits' # edits
    \/ \E i \in 1 .. Len(file) :
          \/ file[i].uuid = u
          \/ u \in Named(imp.copy, file[i].name) \union Named(row, file[i].name)

\* Favorites and disabled models go to providers the file leads to.
LEMMA ListsSpare ==
  ASSUME IInv, NEW old \in [Uuids -> SUBSET Models], NEW byName \in Dicts(Uuids),
         NEW lists \in [1 .. Len(file) -> SUBSET Models], NEW u \in Uuids
  PROVE  \/ Restored(old, lists, byName)[u] = old[u]
         \/ \E i \in 1 .. Len(file) : file[i].uuid = u \/ u \in Named(row, file[i].name)
<1>1. Len(file) \in Nat /\ \A i \in 1 .. Len(file) : file[i].name \in Names
  BY FileEntries DEF IInv, SafeInv
<1>2. \A i \in 1 .. Len(file) : byName[file[i].name] = u => u \in Named(row, file[i].name)
  <2>1. Uuids \in SUBSET Uuids /\ u # None
    BY TransferAssumption
  <2>2. \A n \in Names : byName[n] # None => byName[n] \in Named(row, n) \intersect Uuids
    BY <2>1, DictsLeadToRows
  <2>. QED BY <1>1, <2>1, <2>2
<1>3. CASE Restored(old, lists, byName)[u] # old[u]
  <2>1. PICK i \in 1 .. Len(file) : Target(file[i], byName) = u \/ byName[file[i].name] = u
    BY <1>1, <1>3, RestoredFrom
  <2>. QED BY <1>2, <2>1 DEF Target
<1>. QED BY <1>3

\* No step of an import changes a row the file does not lead to.
LEMMA StepSpares ==
  ASSUME IInv, [Next]_vars, Importing, NEW u \in Uuids
  PROVE  Spared(u)
<1> USE DEF IInv
<1>1. edits \in Nat /\ fav \in [Uuids -> SUBSET Models] /\ off \in [Uuids -> SUBSET Models]
        /\ Len(file) \in Nat /\ row \in [Uuids -> Row \union {None}]
  BY TransferAssumption DEF SafeInv, TypeOK
<1>2. \A i \in 1 .. Len(file) :
          file[i].fav \in SUBSET Models /\ file[i].off \in SUBSET Models
  BY FileEntries DEF SafeInv
<1>3. CASE User
  <2>1. edits' = edits + 1
    BY <1>3 DEF User, Create, Patch, Delete, PatchModel, Reinstall, Edit
  <2>. QED BY <1>1, <2>1 DEF Spared
<1>4. CASE Export \/ Begin
  BY <1>4 DEF Export, Begin
<1>5. CASE EndSpecs \/ UNCHANGED vars
  BY <1>5 DEF EndSpecs, vars, Spared
<1>6. CASE Favorites
  <2> DEFINE lists == [i \in 1 .. Len(file) |-> file[i].fav]
  <2>1. PICK byName \in Dicts(Uuids) : fav' = Restored(fav, lists, byName)
    BY <1>6 DEF Favorites
  <2>2. row' = row /\ off' = off
    BY <1>6 DEF Favorites
  <2>3. lists \in [1 .. Len(file) -> SUBSET Models]
    BY <1>2
  <2> HIDE DEF lists
  <2>. QED BY <1>1, <2>1, <2>2, <2>3, ListsSpare DEF Spared
<1>7. CASE Disabled
  <2> DEFINE lists == [i \in 1 .. Len(file) |-> file[i].off]
  <2>1. PICK byName \in Dicts(Uuids) : off' = Restored(off, lists, byName)
    BY <1>7 DEF Disabled
  <2>2. row' = row /\ fav' = fav
    BY <1>7 DEF Disabled
  <2>3. lists \in [1 .. Len(file) -> SUBSET Models]
    BY <1>2
  <2> HIDE DEF lists
  <2>. QED BY <1>1, <2>1, <2>2, <2>3, ListsSpare DEF Spared
<1>8. CASE Apply
  <2>1. imp.pc = "specs" /\ imp.todo # << >> /\ fav' = fav /\ off' = off
    BY <1>8 DEF Apply
  <2>2. CASE LeftAlone \/ Refused
    BY <2>1, <2>2 DEF LeftAlone, Refused, Spared
  <2>3. ASSUME NEW v \in Uuids, NEW new \in Row, Written(v, new)
        PROVE  Spared(u)
    <3>1. CASE u # v
      BY <1>1, <2>1, <2>3, <3>1 DEF Written, Spared
    <3>2. CASE u = v
      <4>1. /\ Applied + 1 \in 1 .. Len(file) /\ Spec1 = file[Applied + 1]
            /\ 1 \in 1 .. Len(imp.todo) /\ Spec1 = imp.todo[1] /\ Spec1.name \in Names
        BY <2>1, NextSpec
      <4>2. CASE Spec1.uuid = u
        BY <4>1, <4>2 DEF Spared
      <4>3. CASE u \in FoundBy(Spec1.name)
        <5>1. u # None
          BY TransferAssumption
        <5>2. imp.copy[u] # None
          BY <4>1, <4>3, <5>1 DEF SafeInv, LookupsAreRows
        <5>3. imp.copy[u].name = Spec1.name \/ \E i \in 1 .. Len(file) : file[i].uuid = u
          BY <2>1, <4>1, <4>3, <5>1 DEF SafeInv, FoundHasName
        <5>4. CASE imp.copy[u].name = Spec1.name
          <6>1. u \in Named(imp.copy, file[Applied + 1].name)
            BY <4>1, <5>2, <5>4 DEF Named
          <6>. QED BY <4>1, <6>1 DEF Spared
        <5>. QED BY <5>3, <5>4 DEF Spared
      <4>. QED BY <2>3, <3>2, <4>2, <4>3 DEF Written, Finds
    <3>. QED BY <3>1, <3>2
  <2>. QED BY <1>8, <2>2, <2>3, ApplyEnds
<1>. QED BY <1>3, <1>4, <1>5, <1>6, <1>7, <1>8 DEF Next

\* Whatever the file says and whatever is renamed or deleted meanwhile, an import
\* changes no row but those its specs name or have been read under their names.
THEOREM BystandersAreSpared == Spec => Bystanders
<1>1. IInv /\ [Next]_vars => [Importing => \A u \in Uuids : Spared(u)]_vars
  BY StepSpares
<1>2. [Importing => \A u \in Uuids : Spared(u)]_vars =>
        [Importing =>
            \A u \in Uuids :
                \/ row'[u] = row[u] /\ fav'[u] = fav[u] /\ off'[u] = off[u]
                \/ edits' # edits
                \/ \E i \in 1 .. Len(file) :
                      \/ file[i].uuid = u
                      \/ u \in Named(imp.copy, file[i].name) \union Named(row, file[i].name)]_vars
  BY DEF Spared
<1>. QED BY <1>1, <1>2, Inductive, PTL DEF Spec, Bystanders

=============================================================================

---------------------------- MODULE ImportExport ----------------------------
(***************************************************************************)
(* Export and import of the configuration: api/v1/dashboard.py (export_,   *)
(* import_) over services/import_export.py, services/providers.py and      *)
(* set_favorites and set_disabled of services/models.py.                   *)
(*                                                                         *)
(* An import commits provider by provider, so other requests run between   *)
(* two of its specs.  While apply_provider_specs holds the rows it has      *)
(* loaded, the session does not read them again (expire_on_commit is off): *)
(* it decides by those copies, and an UPDATE writes the columns that       *)
(* differ from them.                                                       *)
(*                                                                         *)
(* Two columns stand for the rest: enabled for those an import always      *)
(* overwrites, the key among them, as an export has them all; and proxy    *)
(* for those that may be empty, itself and headers_json, which a patch     *)
(* empties and a restoration does not.                                     *)
(*                                                                         *)
(* The three queries that open an import are one step, and so is each of   *)
(* its passes over the favorites and over the disabled models; one import  *)
(* runs at a time, and no model is edited meanwhile.                       *)
(***************************************************************************)
EXTENDS Naturals, Sequences, FiniteSets

CONSTANTS
    Uuids,     \* of provider rows
    Names,     \* of providers, a set of numbers: exports are ordered by name
    Models,    \* model ids, the same ones under every provider
    Proxies,   \* that a provider may be called through
    None,      \* no row, no proxy
    MaxEdits   \* bound: what users do besides exporting and importing

ASSUME TransferAssumption ==
    /\ IsFiniteSet(Uuids)
    /\ Names \subseteq Nat
    /\ None \notin [name : Names, on : BOOLEAN, proxy : Proxies \union {None}, deleted : BOOLEAN]
    /\ None \notin Uuids
    /\ MaxEdits \in Nat

VARIABLES
    row,       \* providers: uuid -> its row, or None
    used,      \* uuids given out so far; uuid4 never repeats one
    fav,       \* uuid -> its favorite models
    off,       \* uuid -> its disabled models
    file,      \* the last export, its providers in order
    imp,       \* the import in progress
    edits,     \* edits so far
    disturbed, \* history: a provider was edited since the import began
    gone       \* history: providers deleted since the import began

vars == <<row, used, fav, off, file, imp, edits, disturbed, gone>>

Proxy == Proxies \union {None}
Row == [name : Names, on : BOOLEAN, proxy : Proxy, deleted : BOOLEAN]
Entry ==
    [uuid : Uuids, name : Names, on : BOOLEAN, proxy : Proxy, fav : SUBSET Models, off : SUBSET Models]

\* todo: specs to apply; active, deleted: existing_active and existing_deleted,
\* name -> uuid or None; copy: the session's rows; kept, fair: history, the proxies
\* of deleted rows when the import began, and whether no row but a spec's own had
\* its name then.
Import ==
    [pc : {"idle", "specs", "favorites", "disabled", "done", "failed"}, todo : Seq(Entry),
     active : [Names -> Uuids \union {None}], deleted : [Names -> Uuids \union {None}],
     copy : [Uuids -> Row \union {None}], kept : [Uuids -> Proxy], fair : BOOLEAN]

NoImport ==
    [pc |-> "idle", todo |-> << >>, active |-> [n \in Names |-> None],
     deleted |-> [n \in Names |-> None], copy |-> [u \in Uuids |-> None],
     kept |-> [u \in Uuids |-> None], fair |-> FALSE]

Exists(rows, u) == rows[u] # None
ActiveIn(rows, u) == rows[u] # None /\ ~rows[u].deleted

TypeOK ==
    /\ row \in [Uuids -> Row \union {None}]
    /\ used \subseteq Uuids
    /\ {u \in Uuids : row[u] # None} \subseteq used
    /\ \A u, v \in Uuids : ActiveIn(row, u) /\ ActiveIn(row, v) /\ row[u].name = row[v].name => u = v
    /\ fav \in [Uuids -> SUBSET Models] /\ off \in [Uuids -> SUBSET Models]
    /\ file \in Seq(Entry)
    /\ imp \in Import
    /\ edits \in 0 .. MaxEdits
    /\ disturbed \in BOOLEAN
    /\ gone \subseteq Uuids

Init ==
    /\ row = [u \in Uuids |-> None]
    /\ used = {}
    /\ fav = [u \in Uuids |-> {}]
    /\ off = [u \in Uuids |-> {}]
    /\ file = << >>
    /\ imp = NoImport
    /\ edits = 0
    /\ disturbed = FALSE
    /\ gone = {}

-----------------------------------------------------------------------------
Active == {u \in Uuids : ActiveIn(row, u)}
Named(rows, n) == {u \in Uuids : rows[u] # None /\ rows[u].name = n}

\* The partial unique index on the name of active rows refuses a commit.
Conflict(rows) ==
    \E u, v \in Uuids :
        u # v /\ ActiveIn(rows, u) /\ ActiveIn(rows, v) /\ rows[u].name = rows[v].name

Importing == imp.pc \in {"specs", "favorites", "disabled"}

-----------------------------------------------------------------------------
(* What users do.                                                           *)

Edit(rows) ==
    /\ edits < MaxEdits
    /\ ~Conflict(rows)
    /\ row' = rows
    /\ edits' = edits + 1
    /\ disturbed' = (disturbed \/ imp.pc # "idle")
    /\ UNCHANGED <<file, imp, off>>

Create(u, n, e, p) ==
    /\ u \notin used
    /\ Edit([row EXCEPT ![u] = [name |-> n, on |-> e, proxy |-> p, deleted |-> FALSE]])
    /\ used' = used \union {u}
    /\ UNCHANGED <<fav, gone>>

Patch(u, n, e, p) ==
    /\ u \in Active
    /\ Edit([row EXCEPT ![u] = [name |-> n, on |-> e, proxy |-> p, deleted |-> FALSE]])
    /\ UNCHANGED <<used, fav, gone>>

Delete(u) ==
    /\ u \in Active
    /\ Edit([row EXCEPT ![u].deleted = TRUE])
    /\ gone' = IF Importing THEN gone \union {u} ELSE gone
    /\ UNCHANGED <<used, fav>>

PatchModel(u, f, d) ==
    /\ u \in Active
    /\ ~Importing
    /\ edits < MaxEdits
    /\ fav' = [fav EXCEPT ![u] = f]
    /\ off' = [off EXCEPT ![u] = d]
    /\ edits' = edits + 1
    /\ disturbed' = (disturbed \/ imp.pc # "idle")
    /\ UNCHANGED <<row, used, file, imp, gone>>

\* A new installation, with an empty database; the file is kept.
Reinstall ==
    /\ ~Importing
    /\ file # << >>
    /\ edits < MaxEdits
    /\ row' = [u \in Uuids |-> None]
    /\ fav' = [u \in Uuids |-> {}]
    /\ off' = [u \in Uuids |-> {}]
    /\ imp' = NoImport
    /\ edits' = edits + 1
    /\ UNCHANGED <<used, file, disturbed, gone>>

\* The active providers, ordered by name.
Ordered(us) ==
    LET at == 1 .. Cardinality(Active)
    IN  \A i, j \in at : i < j => row[us[i]].name < row[us[j]].name

Entries(us) ==
    [i \in 1 .. Cardinality(Active) |->
        [uuid |-> us[i], name |-> row[us[i]].name, on |-> row[us[i]].on, proxy |-> row[us[i]].proxy,
         fav |-> fav[us[i]], off |-> off[us[i]]]]

Export ==
    /\ ~Importing
    /\ Active # {}
    /\ \E us \in [1 .. Cardinality(Active) -> Active] : Ordered(us) /\ file' = Entries(us)
    /\ imp' = NoImport
    /\ UNCHANGED <<row, used, fav, off, edits, disturbed, gone>>

-----------------------------------------------------------------------------
(* apply_provider_specs.                                                    *)

\* The dictionaries {p.name: p} of some rows: of several rows of one name the last stays,
\* and the order by name does not say which that is.
Dicts(from) ==
    {d \in [Names -> Uuids \union {None}] :
        \A n \in Names :
            LET us == Named(row, n) \intersect from
            IN  IF us = {} THEN d[n] = None ELSE d[n] \in us}

DeletedProxy(u) == IF row[u] # None /\ row[u].deleted THEN row[u].proxy ELSE None

Begin ==
    /\ ~Importing
    /\ file # << >>
    /\ \E a \in Dicts(Active), d \in Dicts(Uuids \ Active) :
          imp' = [pc |-> "specs", todo |-> file, active |-> a, deleted |-> d, copy |-> row,
                  kept |-> [u \in Uuids |-> DeletedProxy(u)],
                  fair |-> \A i \in 1 .. Len(file) : Named(row, file[i].name) \subseteq {file[i].uuid}]
    /\ disturbed' = FALSE
    /\ gone' = {}
    /\ UNCHANGED <<row, used, fav, off, file, edits>>

Spec1 == Head(imp.todo)
\* existing_uuid, if the lookups by name have not found that row themselves.
ByUuid ==
    IF Exists(imp.copy, Spec1.uuid)
         /\ Spec1.uuid \notin {imp.active[Spec1.name], imp.deleted[Spec1.name]}
    THEN Spec1.uuid ELSE None

\* (mutant) the row is sought by name only
Existing_ByName == imp.active[Spec1.name]
\* existing_p: an active row found by uuid wins over one found by name.
Existing ==
    IF ByUuid # None /\ ActiveIn(imp.copy, ByUuid) THEN ByUuid ELSE imp.active[Spec1.name]
\* deleted_p
Deleted ==
    IF ByUuid # None /\ ~ActiveIn(imp.copy, ByUuid) THEN ByUuid ELSE imp.deleted[Spec1.name]

\* The spec's values, as a row.
Given(proxy, deleted) ==
    [name |-> Spec1.name, on |-> Spec1.on, proxy |-> proxy, deleted |-> deleted]

\* The row after an UPDATE from the session's copy of it to `new'.
Flushed(u, new) ==
    LET old == imp.copy[u]
    IN  [name |-> IF new.name # old.name THEN new.name ELSE row[u].name,
         on |-> IF new.on # old.on THEN new.on ELSE row[u].on,
         proxy |-> IF new.proxy # old.proxy THEN new.proxy ELSE row[u].proxy,
         deleted |-> IF new.deleted # old.deleted THEN new.deleted ELSE row[u].deleted]

\* Commit and refresh; or an index refuses a name, or a uuid inserted twice, and
\* the request ends there.
Commit(u, new, twice) ==
    LET rows == [row EXCEPT ![u] = new]
    IN  IF Conflict(rows) \/ twice
        THEN /\ imp' = [imp EXCEPT !.pc = "failed"]
             /\ UNCHANGED row
        ELSE /\ row' = rows
             /\ imp' = [imp EXCEPT !.todo = Tail(@), !.copy[u] = new]

\* (mutant) written into the row at hand, as for a restored one
Update_Direct ==
    /\ Existing # None
    /\ Commit(Existing, Given(Spec1.proxy, FALSE), FALSE)
    /\ UNCHANGED used
\* patch_provider finds active rows only, and reads that from the database; it is
\* given every column, a proxy the spec is without included.
Update ==
    /\ Existing # None
    /\ IF row[Existing].deleted
       THEN /\ imp' = [imp EXCEPT !.todo = Tail(@)]
            /\ UNCHANGED row
       ELSE Commit(Existing, Flushed(Existing, Given(Spec1.proxy, imp.copy[Existing].deleted)), FALSE)
    /\ UNCHANGED used

\* A spec without a proxy leaves the deleted row's.
Kept == IF Spec1.proxy # None THEN Spec1.proxy ELSE imp.copy[Deleted].proxy

Restore ==
    /\ Existing = None
    /\ Deleted # None
    /\ Commit(Deleted, Flushed(Deleted, Given(Kept, FALSE)), FALSE)
    /\ UNCHANGED used

\* (mutant) the new row gets a uuid of its own
NewUuid_Fresh == IF used = Uuids THEN Spec1.uuid ELSE CHOOSE u \in Uuids \ used : TRUE
\* create_provider takes the uuid of the spec.
NewUuid == Spec1.uuid

CreateNew ==
    /\ Existing = None
    /\ Deleted = None
    /\ Commit(NewUuid, Given(Spec1.proxy, FALSE), row[NewUuid] # None)
    /\ used' = used \union {NewUuid}

Apply ==
    /\ imp.pc = "specs"
    /\ imp.todo # << >>
    /\ Update \/ Restore \/ CreateNew
    /\ UNCHANGED <<fav, off, file, edits, disturbed, gone>>

EndSpecs ==
    /\ imp.pc = "specs"
    /\ imp.todo = << >>
    /\ imp' = [imp EXCEPT !.pc = "favorites"]
    /\ UNCHANGED <<row, used, fav, off, file, edits, disturbed, gone>>

-----------------------------------------------------------------------------
(* apply_favorites_import and apply_disabled_import.                        *)

\* The provider an entry of the file is about.
Target(e, byName) == IF Exists(row, e.uuid) THEN e.uuid ELSE byName[e.name]

\* The entries with something in them, each provider's first; what is listed by
\* uuid goes before the same list by name alone.
Restored(old, lists, byName) ==
    LET es == {i \in 1 .. Len(file) : lists[i] # {}}
        Rich(u) == {i \in es : Target(file[i], byName) = u}
        Legacy(u) == {i \in es : byName[file[i].name] = u}
        First(is) == CHOOSE i \in is : \A j \in is : i <= j
    IN  [u \in Uuids |-> IF Rich(u) # {} THEN lists[First(Rich(u))]
                         ELSE IF Legacy(u) # {} THEN lists[First(Legacy(u))]
                         ELSE old[u]]

Favorites ==
    /\ imp.pc = "favorites"
    /\ \E byName \in Dicts(Uuids) :
          fav' = Restored(fav, [i \in 1 .. Len(file) |-> file[i].fav], byName)
    /\ imp' = [imp EXCEPT !.pc = "disabled"]
    /\ UNCHANGED <<row, used, off, file, edits, disturbed, gone>>

\* The request ends, and the session with its rows.
Disabled ==
    /\ imp.pc = "disabled"
    /\ \E byName \in Dicts(Uuids) :
          off' = Restored(off, [i \in 1 .. Len(file) |-> file[i].off], byName)
    /\ imp' = [NoImport EXCEPT !.pc = "done", !.kept = imp.kept, !.fair = imp.fair]
    /\ UNCHANGED <<row, used, fav, file, edits, disturbed, gone>>

User ==
    \/ \E u \in Uuids, n \in Names, e \in BOOLEAN, p \in Proxy : Create(u, n, e, p) \/ Patch(u, n, e, p)
    \/ \E u \in Uuids : Delete(u)
    \/ \E u \in Uuids, f, d \in SUBSET Models : PatchModel(u, f, d)
    \/ Reinstall

Next == User \/ Export \/ Begin \/ Apply \/ EndSpecs \/ Favorites \/ Disabled

Spec == Init /\ [][Next]_vars

-----------------------------------------------------------------------------
(* Properties.                                                              *)

\* The row an entry comes back as: what it has, and in place of a proxy it does not
\* have, the one of its row if that was deleted when the import began.
AsExported(e) ==
    [name |-> e.name, on |-> e.on, proxy |-> IF e.proxy # None THEN e.proxy ELSE imp.kept[e.uuid],
     deleted |-> FALSE]

Back(e) ==
    /\ row[e.uuid] = AsExported(e)
    /\ e.fav # {} => fav[e.uuid] = e.fav
    /\ e.off # {} => off[e.uuid] = e.off

\* An import that nobody interferes with succeeds, unless some other row has the
\* name of a provider of the file.  Whatever was renamed, edited, deleted or
\* reinstalled since the export, each provider is then active under its uuid with
\* the columns of the file.  Three things the file is without do not come back as
\* missing: a provider exported without a proxy (or headers) that was edited and
\* deleted keeps the edited one, and empty lists of favorites and of disabled
\* models leave what there is.
RoundTrip ==
    imp.pc \in {"done", "failed"} /\ imp.fair /\ ~disturbed =>
        imp.pc = "done" /\ \A i \in 1 .. Len(file) : Back(file[i])

\* A provider that is deleted while an import runs stays deleted: the import may
\* have read its row as active, but a patch finds active rows only.
DeletionWins == \A u \in gone : ~ActiveIn(row, u)

\* An import leaves alone every row that has neither the uuid nor the name of a
\* spec, as it stands or as the import has read it.
Bystanders ==
    [][Importing =>
        \A u \in Uuids :
            \/ row'[u] = row[u] /\ fav'[u] = fav[u] /\ off'[u] = off[u]
            \/ edits' # edits
            \/ \E i \in 1 .. Len(file) :
                  \/ file[i].uuid = u
                  \/ u \in Named(imp.copy, file[i].name) \union Named(row, file[i].name)]_vars

-----------------------------------------------------------------------------
(* What the docs and comments say and the code does not do.                 *)

\* import_export.py:33: a match by uuid goes before a match by name.
UuidFirst ==
    imp.pc = "done" /\ ~disturbed =>
        \A i \in 1 .. Len(file) : Exists(row, file[i].uuid) => file[i].uuid \in Active

\* import_export.py:50: the spec is the source of truth, said of an update; a
\* restoration keeps a proxy that the spec is without.
ProxyIsExported ==
    imp.pc = "done" /\ imp.fair /\ ~disturbed =>
        \A i \in 1 .. Len(file) : row[file[i].uuid].proxy = file[i].proxy
=============================================================================

----------------------------- MODULE SettingsDoc -----------------------------
(***************************************************************************)
(* The runtime settings document: one JSON row in the database and one     *)
(* copy in memory (internal/gateway/api_settings.go, modelmeta_sync.go,    *)
(* internal/store: LoadRuntimeSettings, SaveRuntimeSettings,               *)
(* UpdateSettings).                                                        *)
(*                                                                         *)
(* Three kinds of writers share the row: an admin's PUT replaces it, the   *)
(* per-model Responses-API switch edits one entry, and the model-catalog   *)
(* sync refreshes the entries; the installer, another process, edits it    *)
(* too.  Each reads, waits for a network or a rebuild, and writes; nothing *)
(* but SQLite's transactions serialises them.  Requests read only the copy *)
(* (rsPtr) and, for a model's surface, what earlier requests learned.      *)
(*                                                                         *)
(* The sections an admin tunes (rotation, retry, web tools, ...) are one   *)
(* value, "tuning".  Of a model's metadata only what Validate and the      *)
(* routing look at is kept: the entry exists, its limits are positive, its *)
(* responsesApi flag.  The zai and kilo catalogs are merged by the same    *)
(* steps as zen's and are left out.                                        *)
(***************************************************************************)
EXTENDS Naturals

CONSTANTS
  Tunings,      \* values of the tuned sections
  DefaultTuning,
  Models,       \* models of the zen catalog
  Admins,       \* handlers that may run at the same time
  Syncs,        \* catalog syncs that may run at the same time
  MaxEdits,     \* bound: edits made
  MaxSyncs,     \* bound: syncs started
  MaxFailures   \* bound: store accesses and fetches that fail

ASSUME SettingsAssumption ==
  /\ DefaultTuning \in Tunings
  /\ Admins \cap Syncs = {}
  /\ MaxEdits \in Nat /\ MaxSyncs \in Nat /\ MaxFailures \in Nat

VARIABLES
  doc,      \* the stored document
  copy,     \* rsPtr, the document in memory
  mode,     \* the tuning the live pools were built with
  learned,  \* gateway.surfaceOver: model -> surface, "" when unset
  admin,    \* handler -> its locals
  sync,     \* sync -> its locals
  edits, started, failures  \* counters for the bounds

bounds == <<edits, started, failures>>
vars == <<doc, copy, mode, learned, admin, sync, bounds>>

\* A model's metadata; NoEntry is an id absent from the map.
NoEntry == [known |-> FALSE, usable |-> FALSE, responses |-> FALSE]
Entry == [known : {TRUE}, usable : BOOLEAN, responses : BOOLEAN] \cup {NoEntry}
\* handleSetResponsesAPI's entry for an id not in the catalog yet.
DefaultEntry == [known |-> TRUE, usable |-> TRUE, responses |-> FALSE]

NoMeta == [m \in Models |-> NoEntry]
DefaultDoc == [tuning |-> DefaultTuning, meta |-> NoMeta, status |-> 0]

\* Validate, run on every PUT body.
ValidMeta(meta) == \A m \in Models : meta[m].known => meta[m].usable
Bodies == [tuning : Tunings, meta : [Models -> Entry]]

\* What models.dev says of a model: nothing, no positive limits, or both.
Documented == {"missing", "unusable", "usable"}

\* Mutant of Refreshes: entries without positive limits are taken as well.
RefreshesAny(dev, m) == dev[m] # "missing"

\* mergeModelMeta skips what it cannot use and keeps what the admin curated.
Refreshes(dev, m) == dev[m] = "usable"

\* Mutant of Merged: the flag is overwritten like the rest of the entry.
MergedAfresh(meta, live, dev) ==
  [m \in Models |->
     IF m \notin live THEN NoEntry
     ELSE IF ~Refreshes(dev, m) THEN meta[m]
     ELSE [known |-> TRUE, usable |-> dev[m] = "usable", responses |-> FALSE]]

\* The merged catalog: ids gone from zen are pruned, documented ones are
\* refreshed and keep their flag (NoEntry's is off).
Merged(meta, live, dev) ==
  [m \in Models |->
     IF m \notin live THEN NoEntry
     ELSE IF ~Refreshes(dev, m) THEN meta[m]
     ELSE [known |-> TRUE, usable |-> dev[m] = "usable",
           responses |-> meta[m].responses]]

\* The surface a new request for m is sent to.
SurfaceFor(m) ==
  IF learned[m] # "" THEN learned[m]
  ELSE IF copy.meta[m].responses THEN "responses" ELSE "chat"

Unlearned == [m \in Models |-> ""]

IdleAdmin == [pc |-> "idle", kind |-> "none", body |-> DefaultDoc,
              mode |-> DefaultTuning]
IdleSync == [pc |-> "idle", number |-> 0, meta |-> NoMeta, read |-> DefaultDoc]

Fail == failures < MaxFailures /\ failures' = failures + 1

-----------------------------------------------------------------------------
Init ==
  /\ doc = DefaultDoc
  /\ copy = DefaultDoc
  /\ mode = DefaultTuning
  /\ learned = Unlearned
  /\ admin = [a \in Admins |-> IdleAdmin]
  /\ sync = [s \in Syncs |-> IdleSync]
  /\ edits = 0
  /\ started = 0
  /\ failures = 0

(***************************************************************************)
(* The admin's handlers.                                                   *)
(***************************************************************************)
AdminBecomes(a, q) == admin' = [admin EXCEPT ![a] = q]
AdminGoes(a, pc) == AdminBecomes(a, [admin[a] EXCEPT !.pc = pc])
AdminEnds(a) == AdminBecomes(a, IdleAdmin)
MayEdit(a) == admin[a].pc = "idle" /\ edits < MaxEdits /\ edits' = edits + 1

\* Mutant of Put: the status is taken from the copy in memory.
PutStatusFromCopy(a, body) ==
  /\ MayEdit(a)
  /\ ValidMeta(body.meta)
  /\ AdminBecomes(a, [IdleAdmin EXCEPT !.pc = "save", !.kind = "put",
       !.body = [tuning |-> body.tuning, meta |-> body.meta,
                 status |-> copy.status]])
  /\ UNCHANGED <<doc, copy, mode, learned, sync, started, failures>>

\* handlePutSettings: a valid body takes over the stored sync status.
Put(a, body) ==
  /\ MayEdit(a)
  /\ ValidMeta(body.meta)
  /\ AdminBecomes(a, [IdleAdmin EXCEPT !.pc = "save", !.kind = "put",
       !.body = [tuning |-> body.tuning, meta |-> body.meta,
                 status |-> doc.status]])
  /\ UNCHANGED <<doc, copy, mode, learned, sync, started, failures>>

\* SaveRuntimeSettings replaces the row.
PutSave(a) ==
  /\ admin[a].pc = "save"
  /\ doc' = admin[a].body
  /\ AdminGoes(a, "swap")
  /\ UNCHANGED <<copy, mode, learned, sync, bounds>>

PutSwap(a) ==
  /\ admin[a].pc = "swap"
  /\ copy' = admin[a].body
  /\ AdminBecomes(a, [IdleAdmin EXCEPT !.pc = "build", !.kind = "put"])
  /\ UNCHANGED <<doc, mode, learned, sync, bounds>>

\* handleSetResponsesAPI: one transaction of UpdateSettings; the copy is not
\* touched.
Switch(a, m, flag) ==
  /\ MayEdit(a)
  /\ doc' = [doc EXCEPT !.meta[m] =
               [(IF @.known THEN @ ELSE DefaultEntry) EXCEPT !.responses = flag]]
  /\ AdminBecomes(a, [IdleAdmin EXCEPT !.pc = "build", !.kind = "switch"])
  /\ UNCHANGED <<copy, mode, learned, sync, started, failures>>

\* rebuildPools: new pools are built for the tuning in memory, ...
Build(a) ==
  /\ admin[a].pc = "build"
  /\ AdminBecomes(a, [admin[a] EXCEPT !.pc = "install", !.mode = copy.tuning])
  /\ UNCHANGED <<doc, copy, mode, learned, sync, bounds>>

\* ... and put into service.
Install(a) ==
  /\ admin[a].pc = "install"
  /\ mode' = admin[a].mode
  /\ AdminGoes(a, "forget")
  /\ UNCHANGED <<doc, copy, learned, sync, bounds>>

\* Mutant of Forget: the learned surfaces stay.
ForgetNothing(a) ==
  /\ admin[a].pc = "forget"
  /\ AdminEnds(a)
  /\ UNCHANGED <<doc, copy, mode, learned, sync, bounds>>

\* The handler drops the learned surfaces and answers.
Forget(a) ==
  /\ admin[a].pc = "forget"
  /\ learned' = Unlearned
  /\ AdminEnds(a)
  /\ UNCHANGED <<doc, copy, mode, sync, bounds>>

\* The save, the rebuild's queries or its cache reloads fail: 500, the
\* remaining steps are skipped.
HandlerFails(a) ==
  /\ admin[a].pc \in {"save", "build", "forget"}
  /\ Fail
  /\ AdminEnds(a)
  /\ UNCHANGED <<doc, copy, mode, learned, sync, edits, started>>

(***************************************************************************)
(* The catalog sync.                                                       *)
(***************************************************************************)
SyncBecomes(s, q) == sync' = [sync EXCEPT ![s] = q]

\* syncModelMeta starts: from the maintenance loop when one is due (whether it
\* is, is left open), one at a time, or from "Sync now", any number.
SyncStart(s) ==
  /\ sync[s].pc = "idle" /\ started < MaxSyncs
  /\ started' = started + 1
  /\ SyncBecomes(s, [IdleSync EXCEPT !.pc = "fetch", !.number = started + 1])
  /\ UNCHANGED <<doc, copy, mode, learned, admin, edits, failures>>

\* Both catalogs are fetched; the stored document is loaded and merged.
SyncMerge(s, live, dev) ==
  /\ sync[s].pc = "fetch"
  /\ SyncBecomes(s, [sync[s] EXCEPT !.pc = "persist",
                                    !.meta = Merged(doc.meta, live, dev)])
  /\ UNCHANGED <<doc, copy, mode, learned, admin, bounds>>

\* Mutant of Persisted: the whole document is written back, the rest of it as
\* it is in memory.
PersistedWhole(s) ==
  [doc EXCEPT !.meta = sync[s].meta, !.status = sync[s].number,
              !.tuning = copy.tuning]

\* What UpdateSettings makes of the row as it is at that moment.
Persisted(s) ==
  [doc EXCEPT !.meta = sync[s].meta, !.status = sync[s].number]

SyncPersist(s) ==
  /\ sync[s].pc = "persist"
  /\ doc' = Persisted(s)
  /\ SyncBecomes(s, [IdleSync EXCEPT !.pc = "reload"])
  /\ UNCHANGED <<copy, mode, learned, admin, bounds>>

\* A fetch, the load or the transaction fails.
SyncFails(s) ==
  /\ sync[s].pc \in {"fetch", "persist"}
  /\ Fail
  /\ SyncBecomes(s, [sync[s] EXCEPT !.pc = "report", !.meta = NoMeta])
  /\ UNCHANGED <<doc, copy, mode, learned, admin, edits, started>>

\* failModelMetaSync records the failure and nothing else.
SyncReport(s) ==
  /\ sync[s].pc = "report"
  /\ doc' = [doc EXCEPT !.status = sync[s].number]
  /\ SyncBecomes(s, [IdleSync EXCEPT !.pc = "reload"])
  /\ UNCHANGED <<copy, mode, learned, admin, bounds>>

SyncReload(s) ==
  /\ sync[s].pc = "reload"
  /\ SyncBecomes(s, [sync[s] EXCEPT !.pc = "swap", !.read = doc])
  /\ UNCHANGED <<doc, copy, mode, learned, admin, bounds>>

\* The status cannot be stored, or the reload fails: the copy stays.
SyncGivesUp(s) ==
  /\ sync[s].pc \in {"report", "reload"}
  /\ Fail
  /\ SyncBecomes(s, IdleSync)
  /\ UNCHANGED <<doc, copy, mode, learned, admin, edits, started>>

SyncSwap(s) ==
  /\ sync[s].pc = "swap"
  /\ copy' = sync[s].read
  /\ SyncBecomes(s, IdleSync)
  /\ UNCHANGED <<doc, mode, learned, admin, bounds>>

(***************************************************************************)
(* Everybody else.                                                         *)
(***************************************************************************)
\* A request finds its model on the other surface (Rotation's AnswerFlip).
Learn(m, surface) ==
  /\ learned[m] # surface
  /\ learned' = [learned EXCEPT ![m] = surface]
  /\ UNCHANGED <<doc, copy, mode, admin, sync, bounds>>

\* The installer's setting, written by another process (storeObscuraPath).
InstallerEdit(tuning) ==
  /\ edits < MaxEdits /\ edits' = edits + 1
  /\ doc' = [doc EXCEPT !.tuning = tuning]
  /\ UNCHANGED <<copy, mode, learned, admin, sync, started, failures>>

\* A crash or an exit at any point, and a start from the database.
Restart ==
  /\ copy' = doc
  /\ mode' = doc.tuning
  /\ learned' = Unlearned
  /\ admin' = [a \in Admins |-> IdleAdmin]
  /\ sync' = [s \in Syncs |-> IdleSync]
  /\ UNCHANGED <<doc, bounds>>

Handle(a) ==
  \/ \E body \in Bodies : Put(a, body)
  \/ PutSave(a)
  \/ PutSwap(a)
  \/ \E m \in Models, flag \in BOOLEAN : Switch(a, m, flag)
  \/ Build(a)
  \/ Install(a)
  \/ Forget(a)
  \/ HandlerFails(a)

Synchronise(s) ==
  \/ SyncStart(s)
  \/ \E live \in SUBSET Models, dev \in [Models -> Documented] :
       SyncMerge(s, live, dev)
  \/ SyncPersist(s)
  \/ SyncFails(s)
  \/ SyncReport(s)
  \/ SyncReload(s)
  \/ SyncGivesUp(s)
  \/ SyncSwap(s)

Running ==
  \/ \E a \in Admins : Handle(a)
  \/ \E s \in Syncs : Synchronise(s)
  \/ \E m \in Models, surface \in {"chat", "responses"} : Learn(m, surface)
  \/ \E tuning \in Tunings : InstallerEdit(tuning)

Next == Running \/ Restart

Spec == Init /\ [][Next]_vars
=============================================================================

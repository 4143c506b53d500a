---------------------------- MODULE SettingsProofs ----------------------------
(***************************************************************************)
(* Theorems about the settings document, for any number of handlers, syncs *)
(* and models.                                                             *)
(***************************************************************************)
EXTENDS SettingsAudit, TLAPS

Doc == [tuning : Tunings, meta : [Models -> Entry], status : 0 .. MaxSyncs]
GoodDocs == {d \in Doc : ValidMeta(d.meta)}

Handler ==
  [ pc : {"idle", "save", "swap", "build", "install", "forget"},
    kind : {"none", "put", "switch"}, body : GoodDocs, mode : Tunings ]
Syncer ==
  [ pc : {"idle", "fetch", "persist", "report", "reload", "swap"},
    number : 0 .. MaxSyncs,
    meta : {meta \in [Models -> Entry] : ValidMeta(meta)}, read : GoodDocs ]

\* The inductive invariant: what a handler or a sync holds on to and will
\* write later is as valid as what is stored.
SettingsInv ==
  /\ doc \in GoodDocs /\ copy \in GoodDocs
  /\ mode \in Tunings
  /\ learned \in [Models -> {"", "chat", "responses"}]
  /\ admin \in [Admins -> Handler]
  /\ \A a \in Admins : admin[a].pc = "idle" => admin[a] = IdleAdmin
  /\ sync \in [Syncs -> Syncer]
  /\ \A s \in Syncs : sync[s].pc = "idle" => sync[s] = IdleSync
  /\ edits \in Nat /\ started \in 0 .. MaxSyncs /\ failures \in Nat

-----------------------------------------------------------------------------
\* The defaults pass Validate, and processes at rest are well formed.
LEMMA DefaultsValid ==
  /\ DefaultDoc \in GoodDocs
  /\ IdleAdmin \in Handler
  /\ IdleSync \in Syncer
<1>1. NoMeta \in [Models -> Entry] /\ ValidMeta(NoMeta)
  BY DEF NoMeta, NoEntry, Entry, ValidMeta
<1>2. DefaultDoc \in GoodDocs
  BY <1>1, SettingsAssumption DEF DefaultDoc, GoodDocs, Doc
<1> QED
  BY <1>1, <1>2, SettingsAssumption DEF IdleAdmin, Handler, IdleSync, Syncer

\* The fields of a model's entry, as the merges use them.
LEMMA EntryFields ==
  /\ NoEntry \in Entry
  /\ \A e \in Entry :
       /\ e.known \in BOOLEAN /\ e.usable \in BOOLEAN /\ e.responses \in BOOLEAN
       /\ e.known /\ e.usable =>
            e \in [known : {TRUE}, usable : {TRUE}, responses : BOOLEAN]
<1>1. ASSUME NEW e \in Entry
      PROVE  /\ e.known \in BOOLEAN /\ e.usable \in BOOLEAN
             /\ e.responses \in BOOLEAN
             /\ e.known /\ e.usable =>
                  e \in [known : {TRUE}, usable : {TRUE}, responses : BOOLEAN]
  <2>1. CASE e = NoEntry
    BY <2>1 DEF NoEntry
  <2>2. CASE e \in [known : {TRUE}, usable : BOOLEAN, responses : BOOLEAN]
    BY <2>2
  <2> QED
    BY <2>1, <2>2 DEF Entry
<1> QED
  BY <1>1 DEF Entry

\* Merging never produces an entry Validate would refuse: what is taken from
\* the catalog has positive limits, the rest was stored before.
LEMMA MergedValid ==
  ASSUME NEW meta \in [Models -> Entry], ValidMeta(meta),
         NEW live \in SUBSET Models, NEW dev \in [Models -> Documented]
  PROVE  /\ Merged(meta, live, dev) \in [Models -> Entry]
         /\ ValidMeta(Merged(meta, live, dev))
<1>1. ASSUME NEW m \in Models PROVE Merged(meta, live, dev)[m] \in Entry
  <2>1. meta[m] \in Entry /\ meta[m].responses \in BOOLEAN /\ NoEntry \in Entry
    BY EntryFields
  <2>2. CASE m \in live /\ Refreshes(dev, m)
    <3>1. Merged(meta, live, dev)[m] =
            [known |-> TRUE, usable |-> TRUE, responses |-> meta[m].responses]
      BY <2>2 DEF Merged, Refreshes
    <3> QED
      BY <2>1, <3>1 DEF Entry
  <2>3. CASE ~(m \in live /\ Refreshes(dev, m))
    BY <2>1, <2>3 DEF Merged
  <2> QED
    BY <2>2, <2>3
<1>2. \A m \in Models :
        Merged(meta, live, dev)[m].known => Merged(meta, live, dev)[m].usable
  BY DEF Merged, Refreshes, NoEntry, ValidMeta
<1> QED
  BY <1>1, <1>2 DEF Merged, ValidMeta

\* The invariant holds initially.
LEMMA InitGood == AuditInit => SettingsInv
<1> SUFFICES ASSUME AuditInit PROVE SettingsInv
  OBVIOUS
<1>1. started \in 0 .. MaxSyncs
  BY SettingsAssumption DEF AuditInit, Init
<1> QED
  BY <1>1, DefaultsValid, SettingsAssumption
  DEF AuditInit, Init, SettingsInv, Unlearned

\* A handler or a sync that takes a step is left with well-formed locals.
LEMMA AdminMoves ==
  ASSUME SettingsInv, NEW a \in Admins, NEW q \in Handler,
         q.pc = "idle" => q = IdleAdmin, admin' = [admin EXCEPT ![a] = q]
  PROVE  /\ admin' \in [Admins -> Handler]
         /\ \A b \in Admins : admin'[b].pc = "idle" => admin'[b] = IdleAdmin
  BY DEF SettingsInv

\* A sync that moves on leaves the others as they were.
LEMMA SyncMoves ==
  ASSUME SettingsInv, NEW s \in Syncs, NEW q \in Syncer,
         q.pc = "idle" => q = IdleSync, sync' = [sync EXCEPT ![s] = q]
  PROVE  /\ sync' \in [Syncs -> Syncer]
         /\ \A u \in Syncs : sync'[u].pc = "idle" => sync'[u] = IdleSync
  BY DEF SettingsInv

\* Every step of a settings handler keeps the invariant.
LEMMA HandlerStepGood ==
  ASSUME SettingsInv, NEW a \in Admins, Handle(a)
  PROVE  SettingsInv'
<1>0. /\ admin[a] \in Handler /\ admin[a].body \in GoodDocs
      /\ admin[a].mode \in Tunings
  BY DEF SettingsInv, Handler
<1>a. IdleAdmin \in Handler
  BY DefaultsValid
<1>b. edits + 1 \in Nat /\ failures + 1 \in Nat
  <2>1. edits \in Nat /\ failures \in Nat
    BY DEF SettingsInv
  <2> QED
    BY <2>1
<1>1. CASE \E body \in Bodies : Put(a, body)
  <2> PICK body \in Bodies : Put(a, body)
    BY <1>1
  <2> DEFINE new == [tuning |-> body.tuning, meta |-> body.meta,
                     status |-> doc.status]
             q == [IdleAdmin EXCEPT !.pc = "save", !.kind = "put", !.body = new]
  <2>1. new \in GoodDocs
    BY DEF Put, Bodies, GoodDocs, Doc, SettingsInv
  <2>2. admin' = [admin EXCEPT ![a] = q]
    BY DEF Put, AdminBecomes
  <2> HIDE DEF new
  <2>3. q \in Handler /\ q.pc # "idle"
    BY <2>1, <1>a DEF Handler
  <2> HIDE DEF q
  <2>4. edits' \in Nat
    BY <1>b DEF Put, MayEdit
  <2> QED
    BY <2>2, <2>3, <2>4, AdminMoves DEF Put, SettingsInv
<1>2. CASE PutSave(a)
  <2> DEFINE q == [admin[a] EXCEPT !.pc = "swap"]
  <2>1. q \in Handler /\ q.pc # "idle"
    BY <1>0 DEF Handler
  <2>2. admin' = [admin EXCEPT ![a] = q]
    BY <1>2 DEF PutSave, AdminGoes, AdminBecomes
  <2> HIDE DEF q
  <2> QED
    BY <1>0, <1>2, <2>1, <2>2, AdminMoves DEF PutSave, SettingsInv, bounds
<1>3. CASE PutSwap(a)
  <2> DEFINE q == [IdleAdmin EXCEPT !.pc = "build", !.kind = "put"]
  <2>1. q \in Handler /\ q.pc # "idle"
    BY <1>a DEF Handler
  <2>2. admin' = [admin EXCEPT ![a] = q]
    BY <1>3 DEF PutSwap, AdminBecomes
  <2> HIDE DEF q
  <2> QED
    BY <1>0, <1>3, <2>1, <2>2, AdminMoves DEF PutSwap, SettingsInv, bounds
<1>4. CASE \E m \in Models, flag \in BOOLEAN : Switch(a, m, flag)
  <2> PICK m \in Models, flag \in BOOLEAN : Switch(a, m, flag)
    BY <1>4
  <2> DEFINE old == IF doc.meta[m].known THEN doc.meta[m] ELSE DefaultEntry
             entry == [old EXCEPT !.responses = flag]
             meta == [doc.meta EXCEPT ![m] = entry]
             q == [IdleAdmin EXCEPT !.pc = "build", !.kind = "switch"]
  <2>1. doc \in Doc /\ doc.meta \in [Models -> Entry] /\ ValidMeta(doc.meta)
    BY DEF GoodDocs, Doc, SettingsInv
  <2>2. old \in [known : {TRUE}, usable : {TRUE}, responses : BOOLEAN]
    <3>1. CASE doc.meta[m].known
      <4>1. doc.meta[m] \in Entry /\ doc.meta[m].usable
        BY <2>1, <3>1 DEF ValidMeta
      <4> QED
        BY <3>1, <4>1, EntryFields
    <3>2. CASE ~doc.meta[m].known
      BY <3>2 DEF DefaultEntry
    <3> QED
      BY <3>1, <3>2
  <2>3. doc' = [doc EXCEPT !.meta = meta]
    BY <2>1 DEF Switch, Doc
  <2> HIDE DEF old
  <2>4. entry \in Entry /\ entry.known /\ entry.usable
    BY <2>2 DEF Entry
  <2> HIDE DEF entry
  <2>5. meta \in [Models -> Entry] /\ ValidMeta(meta)
    BY <2>1, <2>4 DEF ValidMeta
  <2> HIDE DEF meta
  <2>6. doc' \in GoodDocs
    BY <2>1, <2>3, <2>5 DEF GoodDocs, Doc
  <2>7. q \in Handler /\ q.pc # "idle"
    BY <1>a DEF Handler
  <2>8. admin' = [admin EXCEPT ![a] = q]
    BY DEF Switch, AdminBecomes
  <2> HIDE DEF q
  <2>9. edits' \in Nat
    BY <1>b DEF Switch, MayEdit
  <2> QED
    BY <2>6, <2>7, <2>8, <2>9, AdminMoves DEF Switch, SettingsInv
<1>5. CASE Build(a)
  <2> DEFINE q == [admin[a] EXCEPT !.pc = "install", !.mode = copy.tuning]
  <2>1. copy.tuning \in Tunings
    BY DEF GoodDocs, Doc, SettingsInv
  <2>2. q \in Handler /\ q.pc # "idle"
    BY <1>0, <2>1 DEF Handler
  <2>3. admin' = [admin EXCEPT ![a] = q]
    BY <1>5 DEF Build, AdminBecomes
  <2> HIDE DEF q
  <2> QED
    BY <1>5, <2>2, <2>3, AdminMoves DEF Build, SettingsInv, bounds
<1>6. CASE Install(a)
  <2> DEFINE q == [admin[a] EXCEPT !.pc = "forget"]
  <2>1. q \in Handler /\ q.pc # "idle"
    BY <1>0 DEF Handler
  <2>2. admin' = [admin EXCEPT ![a] = q]
    BY <1>6 DEF Install, AdminGoes, AdminBecomes
  <2> HIDE DEF q
  <2> QED
    BY <1>0, <1>6, <2>1, <2>2, AdminMoves DEF Install, SettingsInv, bounds
<1>7. CASE Forget(a)
  <2>1. learned' \in [Models -> {"", "chat", "responses"}]
    BY <1>7 DEF Forget, Unlearned
  <2> QED
    BY <1>7, <1>a, <2>1, AdminMoves
    DEF Forget, AdminEnds, AdminBecomes, SettingsInv, bounds
<1>8. CASE HandlerFails(a)
  <2>1. failures' \in Nat
    BY <1>8, <1>b DEF HandlerFails, Fail
  <2> QED
    BY <1>8, <1>a, <2>1, AdminMoves
    DEF HandlerFails, AdminEnds, AdminBecomes, SettingsInv
<1> QED
  BY <1>1, <1>2, <1>3, <1>4, <1>5, <1>6, <1>7, <1>8 DEF Handle

\* Every step of a model sync keeps the invariant.
LEMMA SyncStepGood ==
  ASSUME SettingsInv, NEW s \in Syncs, Synchronise(s)
  PROVE  SettingsInv'
<1>0. /\ sync[s] \in Syncer /\ sync[s].number \in 0 .. MaxSyncs
      /\ sync[s].meta \in [Models -> Entry] /\ ValidMeta(sync[s].meta)
      /\ sync[s].read \in GoodDocs
  BY DEF SettingsInv, Syncer
<1>a. IdleSync \in Syncer
  BY DefaultsValid
<1>b. doc \in Doc /\ doc.meta \in [Models -> Entry] /\ ValidMeta(doc.meta)
  BY DEF SettingsInv, GoodDocs, Doc
<1>c. failures + 1 \in Nat /\ started \in 0 .. MaxSyncs
  <2>1. failures \in Nat /\ started \in 0 .. MaxSyncs
    BY DEF SettingsInv
  <2> QED
    BY <2>1
<1>1. CASE SyncStart(s)
  <2> DEFINE q == [IdleSync EXCEPT !.pc = "fetch", !.number = started + 1]
  <2>1. started + 1 \in 0 .. MaxSyncs
    BY <1>1, <1>c, SettingsAssumption DEF SyncStart
  <2>2. q \in Syncer /\ q.pc # "idle"
    BY <1>a, <2>1 DEF Syncer
  <2>3. sync' = [sync EXCEPT ![s] = q] /\ started' \in 0 .. MaxSyncs
    BY <1>1, <2>1 DEF SyncStart, SyncBecomes
  <2> HIDE DEF q
  <2> QED
    BY <1>1, <2>2, <2>3, SyncMoves DEF SyncStart, SettingsInv
<1>2. CASE \E live \in SUBSET Models, dev \in [Models -> Documented] :
             SyncMerge(s, live, dev)
  <2> PICK live \in SUBSET Models, dev \in [Models -> Documented] :
             SyncMerge(s, live, dev)
    BY <1>2
  <2> DEFINE meta == Merged(doc.meta, live, dev)
             q == [sync[s] EXCEPT !.pc = "persist", !.meta = meta]
  <2>1. meta \in [Models -> Entry] /\ ValidMeta(meta)
    BY <1>b, MergedValid
  <2>2. sync' = [sync EXCEPT ![s] = q]
    BY DEF SyncMerge, SyncBecomes
  <2> HIDE DEF meta
  <2>3. q \in Syncer /\ q.pc # "idle"
    BY <1>0, <2>1 DEF Syncer
  <2> HIDE DEF q
  <2> QED
    BY <2>2, <2>3, SyncMoves DEF SyncMerge, SettingsInv, bounds
<1>3. /\ [IdleSync EXCEPT !.pc = "reload"] \in Syncer
      /\ [IdleSync EXCEPT !.pc = "reload"].pc # "idle"
  BY <1>a DEF Syncer
<1>4. CASE SyncPersist(s)
  <2>1. doc' \in GoodDocs
    BY <1>0, <1>4, <1>b DEF SyncPersist, Persisted, GoodDocs, Doc
  <2>2. sync' = [sync EXCEPT ![s] = [IdleSync EXCEPT !.pc = "reload"]]
    BY <1>4 DEF SyncPersist, SyncBecomes
  <2> QED
    BY <1>3, <1>4, <2>1, <2>2, SyncMoves DEF SyncPersist, SettingsInv, bounds
<1>5. CASE SyncFails(s)
  <2> DEFINE q == [sync[s] EXCEPT !.pc = "report", !.meta = NoMeta]
  <2>1. NoMeta \in [Models -> Entry] /\ ValidMeta(NoMeta)
    BY DEF NoMeta, NoEntry, Entry, ValidMeta
  <2>2. q \in Syncer /\ q.pc # "idle"
    BY <1>0, <2>1 DEF Syncer
  <2>3. sync' = [sync EXCEPT ![s] = q] /\ failures' \in Nat
    BY <1>5, <1>c DEF SyncFails, SyncBecomes, Fail
  <2> HIDE DEF q
  <2> QED
    BY <1>5, <2>2, <2>3, SyncMoves DEF SyncFails, SettingsInv
<1>6. CASE SyncReport(s)
  <2>1. doc' \in GoodDocs
    BY <1>0, <1>6, <1>b DEF SyncReport, GoodDocs, Doc
  <2>2. sync' = [sync EXCEPT ![s] = [IdleSync EXCEPT !.pc = "reload"]]
    BY <1>6 DEF SyncReport, SyncBecomes
  <2> QED
    BY <1>3, <1>6, <2>1, <2>2, SyncMoves DEF SyncReport, SettingsInv, bounds
<1>7. CASE SyncReload(s)
  <2> DEFINE q == [sync[s] EXCEPT !.pc = "swap", !.read = doc]
  <2>1. q \in Syncer /\ q.pc # "idle"
    BY <1>0 DEF Syncer, SettingsInv
  <2>2. sync' = [sync EXCEPT ![s] = q]
    BY <1>7 DEF SyncReload, SyncBecomes
  <2> HIDE DEF q
  <2> QED
    BY <1>7, <2>1, <2>2, SyncMoves DEF SyncReload, SettingsInv, bounds
<1>8. CASE SyncGivesUp(s)
  <2>1. failures' \in Nat
    BY <1>8, <1>c DEF SyncGivesUp, Fail
  <2> QED
    BY <1>8, <1>a, <2>1, SyncMoves DEF SyncGivesUp, SyncBecomes, SettingsInv
<1>9. CASE SyncSwap(s)
  BY <1>0, <1>9, <1>a, SyncMoves DEF SyncSwap, SyncBecomes, SettingsInv, bounds
<1> QED
  BY <1>1, <1>2, <1>4, <1>5, <1>6, <1>7, <1>8, <1>9 DEF Synchronise

\* Every step keeps the invariant.
LEMMA StepGood == SettingsInv /\ [AuditNext]_auditVars => SettingsInv'
<1> SUFFICES ASSUME SettingsInv, [AuditNext]_auditVars
             PROVE  SettingsInv'
  OBVIOUS
<1>1. CASE \E a \in Admins : Handle(a)
  BY <1>1, HandlerStepGood
<1>2. CASE \E s \in Syncs : Synchronise(s)
  BY <1>2, SyncStepGood
<1>3. CASE \E m \in Models, surface \in {"chat", "responses"} : Learn(m, surface)
  BY <1>3 DEF Learn, SettingsInv, bounds
<1>4. CASE \E tuning \in Tunings : InstallerEdit(tuning)
  <2> PICK tuning \in Tunings : InstallerEdit(tuning)
    BY <1>4
  <2>1. edits \in Nat /\ doc \in GoodDocs
    BY DEF SettingsInv
  <2>2. edits' \in Nat
    BY <2>1 DEF InstallerEdit
  <2>3. doc' \in GoodDocs
    BY <2>1 DEF InstallerEdit, GoodDocs, Doc
  <2> QED
    BY <2>2, <2>3 DEF InstallerEdit, SettingsInv
<1>5. CASE Restart
  <2>1. doc.tuning \in Tunings
    BY DEF SettingsInv, GoodDocs, Doc
  <2> QED
    BY <1>5, <2>1, DefaultsValid DEF Restart, SettingsInv, Unlearned, bounds
<1>6. CASE UNCHANGED auditVars
  BY <1>6 DEF auditVars, vars, bounds, SettingsInv
<1> QED
  BY <1>1, <1>2, <1>3, <1>4, <1>5, <1>6 DEF AuditNext, AuditRestart, Running

\* handlePutSettings: "the database must never hold a document boot would
\* refuse".  Whoever writes it, and whatever is in flight, the stored document
\* and the copy in memory pass Validate.
THEOREM DocumentStaysValid == AuditSpec => []TypeOK
<1>1. SettingsInv => TypeOK
  BY DEF SettingsInv, TypeOK, ValidDoc, GoodDocs, Doc
<1> QED
  BY <1>1, InitGood, StepGood, PTL DEF AuditSpec

-----------------------------------------------------------------------------
\* A step that does not save tuned sections leaves them as they are.
LEMMA StepKeepsTuning ==
  SettingsInv /\ SyncKeepsTuning /\ [AuditNext]_auditVars => SyncKeepsTuning'
<1> SUFFICES ASSUME SettingsInv, SyncKeepsTuning, [AuditNext]_auditVars
             PROVE  SyncKeepsTuning'
  OBVIOUS
<1> DEFINE Writes == InstallerWrites \/ \E a \in Admins : Saves(a)
<1>1. CASE Notes /\ Running
  <2>1. saved' = IF Writes THEN doc'.tuning ELSE saved
    BY <1>1 DEF Notes
  <2>2. SUFFICES ASSUME ~Writes PROVE doc'.tuning = doc.tuning
    BY <2>1 DEF SyncKeepsTuning
  <2>3. ASSUME NEW a \in Admins, Handle(a) PROVE doc'.tuning = doc.tuning
    <3>1. CASE PutSave(a)
      <4>1. admin'[a].pc = "swap"
        BY <3>1 DEF PutSave, AdminGoes, AdminBecomes, SettingsInv, Handler
      <4>2. Saves(a)
        BY <3>1, <4>1 DEF Saves, PutSave
      <4> QED
        BY <2>2, <4>2
    <3>2. CASE \E m \in Models, flag \in BOOLEAN : Switch(a, m, flag)
      BY <3>2 DEF Switch, SettingsInv, GoodDocs, Doc
    <3> QED
      BY <2>3, <3>1, <3>2
      DEF Handle, Put, PutSwap, Build, Install, Forget, HandlerFails
  <2>4. ASSUME NEW s \in Syncs, Synchronise(s) PROVE doc'.tuning = doc.tuning
    BY <2>4 DEF Synchronise, SyncStart, SyncMerge, SyncPersist, Persisted,
                SyncFails, SyncReport, SyncReload, SyncGivesUp, SyncSwap,
                SettingsInv, GoodDocs, Doc
  <2>5. ASSUME NEW m \in Models, NEW surface \in {"chat", "responses"},
               Learn(m, surface)
        PROVE  doc'.tuning = doc.tuning
    BY <2>5 DEF Learn
  <2>6. ASSUME NEW tuning \in Tunings, InstallerEdit(tuning)
        PROVE  doc'.tuning = doc.tuning
    <3>0. edits \in Nat
      BY DEF SettingsInv
    <3>1. edits' # edits
      BY <2>6, <3>0 DEF InstallerEdit
    <3>2. Busy' = Busy
      BY <2>6 DEF InstallerEdit, Busy
    <3>3. InstallerWrites
      BY <3>1, <3>2 DEF InstallerWrites, Begun
    <3> QED
      BY <2>2, <3>3
  <2> QED
    BY <1>1, <2>3, <2>4, <2>5, <2>6 DEF Running
<1>2. CASE AuditRestart
  BY <1>2 DEF AuditRestart, Restart, SyncKeepsTuning
<1>3. CASE UNCHANGED auditVars
  BY <1>3 DEF auditVars, vars, history, SyncKeepsTuning
<1> QED
  BY <1>1, <1>2, <1>3 DEF AuditNext

\* UpdateSettings: no sync, switch, failure or restart, in any interleaving
\* with any number of saves, changes what an admin or the installer saved last.
THEOREM SavedTuningSurvives == AuditSpec => []SyncKeepsTuning
<1>1. AuditInit => SyncKeepsTuning
  BY DEF AuditInit, Init, DefaultDoc, SyncKeepsTuning
<1> QED
  BY <1>1, InitGood, StepGood, StepKeepsTuning, PTL DEF AuditSpec

-----------------------------------------------------------------------------
(***************************************************************************)
(* Which notes a step leaves.                                              *)
(***************************************************************************)
\* Handlers at rest neither save nor switch; syncs at rest neither merge nor
\* record.
LEMMA Restful ==
  ASSUME SettingsInv
  PROVE  /\ \A a \in Admins : admin'[a] = admin[a] => ~Saves(a) /\ ~Switches(a)
         /\ \A s \in Syncs : sync'[s] = sync[s] => ~Merges(s) /\ ~Records(s)
<1>1. ASSUME NEW a \in Admins, admin'[a] = admin[a] PROVE ~Saves(a) /\ ~Switches(a)
  <2>1. admin[a].pc = "idle" => admin[a] = IdleAdmin
    BY Zenon DEF SettingsInv
  <2>2. IdleAdmin.kind = "none"
    BY DEF IdleAdmin
  <2> QED
    BY <1>1, <2>1, <2>2 DEF Saves, Switches
<1>2. ASSUME NEW s \in Syncs, sync'[s] = sync[s] PROVE ~Merges(s) /\ ~Records(s)
  BY <1>2 DEF Merges, Records
<1> QED
  BY <1>1, <1>2

\* What a handler's step means: a save all flags, a switch those it changes.
LEMMA HandlerMeans ==
  ASSUME SettingsInv, NEW a \in Admins, Handle(a)
  PROVE  /\ \A s \in Syncs : ~Merges(s) /\ ~Records(s)
         /\ \/ PutSave(a) /\ Meant = Models
            \/ (\E m \in Models, flag \in BOOLEAN : Switch(a, m, flag)) /\
                 Meant = {m \in Models : doc'.meta[m] # doc.meta[m]}
            \/ doc' = doc /\ Meant = {}
<1>0. /\ admin \in [Admins -> Handler] /\ (admin[a].pc = "idle" => admin[a] = IdleAdmin)
  BY DEF SettingsInv
<1>1. sync' = sync /\ \A b \in Admins \ {a} : admin'[b] = admin[b]
  BY <1>0 DEF Handle, Put, PutSave, PutSwap, Switch, Build, Install, Forget, HandlerFails,
              AdminGoes, AdminEnds, AdminBecomes
<1>2. /\ \A s \in Syncs : ~Merges(s) /\ ~Records(s)
      /\ \A b \in Admins \ {a} : ~Saves(b) /\ ~Switches(b)
  BY <1>1, Restful
<1>3. CASE PutSave(a)
  <2>1. admin[a].pc = "save" /\ admin'[a].pc = "swap"
    BY <1>0, <1>3 DEF PutSave, AdminGoes, AdminBecomes, Handler
  <2>2. Saves(a) /\ \A b \in Admins : ~Switches(b)
    BY <1>2, <2>1 DEF Saves, Switches
  <2>3. Meant = Models
    BY <1>2, <2>2, Zenon DEF Meant
  <2> QED
    BY <1>2, <1>3, <2>3
<1>4. CASE \E m \in Models, flag \in BOOLEAN : Switch(a, m, flag)
  <2>1. admin[a].pc = "idle" /\ admin'[a].kind = "switch"
    BY <1>0, <1>4 DEF Switch, MayEdit, AdminBecomes, IdleAdmin, Handler
  <2>2. Switches(a) /\ \A b \in Admins : ~Saves(b)
    BY <1>2, <2>1 DEF Saves, Switches
  <2>3. Meant = {m \in Models : doc'.meta[m] # doc.meta[m]}
    BY <1>2, <2>2, Zenon DEF Meant
  <2> QED
    BY <1>2, <1>4, <2>3
<1>5. ASSUME doc' = doc, ~Saves(a), ~Switches(a)
      PROVE  doc' = doc /\ Meant = {}
  BY <1>2, <1>5, Zenon DEF Meant
<1>6. CASE \E body \in Bodies : Put(a, body)
  <2>1. doc' = doc /\ admin[a].pc = "idle" /\ admin'[a].kind = "put"
    BY <1>0, <1>6 DEF Put, MayEdit, AdminBecomes, IdleAdmin, Handler
  <2> QED
    BY <1>2, <1>5, <2>1 DEF Saves, Switches
<1>7. CASE PutSwap(a) \/ Build(a) \/ Install(a) \/ Forget(a)
  <2>1. doc' = doc /\ admin[a].pc \notin {"idle", "save"}
    BY <1>7 DEF PutSwap, Build, Install, Forget
  <2> QED
    BY <1>2, <1>5, <2>1 DEF Saves, Switches
<1>8. CASE HandlerFails(a)
  <2>1. doc' = doc /\ admin[a].pc # "idle" /\ admin'[a].pc = "idle"
    BY <1>0, <1>8 DEF HandlerFails, AdminEnds, AdminBecomes, IdleAdmin
  <2> QED
    BY <1>2, <1>5, <2>1 DEF Saves, Switches
<1> QED
  BY <1>2, <1>3, <1>4, <1>6, <1>7, <1>8 DEF Handle

\* What a sync's step means: a merge the flags it prunes.
LEMMA SyncMeans ==
  ASSUME SettingsInv, NEW s \in Syncs, Synchronise(s)
  PROVE  /\ \A q \in Syncs \ {s} : sync'[q] = sync[q] /\ ~Merges(q) /\ ~Records(q)
         /\ admin' = admin
         /\ Merges(s) <=> SyncPersist(s)
         /\ Records(s) <=> SyncPersist(s) \/ SyncReport(s)
         /\ Meant = IF Merges(s) THEN Pruned(s) ELSE {}
<1>0. sync \in [Syncs -> Syncer] /\ failures \in Nat
  BY DEF SettingsInv
<1>1. admin' = admin /\ \A q \in Syncs \ {s} : sync'[q] = sync[q]
  BY <1>0 DEF Synchronise, SyncStart, SyncMerge, SyncPersist, SyncFails, SyncReport, SyncReload,
              SyncGivesUp, SyncSwap, SyncBecomes
<1>2. /\ \A q \in Syncs \ {s} : ~Merges(q) /\ ~Records(q)
      /\ \A a \in Admins : ~Saves(a) /\ ~Switches(a)
  BY <1>1, Restful
<1>3. (Merges(s) <=> SyncPersist(s)) /\ (Records(s) <=> SyncPersist(s) \/ SyncReport(s))
  <2>1. CASE SyncPersist(s)
    <3>1. /\ sync[s].pc = "persist" /\ sync'[s].pc = "reload" /\ failures' = failures
      BY <1>0, <2>1 DEF SyncPersist, SyncBecomes, bounds, IdleSync
    <3> QED
      BY <2>1, <3>1 DEF Merges, Records
  <2>2. CASE SyncReport(s)
    <3>1. /\ sync[s].pc = "report" /\ sync'[s].pc = "reload" /\ failures' = failures
      BY <1>0, <2>2 DEF SyncReport, SyncBecomes, bounds, IdleSync
    <3> QED
      BY <2>2, <3>1 DEF Merges, Records, SyncPersist
  <2>3. CASE SyncStart(s) \/ SyncReload(s) \/ SyncSwap(s)
             \/ \E live \in SUBSET Models, dev \in [Models -> Documented] : SyncMerge(s, live, dev)
    <3>1. sync[s].pc \notin {"persist", "report"}
      BY <2>3 DEF SyncStart, SyncReload, SyncSwap, SyncMerge
    <3> QED
      BY <3>1 DEF Merges, Records, SyncPersist, SyncReport
  <2>4. CASE SyncFails(s) \/ SyncGivesUp(s)
    <3>1. failures' = failures + 1 /\ failures' # failures
      BY <1>0, <2>4 DEF SyncFails, SyncGivesUp, Fail
    <3>2. sync[s].pc = "persist" => sync'[s].pc # "reload"
      BY <1>0, <2>4 DEF SyncFails, SyncGivesUp, SyncBecomes, Syncer
    <3> QED
      BY <3>1, <3>2 DEF Merges, Records, SyncPersist, SyncReport, bounds
  <2> QED
    BY <2>1, <2>2, <2>3, <2>4 DEF Synchronise
<1>4. CASE Merges(s)
  <2>1. (CHOOSE q \in Syncs : Merges(q)) = s
    BY <1>2, <1>4
  <2>2. Meant = Pruned(CHOOSE q \in Syncs : Merges(q))
    BY <1>2, <1>4, Zenon DEF Meant
  <2> QED
    BY <1>1, <1>2, <1>3, <1>4, <2>1, <2>2
<1>5. CASE ~Merges(s)
  <2>1. Meant = {}
    BY <1>2, <1>5, Zenon DEF Meant
  <2> QED
    BY <1>1, <1>2, <1>3, <1>5, <2>1
<1> QED
  BY <1>4, <1>5

\* Nobody else means any flag.
LEMMA OthersMean ==
  ASSUME SettingsInv, UNCHANGED <<admin, sync>> PROVE Meant = {}
<1>1. /\ \A a \in Admins : ~Saves(a) /\ ~Switches(a)
      /\ \A s \in Syncs : ~Merges(s)
  BY Restful
<1> QED
  BY <1>1, Zenon DEF Meant

-----------------------------------------------------------------------------
(***************************************************************************)
(* The flags of the models.  A sync works on a copy; what it will write of *)
(* a model nobody touched meanwhile is what its last editor meant, or      *)
(* nothing at all.                                                         *)
(***************************************************************************)
CarriedBy(s, m) ==
  sync[s].pc = "persist" =>
    sync[s].meta[m] = NoEntry \/ sync[s].meta[m].responses = intended[m]

FlagInv ==
  \A m \in Models \ raced :
    /\ doc.meta[m].responses = intended[m]
    /\ \A s \in Syncs : CarriedBy(s, m)

\* A merge carries the flag over or drops the entry.
LEMMA MergeCarries ==
  ASSUME NEW meta \in [Models -> Entry], NEW live \in SUBSET Models,
         NEW dev \in [Models -> Documented], NEW m \in Models
  PROVE  \/ Merged(meta, live, dev)[m] = NoEntry
         \/ Merged(meta, live, dev)[m].responses = meta[m].responses
  BY DEF Merged

\* A step keeps the flags, if what it writes does.
LEMMA FlagsKept ==
  ASSUME FlagInv, Notes,
         \A s \in Syncs : sync'[s].pc = "persist" => s \in Merging \/ doc' = doc,
         \A m \in (Models \ raced) \ Meant :
           /\ doc'.meta[m].responses = doc.meta[m].responses
           /\ \A s \in Syncs : sync'[s].pc = "persist" =>
                \/ sync'[s] = sync[s] \/ sync'[s].meta[m] = NoEntry
                \/ sync'[s].meta[m].responses = doc.meta[m].responses,
         (\E s \in Syncs : sync'[s].pc = "persist") => Merging # {} \/ Meant = {}
  PROVE  FlagInv'
<1>1. /\ intended' = [m \in Models |-> IF m \in Meant THEN doc'.meta[m].responses ELSE intended[m]]
      /\ raced' = IF Merging # {} THEN raced \cup Meant ELSE raced \ Meant
  BY DEF Notes
<1> SUFFICES ASSUME NEW m \in Models, m \notin raced'
             PROVE  /\ doc'.meta[m].responses = intended'[m]
                    /\ \A s \in Syncs : CarriedBy(s, m)'
  BY DEF FlagInv
<1>2. CASE m \in Meant
  <2>1. doc'.meta[m].responses = intended'[m]
    BY <1>1, <1>2
  <2>2. ~ \E s \in Syncs : sync'[s].pc = "persist"
    BY <1>1, <1>2
  <2> QED
    BY <2>1, <2>2 DEF CarriedBy
<1>3. CASE m \notin Meant
  <2>1. m \notin raced
    BY <1>1, <1>3
  <2>2. intended'[m] = intended[m] /\ doc.meta[m].responses = intended[m]
        /\ \A s \in Syncs : CarriedBy(s, m)
    BY <1>1, <1>3, <2>1 DEF FlagInv
  <2> QED
    BY <1>3, <2>1, <2>2 DEF CarriedBy
<1> QED
  BY <1>2, <1>3

\* Every step keeps the flags.
LEMMA FlagStep == SettingsInv /\ FlagInv /\ [AuditNext]_auditVars => FlagInv'
<1> SUFFICES ASSUME SettingsInv, FlagInv, [AuditNext]_auditVars PROVE FlagInv'
  OBVIOUS
<1>0. /\ sync \in [Syncs -> Syncer]
      /\ doc \in GoodDocs
  BY Zenon DEF SettingsInv
<1>d. doc.meta \in [Models -> Entry]
  BY <1>0 DEF GoodDocs, Doc
<1>1. CASE Running /\ Notes
  <2>1. ASSUME NEW a \in Admins, Handle(a) PROVE FlagInv'
    <3>1. /\ \A s \in Syncs : ~Merges(s)
          /\ \/ PutSave(a) /\ Meant = Models
             \/ (\E m \in Models, flag \in BOOLEAN : Switch(a, m, flag)) /\
                  Meant = {m \in Models : doc'.meta[m] # doc.meta[m]}
             \/ doc' = doc /\ Meant = {}
      BY <2>1, HandlerMeans
    <3>2. sync' = sync
      BY <2>1 DEF Handle, Put, PutSave, PutSwap, Switch, Build, Install, Forget, HandlerFails
    <3>3. \A s \in Syncs : sync'[s].pc = "persist" => s \in Merging
      BY <3>1, <3>2 DEF Merging
    <3>4. \A m \in Models \ Meant : doc'.meta[m].responses = doc.meta[m].responses
      BY <3>1
    <3> QED
      BY <1>1, <3>2, <3>3, <3>4, FlagsKept
  <2>2. ASSUME NEW s \in Syncs, Synchronise(s) PROVE FlagInv'
    <3>1. /\ \A q \in Syncs \ {s} : sync'[q] = sync[q] /\ ~Merges(q)
          /\ Merges(s) <=> SyncPersist(s)
          /\ Meant = IF Merges(s) THEN Pruned(s) ELSE {}
      BY <2>2, SyncMeans
    <3>2. \A q \in Syncs \ {s} : sync'[q].pc = "persist" => q \in Merging
      BY <3>1 DEF Merging
    <3>3. CASE SyncPersist(s)
      <4>1. doc'.meta = sync[s].meta /\ sync[s].pc = "persist" /\ sync'[s].pc = "reload"
        BY <1>0, <3>3 DEF SyncPersist, Persisted, SyncBecomes, IdleSync, GoodDocs, Doc
      <4>2. ASSUME NEW m \in (Models \ raced) \ Meant
            PROVE  doc'.meta[m].responses = doc.meta[m].responses
        <5>1. sync[s].meta[m] # NoEntry
          BY <3>1, <3>3, <4>2 DEF Pruned
        <5> QED
          BY <4>1, <5>1 DEF FlagInv, CarriedBy
      <4> QED
        BY <1>1, <3>1, <3>2, <4>1, <4>2, FlagsKept
    <3>4. CASE \E live \in SUBSET Models, dev \in [Models -> Documented] : SyncMerge(s, live, dev)
      <4> PICK live \in SUBSET Models, dev \in [Models -> Documented] : SyncMerge(s, live, dev)
        BY <3>4
      <4>1. doc' = doc /\ sync'[s].meta = Merged(doc.meta, live, dev) /\ ~SyncPersist(s)
        BY <1>0 DEF SyncMerge, SyncPersist, SyncBecomes, Syncer, bounds
      <4>2. \A m \in Models : \/ sync'[s].meta[m] = NoEntry
                              \/ sync'[s].meta[m].responses = doc.meta[m].responses
        BY <1>d, <4>1, MergeCarries
      <4> QED
        BY <1>1, <3>1, <3>2, <4>1, <4>2, FlagsKept
    <3>5. CASE /\ ~SyncPersist(s)
               /\ SyncStart(s) \/ SyncFails(s) \/ SyncReport(s) \/ SyncReload(s) \/ SyncGivesUp(s)
                    \/ SyncSwap(s)
      <4>1. doc'.meta = doc.meta /\ sync'[s].pc # "persist"
        <5>1. doc'.meta = doc.meta
          BY <1>0, <3>5 DEF SyncStart, SyncFails, SyncReport, SyncReload, SyncGivesUp, SyncSwap,
                            GoodDocs, Doc
        <5>2. CASE SyncStart(s) \/ SyncReport(s) \/ SyncGivesUp(s) \/ SyncSwap(s)
          <6>1. \/ sync'[s] = [IdleSync EXCEPT !.pc = "fetch", !.number = started + 1]
                \/ sync'[s] = [IdleSync EXCEPT !.pc = "reload"]
                \/ sync'[s] = IdleSync
            BY <1>0, <5>2 DEF SyncStart, SyncReport, SyncGivesUp, SyncSwap, SyncBecomes
          <6>2. IdleSync \in Syncer /\ IdleSync.pc = "idle"
            BY DefaultsValid DEF IdleSync
          <6>3. sync'[s].pc \in {"fetch", "reload", "idle"}
            BY <6>1, <6>2 DEF Syncer
          <6> QED
            BY <5>1, <6>3
        <5>3. CASE SyncFails(s) \/ SyncReload(s)
          <6> DEFINE p == sync[s]
          <6>1. \/ sync'[s] = [p EXCEPT !.pc = "report", !.meta = NoMeta]
                \/ sync'[s] = [p EXCEPT !.pc = "swap", !.read = doc]
            BY <1>0, <5>3 DEF SyncFails, SyncReload, SyncBecomes
          <6>2. p \in Syncer
            BY <1>0
          <6> HIDE DEF p
          <6>3. sync'[s].pc \in {"report", "swap"}
            BY <6>1, <6>2 DEF Syncer
          <6> QED
            BY <5>1, <6>3
        <5> QED
          BY <3>5, <5>2, <5>3
      <4> QED
        BY <1>1, <3>1, <3>2, <4>1, FlagsKept
    <3> QED
      BY <2>2, <3>3, <3>4, <3>5 DEF Synchronise
  <2>3. ASSUME UNCHANGED <<admin, sync>>, doc'.meta = doc.meta PROVE FlagInv'
    <3>1. Meant = {} /\ \A s \in Syncs : ~Merges(s)
      BY <2>3, OthersMean, Restful
    <3>2. \A s \in Syncs : sync'[s].pc = "persist" => s \in Merging
      BY <2>3, <3>1 DEF Merging
    <3> QED
      BY <1>1, <2>3, <3>1, <3>2, FlagsKept
  <2>4. ASSUME NEW m \in Models, NEW surface, Learn(m, surface) PROVE FlagInv'
    BY <2>3, <2>4 DEF Learn
  <2>5. ASSUME NEW tuning, InstallerEdit(tuning) PROVE FlagInv'
    <3>1. UNCHANGED <<admin, sync>> /\ doc'.meta = doc.meta
      BY <1>0, <2>5 DEF InstallerEdit, GoodDocs, Doc
    <3> QED
      BY <2>3, <3>1
  <2> QED
    BY <1>1, <2>1, <2>2, <2>4, <2>5 DEF Running
<1>2. CASE AuditRestart
  <2>1. /\ doc' = doc /\ raced' = raced /\ intended' = intended
        /\ \A s \in Syncs : sync'[s].pc = "idle"
    BY <1>2 DEF AuditRestart, Restart, IdleSync
  <2> QED
    BY <2>1 DEF FlagInv, CarriedBy
<1>3. CASE UNCHANGED auditVars
  <2>1. UNCHANGED <<doc, sync, raced, intended>>
    BY <1>3 DEF auditVars, vars, history
  <2> QED
    BY <2>1 DEF FlagInv, CarriedBy
<1> QED
  BY <1>1, <1>2, <1>3 DEF AuditNext

\* "Sync overwrites preserve whatever the admin toggled" (modelmeta_sync.go:39),
\* for any number of admins and syncs at work: a model that nobody edited or
\* pruned while a sync worked on its copy has the flag its last editor meant.
THEOREM ToggledFlagsSurvive == AuditSpec => []FlagsSurvive
<1>1. AuditInit => FlagInv
  <2> SUFFICES ASSUME AuditInit PROVE FlagInv
    OBVIOUS
  <2>1. \A m \in Models : doc.meta[m].responses = FALSE /\ intended[m] = FALSE
    BY DEF AuditInit, Init, DefaultDoc, NoMeta, NoEntry
  <2>2. \A s \in Syncs : sync[s].pc = "idle"
    BY DEF AuditInit, Init, IdleSync
  <2> QED
    BY <2>1, <2>2 DEF FlagInv, CarriedBy
<1>2. FlagInv => FlagsSurvive
  BY DEF FlagInv, FlagsSurvive
<1> QED
  BY <1>1, <1>2, InitGood, StepGood, FlagStep, PTL DEF AuditSpec

-----------------------------------------------------------------------------
(***************************************************************************)
(* The sync status.  A PUT holds on to the status it loaded; unless a sync *)
(* ended since, that is the one recorded last.                             *)
(***************************************************************************)
StatusInv ==
  late \/ /\ doc.status = recorded
          /\ \A a \in Admins : admin[a].pc = "save" => admin[a].body.status = recorded

\* Every step keeps the status, or notes that a PUT was late.
LEMMA StatusStep == SettingsInv /\ StatusInv /\ [AuditNext]_auditVars => StatusInv'
<1> SUFFICES ASSUME SettingsInv, StatusInv, [AuditNext]_auditVars PROVE StatusInv'
  OBVIOUS
<1>0. /\ sync \in [Syncs -> Syncer] /\ admin \in [Admins -> Handler]
      /\ doc \in GoodDocs
  BY Zenon DEF SettingsInv
<1>1. CASE Running /\ Notes
  <2>0. /\ recorded' = IF \E s \in Syncs : Records(s)
                       THEN sync[CHOOSE s \in Syncs : Records(s)].number ELSE recorded
        /\ late' = IF \E s \in Syncs : Records(s)
                   THEN \E a \in Admins : admin[a].pc = "save" ELSE late
    BY <1>1 DEF Notes
  <2>1. ASSUME NEW a \in Admins, Handle(a) PROVE StatusInv'
    <3>1. recorded' = recorded /\ late' = late
      BY <2>0, <2>1, HandlerMeans
    <3>2. SUFFICES ASSUME doc.status = recorded,
                          \A b \in Admins : admin[b].pc = "save" => admin[b].body.status = recorded
                   PROVE  /\ doc'.status = recorded
                          /\ \A b \in Admins : admin'[b].pc = "save" => admin'[b].body.status = recorded
      BY <3>1 DEF StatusInv
    <3>3. CASE \E body \in Bodies : Put(a, body)
      <4>1. PICK body \in Bodies : Put(a, body)
        BY <3>3
      <4>2. /\ doc' = doc
            /\ admin' = [admin EXCEPT ![a] = [IdleAdmin EXCEPT !.pc = "save", !.kind = "put",
                 !.body = [tuning |-> body.tuning, meta |-> body.meta, status |-> doc.status]]]
        BY <4>1 DEF Put, AdminBecomes
      <4>3. admin'[a].body.status = doc.status /\ \A b \in Admins \ {a} : admin'[b] = admin[b]
        BY <1>0, <4>2 DEF IdleAdmin
      <4> QED
        BY <3>2, <4>2, <4>3
    <3>4. CASE PutSave(a)
      <4>1. /\ admin[a].pc = "save" /\ doc' = admin[a].body /\ admin'[a].pc = "swap"
            /\ \A b \in Admins \ {a} : admin'[b] = admin[b]
        BY <1>0, <3>4 DEF PutSave, AdminGoes, AdminBecomes, Handler
      <4> QED
        BY <3>2, <4>1
    <3>5. CASE \/ PutSwap(a) \/ Build(a) \/ Install(a) \/ Forget(a) \/ HandlerFails(a)
               \/ \E m \in Models, flag \in BOOLEAN : Switch(a, m, flag)
      <4>1. doc'.status = doc.status
        BY <1>0, <3>5 DEF PutSwap, Build, Install, Forget, HandlerFails, Switch, GoodDocs, Doc
      <4>2. \A b \in Admins \ {a} : admin'[b] = admin[b]
        BY <1>0, <3>5 DEF PutSwap, Build, Install, Forget, HandlerFails, Switch,
                          AdminGoes, AdminEnds, AdminBecomes
      <4>3. CASE PutSwap(a) \/ Forget(a) \/ HandlerFails(a)
                 \/ \E m \in Models, flag \in BOOLEAN : Switch(a, m, flag)
        <5>1. admin'[a].pc \in {"build", "idle"}
          <6>1. \/ admin'[a] = [IdleAdmin EXCEPT !.pc = "build", !.kind = "put"]
                \/ admin'[a] = [IdleAdmin EXCEPT !.pc = "build", !.kind = "switch"]
                \/ admin'[a] = IdleAdmin
            BY <1>0, <4>3 DEF PutSwap, Forget, HandlerFails, Switch, AdminEnds, AdminBecomes
          <6>2. IdleAdmin \in Handler /\ IdleAdmin.pc = "idle"
            BY DefaultsValid DEF IdleAdmin
          <6> QED
            BY <6>1, <6>2 DEF Handler
        <5> QED
          BY <3>2, <4>1, <4>2, <5>1
      <4>4. CASE Build(a) \/ Install(a)
        <5>1. admin[a] \in Handler
          BY <1>0
        <5>2. admin'[a].pc \in {"install", "forget"}
          BY <1>0, <4>4, <5>1 DEF Build, Install, AdminGoes, AdminBecomes, Handler
        <5> QED
          BY <3>2, <4>1, <4>2, <5>2
      <4> QED
        BY <3>5, <4>3, <4>4
    <3> QED
      BY <2>1, <3>3, <3>4, <3>5 DEF Handle
  <2>2. ASSUME NEW s \in Syncs, Synchronise(s) PROVE StatusInv'
    <3>1. /\ \A q \in Syncs \ {s} : ~Records(q)
          /\ admin' = admin
          /\ Records(s) <=> SyncPersist(s) \/ SyncReport(s)
      BY <2>2, SyncMeans
    <3>2. CASE SyncPersist(s) \/ SyncReport(s)
      <4>1. (CHOOSE q \in Syncs : Records(q)) = s
        BY <3>1, <3>2
      <4>2. recorded' = sync[s].number /\ late' = \E a \in Admins : admin[a].pc = "save"
        BY <2>0, <3>1, <3>2, <4>1
      <4>3. doc'.status = sync[s].number
        BY <1>0, <3>2 DEF SyncPersist, Persisted, SyncReport, GoodDocs, Doc
      <4> QED
        BY <3>1, <4>2, <4>3 DEF StatusInv
    <3>3. CASE ~(SyncPersist(s) \/ SyncReport(s))
      <4>1. recorded' = recorded /\ late' = late
        BY <2>0, <3>1, <3>3
      <4>2. doc' = doc
        BY <2>2, <3>3 DEF Synchronise, SyncStart, SyncMerge, SyncFails, SyncReload, SyncGivesUp,
                          SyncSwap
      <4> QED
        BY <3>1, <4>1, <4>2 DEF StatusInv
    <3> QED
      BY <3>2, <3>3
  <2>3. ASSUME UNCHANGED <<admin, sync>>, doc'.status = doc.status PROVE StatusInv'
    <3>1. recorded' = recorded /\ late' = late
      BY <2>0, <2>3, Restful
    <3> QED
      BY <2>3, <3>1 DEF StatusInv
  <2>4. ASSUME NEW m \in Models, NEW surface, Learn(m, surface) PROVE StatusInv'
    BY <2>3, <2>4 DEF Learn
  <2>5. ASSUME NEW tuning, InstallerEdit(tuning) PROVE StatusInv'
    <3>1. UNCHANGED <<admin, sync>> /\ doc'.status = doc.status
      BY <1>0, <2>5 DEF InstallerEdit, GoodDocs, Doc
    <3> QED
      BY <2>3, <3>1
  <2> QED
    BY <1>1, <2>1, <2>2, <2>4, <2>5 DEF Running
<1>2. CASE AuditRestart
  <2>1. /\ doc' = doc /\ late' = late /\ recorded' = recorded
        /\ \A a \in Admins : admin'[a].pc = "idle"
    BY <1>2 DEF AuditRestart, Restart, IdleAdmin
  <2> QED
    BY <2>1 DEF StatusInv
<1>3. CASE UNCHANGED auditVars
  BY <1>3 DEF auditVars, vars, history, StatusInv
<1> QED
  BY <1>1, <1>2, <1>3 DEF AuditNext

\* The sync status "survives the PUT" (handlePutSettings): the stored outcome
\* is that of the last sync to end, unless it ended between a PUT's load and
\* its save, for any number of PUTs and syncs.
THEOREM SyncStatusSurvives == AuditSpec => []StatusSurvives
<1>1. AuditInit => StatusInv
  BY DEF AuditInit, Init, DefaultDoc, IdleAdmin, StatusInv
<1>2. StatusInv => StatusSurvives
  BY DEF StatusInv, StatusSurvives
<1> QED
  BY <1>1, <1>2, InitGood, StepGood, StatusStep, PTL DEF AuditSpec

-----------------------------------------------------------------------------
(***************************************************************************)
(* A writer that overlaps with no other.  From the save on, nothing but    *)
(* its own steps changes the document, the copy and the pools, so each     *)
(* step finds what the one before it left.                                 *)
(***************************************************************************)
AloneAtWork == \A w \in solo : Busy = {w}

PutInStep(q) ==
  /\ q.pc = "swap" => doc = q.body
  /\ q.kind = "put" =>
       /\ q.pc \in {"build", "install", "forget"} => copy = doc
       /\ q.pc = "install" => q.mode = doc.tuning
       /\ q.pc = "forget" => mode = doc.tuning

SyncInStep(q) == q.pc = "swap" => q.read = doc

SoloInv ==
  /\ AloneAtWork
  /\ \A a \in Admins \cap solo : PutInStep(admin[a])
  /\ \A s \in Syncs \cap solo : SyncInStep(sync[s])

\* What SettingsAreLive says of one step.
LiveStep ==
  failures' = failures =>
    /\ \A a \in Admins \cap Ended \cap solo :
         admin[a].kind = "put" =>
           /\ copy' = doc' /\ mode' = doc'.tuning
           /\ \A m \in Models :
                SurfaceFor(m)' = IF doc'.meta[m].responses THEN "responses" ELSE "chat"
    /\ Syncs \cap Ended \cap solo # {} => copy' = doc'

\* After a writer's step nobody but that writer is alone, and it only if it
\* was or has just begun.
LEMMA SoloMoves ==
  ASSUME AloneAtWork, Notes, NEW w \in Writers, w \in Busy \cup Busy',
         \A v \in Writers \ {w} : v \in Busy' <=> v \in Busy,
         edits' = edits \/ w \notin Busy
  PROVE  /\ solo' \subseteq {w} /\ AloneAtWork' /\ Ended \subseteq {w}
         /\ w \in solo' => w \in solo \/ w \notin Busy
<1>0. Busy \subseteq Writers /\ Busy' \subseteq Writers
  BY DEF Busy, Writers
<1>1. Begun \subseteq {w} /\ Ended \subseteq {w}
  BY <1>0 DEF Begun, Ended
<1>2. CASE Begun # {}
  <2>1. w \in Busy' /\ w \notin Busy /\ Begun = {w}
    BY <1>1, <1>2 DEF Begun
  <2>2. solo' = IF Busy = {} THEN {w} ELSE {}
    BY <1>2, <2>1 DEF Notes
  <2>3. Busy = {} => Busy' = {w}
    BY <1>0, <2>1
  <2> QED
    BY <1>1, <2>1, <2>2, <2>3 DEF AloneAtWork
<1>3. CASE Begun = {}
  <2>1. w \in Busy
    BY <1>3 DEF Begun
  <2>2. solo' = solo \ Ended
    BY <1>3, <2>1 DEF Notes, InstallerWrites
  <2>3. ASSUME NEW v \in solo' PROVE v = w /\ Busy' = {w} /\ w \in solo
    <3>1. v \in solo /\ v \notin Ended /\ Busy = {v}
      BY <2>2 DEF AloneAtWork
    <3>2. v = w /\ w \in Busy'
      BY <2>1, <3>1 DEF Ended
    <3> QED
      BY <1>0, <3>1, <3>2
  <2> QED
    BY <1>1, <2>3 DEF AloneAtWork
<1> QED
  BY <1>2, <1>3

\* Every step of a handler finds what its last one left, and an answered PUT
\* is live.
LEMMA HandlerLives ==
  ASSUME SettingsInv, SoloInv, NEW a \in Admins, Handle(a), Notes
  PROVE  SoloInv' /\ LiveStep
<1>0. /\ admin \in [Admins -> Handler] /\ (admin[a].pc = "idle" => admin[a] = IdleAdmin)
      /\ doc \in GoodDocs /\ copy \in GoodDocs /\ failures \in Nat
  BY DEF SettingsInv
<1>1. sync' = sync /\ \A b \in Admins \ {a} : admin'[b] = admin[b]
  BY <1>0 DEF Handle, Put, PutSave, PutSwap, Switch, Build, Install, Forget, HandlerFails,
              AdminGoes, AdminEnds, AdminBecomes
<1>2. /\ admin[a].pc # "idle" \/ admin'[a].pc # "idle"
      /\ admin[a].pc # "idle" => edits' = edits
  <2>1. \A q : AdminBecomes(a, q) => admin'[a] = q
    BY <1>0 DEF AdminBecomes
  <2>2. CASE \E body \in Bodies : Put(a, body)
    BY <2>1, <2>2 DEF Put, MayEdit, IdleAdmin
  <2>3. CASE \E m \in Models, flag \in BOOLEAN : Switch(a, m, flag)
    BY <2>1, <2>3 DEF Switch, MayEdit, IdleAdmin
  <2>4. CASE PutSave(a) \/ PutSwap(a) \/ Build(a) \/ Install(a) \/ Forget(a) \/ HandlerFails(a)
    <3>1. admin[a].pc \in {"save", "swap", "build", "install", "forget"}
      BY <2>4 DEF PutSave, PutSwap, Build, Install, Forget, HandlerFails
    <3>2. edits' = edits
      BY Zenon, <2>4 DEF PutSave, PutSwap, Build, Install, Forget, HandlerFails, bounds
    <3> QED
      BY <3>1, <3>2
  <2> QED
    BY <2>2, <2>3, <2>4 DEF Handle
<1>3. /\ a \in Writers /\ (a \in Busy <=> admin[a].pc # "idle")
      /\ a \in Busy' <=> admin'[a].pc # "idle"
      /\ \A v \in Writers \ {a} : v \in Busy' <=> v \in Busy
  BY <1>1, SettingsAssumption DEF Writers, Busy
<1>4. /\ solo' \subseteq {a} /\ AloneAtWork' /\ Ended \subseteq {a}
      /\ a \in solo' => a \in solo \/ admin[a].pc = "idle"
  BY <1>2, <1>3, SoloMoves DEF SoloInv
<1>5. (Syncs \cap solo')  = {} /\ Syncs \cap Ended = {}
  BY <1>4, SettingsAssumption
<1>6. (a \in solo => PutInStep(admin[a])) /\ (admin[a].pc = "idle" => admin[a].kind = "none")
  BY <1>0 DEF SoloInv, IdleAdmin
<1>7. SUFFICES /\ (a \in solo \/ admin[a].pc = "idle") => PutInStep(admin[a])'
               /\ failures' = failures /\ a \in Ended \cap solo /\ admin[a].kind = "put" =>
                    /\ copy' = doc' /\ mode' = doc'.tuning
                    /\ \A m \in Models :
                         SurfaceFor(m)' = IF doc'.meta[m].responses THEN "responses" ELSE "chat"
  BY <1>4, <1>5 DEF SoloInv, LiveStep
<1>8. CASE \E body \in Bodies : Put(a, body)
  <2>1. admin'[a].pc = "save"
    BY <1>0, <1>8 DEF Put, AdminBecomes, IdleAdmin
  <2> QED
    BY <1>3, <2>1 DEF PutInStep, Ended
<1>9. CASE PutSave(a)
  <2>1. doc' = admin[a].body /\ admin'[a] = [admin[a] EXCEPT !.pc = "swap"]
    BY <1>0, <1>9 DEF PutSave, AdminGoes, AdminBecomes
  <2>2. admin'[a].pc = "swap" /\ admin'[a].body = admin[a].body
    BY <1>0, <2>1 DEF Handler
  <2> QED
    BY <1>3, <2>1, <2>2 DEF PutInStep, Ended
<1>10. CASE PutSwap(a)
  <2>1. /\ copy' = admin[a].body /\ doc' = doc /\ admin[a].pc = "swap"
        /\ admin'[a] = [IdleAdmin EXCEPT !.pc = "build", !.kind = "put"]
    BY <1>0, <1>10 DEF PutSwap, AdminBecomes
  <2>2. admin'[a].pc = "build"
    BY <2>1 DEF IdleAdmin
  <2> QED
    BY <1>3, <1>6, <2>1, <2>2 DEF PutInStep, Ended
<1>11. CASE \E m \in Models, flag \in BOOLEAN : Switch(a, m, flag)
  <2>1. admin'[a].pc = "build" /\ admin'[a].kind = "switch"
    BY <1>0, <1>11 DEF Switch, AdminBecomes, IdleAdmin
  <2> QED
    BY <1>3, <2>1 DEF PutInStep, Ended
<1>12. CASE Build(a)
  <2>1. /\ admin[a].pc = "build" /\ doc' = doc /\ copy' = copy
        /\ admin'[a] = [admin[a] EXCEPT !.pc = "install", !.mode = copy.tuning]
    BY <1>0, <1>12 DEF Build, AdminBecomes
  <2>2. admin'[a].pc = "install" /\ admin'[a].mode = copy.tuning /\ admin'[a].kind = admin[a].kind
    BY <1>0, <2>1 DEF Handler
  <2> QED
    BY <1>3, <1>6, <2>1, <2>2 DEF PutInStep, Ended
<1>13. CASE Install(a)
  <2>1. /\ admin[a].pc = "install" /\ doc' = doc /\ copy' = copy /\ mode' = admin[a].mode
        /\ admin'[a] = [admin[a] EXCEPT !.pc = "forget"]
    BY <1>0, <1>13 DEF Install, AdminGoes, AdminBecomes
  <2>2. admin'[a].pc = "forget" /\ admin'[a].kind = admin[a].kind
    BY <1>0, <2>1 DEF Handler
  <2> QED
    BY <1>3, <1>6, <2>1, <2>2 DEF PutInStep, Ended
<1>14. CASE Forget(a)
  <2>1. /\ admin[a].pc = "forget" /\ admin'[a] = IdleAdmin
        /\ UNCHANGED <<doc, copy, mode>> /\ learned' = Unlearned
    BY <1>0, <1>14 DEF Forget, AdminEnds, AdminBecomes
  <2>2. PutInStep(admin[a])'
    BY <2>1 DEF PutInStep, IdleAdmin
  <2>3. \A m \in Models : learned'[m] = ""
    BY <2>1 DEF Unlearned
  <2>4. \A m \in Models :
          SurfaceFor(m)' = IF copy'.meta[m].responses THEN "responses" ELSE "chat"
    BY <2>3, Zenon DEF SurfaceFor
  <2>5. a \in solo /\ admin[a].kind = "put" => copy = doc /\ mode = doc.tuning
    BY <1>6, <2>1 DEF PutInStep
  <2> QED
    BY <2>1, <2>2, <2>4, <2>5
<1>15. CASE HandlerFails(a)
  <2>1. admin'[a] = IdleAdmin /\ failures' # failures
    BY <1>0, <1>15 DEF HandlerFails, Fail, AdminEnds, AdminBecomes
  <2> QED
    BY <2>1 DEF PutInStep, IdleAdmin
<1> QED
  BY <1>8, <1>9, <1>10, <1>11, <1>12, <1>13, <1>14, <1>15 DEF Handle

\* Every step of a sync finds what its last one left, and one that ends alone
\* leaves the copy in step.
LEMMA SyncLives ==
  ASSUME SettingsInv, SoloInv, NEW s \in Syncs, Synchronise(s), Notes
  PROVE  SoloInv' /\ LiveStep
<1>0. /\ sync \in [Syncs -> Syncer] /\ (sync[s].pc = "idle" => sync[s] = IdleSync)
      /\ failures \in Nat
  BY DEF SettingsInv
<1>1. admin' = admin /\ \A q \in Syncs \ {s} : sync'[q] = sync[q]
  BY SyncMeans
<1>2. (sync[s].pc # "idle" \/ sync'[s].pc # "idle") /\ edits' = edits
  BY <1>0 DEF Synchronise, SyncStart, SyncMerge, SyncPersist, SyncFails, SyncReport, SyncReload,
              SyncGivesUp, SyncSwap, SyncBecomes, IdleSync, Syncer, bounds
<1>3. /\ s \in Writers /\ (s \in Busy <=> sync[s].pc # "idle")
      /\ s \in Busy' <=> sync'[s].pc # "idle"
      /\ \A v \in Writers \ {s} : v \in Busy' <=> v \in Busy
  BY <1>1, SettingsAssumption DEF Writers, Busy
<1>4. /\ solo' \subseteq {s} /\ AloneAtWork' /\ Ended \subseteq {s}
      /\ s \in solo' => s \in solo \/ sync[s].pc = "idle"
  BY <1>2, <1>3, SoloMoves DEF SoloInv
<1>5. (Admins \cap solo') = {} /\ Admins \cap Ended = {}
  BY <1>4, SettingsAssumption
<1>6. s \in solo => SyncInStep(sync[s])
  BY DEF SoloInv
<1>7. SUFFICES /\ SyncInStep(sync[s])'
               /\ failures' = failures /\ s \in Ended \cap solo => copy' = doc'
  BY <1>4, <1>5 DEF SoloInv, LiveStep
<1>8. CASE SyncStart(s) \/ SyncPersist(s) \/ SyncReport(s) \/ SyncFails(s)
             \/ \E live \in SUBSET Models, dev \in [Models -> Documented] : SyncMerge(s, live, dev)
  <2>1. sync'[s].pc \in {"fetch", "reload", "report", "persist"}
    <3>1. CASE SyncStart(s) \/ SyncPersist(s) \/ SyncReport(s)
      <4>1. \A q : SyncBecomes(s, q) => sync'[s] = q
        BY <1>0 DEF SyncBecomes
      <4>2. CASE SyncStart(s)
        BY <4>1, <4>2 DEF SyncStart, IdleSync
      <4>3. CASE SyncPersist(s) \/ SyncReport(s)
        BY <4>1, <4>3 DEF SyncPersist, SyncReport, IdleSync
      <4> QED
        BY <3>1, <4>2, <4>3
    <3>2. CASE SyncFails(s)
      BY <1>0, <3>2 DEF SyncFails, SyncBecomes, Syncer
    <3>3. CASE \E live \in SUBSET Models, dev \in [Models -> Documented] : SyncMerge(s, live, dev)
      BY <1>0, <3>3 DEF SyncMerge, SyncBecomes, Syncer
    <3> QED
      BY <1>8, <3>1, <3>2, <3>3
  <2> QED
    BY <1>3, <2>1 DEF SyncInStep, Ended
<1>9. CASE SyncReload(s)
  <2>1. doc' = doc /\ sync'[s] = [sync[s] EXCEPT !.pc = "swap", !.read = doc]
    BY <1>0, <1>9 DEF SyncReload, SyncBecomes
  <2>2. sync'[s].pc = "swap" /\ sync'[s].read = doc
    BY <1>0, <2>1 DEF Syncer
  <2> QED
    BY <1>3, <2>1, <2>2 DEF SyncInStep, Ended
<1>10. CASE SyncGivesUp(s)
  <2>1. sync'[s] = IdleSync /\ failures' # failures
    BY <1>0, <1>10 DEF SyncGivesUp, Fail, SyncBecomes
  <2> QED
    BY <2>1 DEF SyncInStep, IdleSync
<1>11. CASE SyncSwap(s)
  <2>1. /\ sync[s].pc = "swap" /\ copy' = sync[s].read /\ doc' = doc /\ sync'[s] = IdleSync
    BY <1>0, <1>11 DEF SyncSwap, SyncBecomes
  <2> QED
    BY <1>6, <2>1 DEF SyncInStep, IdleSync
<1> QED
  BY <1>8, <1>9, <1>10, <1>11 DEF Synchronise

\* Every step keeps a lone writer's view of the settings true and answers only
\* what is live.
LEMMA LiveSteps == SettingsInv /\ SoloInv /\ [AuditNext]_auditVars => SoloInv' /\ [LiveStep]_auditVars
<1> SUFFICES ASSUME SettingsInv, SoloInv, [AuditNext]_auditVars
             PROVE  SoloInv' /\ [LiveStep]_auditVars
  OBVIOUS
<1>1. CASE Running /\ Notes
  <2>1. ASSUME NEW a \in Admins, Handle(a) PROVE SoloInv' /\ LiveStep
    BY <1>1, <2>1, HandlerLives
  <2>2. ASSUME NEW s \in Syncs, Synchronise(s) PROVE SoloInv' /\ LiveStep
    BY <1>1, <2>2, SyncLives
  <2>3. ASSUME UNCHANGED <<admin, sync>>, UNCHANGED <<doc, copy, mode>> \/ edits' # edits
        PROVE  SoloInv' /\ LiveStep
    <3>1. Busy' = Busy /\ Begun = {} /\ Ended = {}
      BY <2>3 DEF Busy, Begun, Ended
    <3>2. solo' = {} \/ (solo' = solo /\ ~InstallerWrites)
      BY <1>1, <3>1 DEF Notes
    <3>3. solo' = {} \/ UNCHANGED <<doc, copy, mode, solo>>
      BY <2>3, <3>1, <3>2 DEF InstallerWrites
    <3>4. CASE solo' = {}
      BY <3>1, <3>4 DEF SoloInv, AloneAtWork, LiveStep
    <3>5. CASE UNCHANGED <<doc, copy, mode, solo>>
      BY <2>3, <3>1, <3>5 DEF SoloInv, AloneAtWork, PutInStep, SyncInStep, LiveStep
    <3> QED
      BY <3>3, <3>4, <3>5
  <2>4. ASSUME NEW m \in Models, NEW surface, Learn(m, surface) PROVE SoloInv' /\ LiveStep
    BY <2>3, <2>4 DEF Learn
  <2>5. ASSUME NEW tuning, InstallerEdit(tuning) PROVE SoloInv' /\ LiveStep
    <3>1. UNCHANGED <<admin, sync>> /\ edits' = edits + 1
      BY <2>5 DEF InstallerEdit
    <3>2. edits \in Nat
      BY Zenon DEF SettingsInv
    <3>3. edits' # edits
      BY <3>1, <3>2
    <3> QED
      BY <2>3, <3>1, <3>3
  <2> QED
    BY <1>1, <2>1, <2>2, <2>4, <2>5 DEF Running
<1>2. CASE AuditRestart
  <2>1. /\ solo' = {} /\ copy' = doc /\ doc' = doc /\ mode' = doc.tuning /\ learned' = Unlearned
    BY <1>2 DEF AuditRestart, Restart
  <2>2. \A m \in Models :
          SurfaceFor(m)' = IF copy'.meta[m].responses THEN "responses" ELSE "chat"
    <3>1. \A m \in Models : learned'[m] = ""
      BY <2>1 DEF Unlearned
    <3> QED
      BY <3>1, Zenon DEF SurfaceFor
  <2>3. LiveStep
    BY <2>1, <2>2 DEF LiveStep
  <2>4. SoloInv'
    BY <2>1 DEF SoloInv, AloneAtWork
  <2> QED
    BY <2>3, <2>4
<1>3. CASE UNCHANGED auditVars
  BY <1>3 DEF auditVars, vars, history, SoloInv, AloneAtWork, Busy, PutInStep, SyncInStep
<1> QED
  BY <1>1, <1>2, <1>3 DEF AuditNext

\* "Changes hit /v1/* immediately" (handlePutSettings): a PUT that overlapped
\* with no other writer and is answered has reached the copy, the pools and the
\* routing, and a sync that ran alone has reached the copy.
THEOREM AnsweredSettingsAreLive == AuditSpec => SettingsAreLive
<1>1. AuditInit => SoloInv
  BY DEF AuditInit, SoloInv, AloneAtWork
<1>2. [LiveStep]_auditVars => [failures' = failures =>
       /\ \A a \in Admins \cap Ended \cap solo :
            admin[a].kind = "put" =>
              /\ copy' = doc' /\ mode' = doc'.tuning
              /\ \A m \in Models :
                   SurfaceFor(m)' = IF doc'.meta[m].responses
                                    THEN "responses" ELSE "chat"
       /\ Syncs \cap Ended \cap solo # {} => copy' = doc']_auditVars
  BY DEF LiveStep
<1> QED
  BY <1>1, <1>2, InitGood, StepGood, LiveSteps, PTL DEF AuditSpec, SettingsAreLive
=============================================================================

---------------------------- MODULE SettingsAudit ----------------------------
(***************************************************************************)
(* What the settings document promises to those who edit it.  Six history  *)
(* variables no code reads.                                                *)
(***************************************************************************)
EXTENDS SettingsDoc

VARIABLES
  saved,     \* the tuning last saved, by an admin or the installer
  recorded,  \* the number of the sync whose outcome was recorded last
  intended,  \* model -> the flag its last editor meant it to have
  raced,     \* models edited between a sync's load and its write
  late,      \* a sync's outcome was recorded between a PUT's load and its save
  solo       \* writers at work that have overlapped with no other

history == <<saved, recorded, intended, raced, late, solo>>
auditVars == <<vars, history>>

Writers == Admins \cup Syncs
Busy == {a \in Admins : admin[a].pc # "idle"} \cup
        {s \in Syncs : sync[s].pc # "idle"}
Begun == Busy' \ Busy
Ended == Busy \ Busy'

Saves(a) == admin[a].pc = "save" /\ admin'[a].pc = "swap"
Switches(a) == admin[a].pc = "idle" /\ admin'[a].kind = "switch"
InstallerWrites == edits' # edits /\ Begun = {}
Merges(s) == sync[s].pc = "persist" /\ sync'[s].pc = "reload"
Records(s) == sync[s].pc \in {"persist", "report"} /\ sync'[s].pc \notin {"persist", "report"}
              /\ failures' = failures

\* The models whose flag this step sets on purpose: a saved document sets
\* all, a switch the one it changes, a sync those it prunes.
Pruned(s) == {m \in Models : sync[s].meta[m] = NoEntry}
Meant ==
  CASE \E a \in Admins : Saves(a) -> Models
    [] \E a \in Admins : Switches(a) -> {m \in Models : doc'.meta[m] # doc.meta[m]}
    [] \E s \in Syncs : Merges(s) ->
         Pruned(CHOOSE s \in Syncs : Merges(s))
    [] OTHER -> {}

\* Syncs that have loaded the document and will write what they made of it.
Merging == {s \in Syncs : sync[s].pc = "persist" /\ ~Merges(s)}

AuditInit ==
  /\ Init
  /\ saved = DefaultTuning
  /\ recorded = 0
  /\ intended = [m \in Models |-> FALSE]
  /\ raced = {}
  /\ late = FALSE
  /\ solo = {}

Notes ==
  /\ saved' = IF InstallerWrites \/ \E a \in Admins : Saves(a)
              THEN doc'.tuning ELSE saved
  /\ recorded' = IF \E s \in Syncs : Records(s)
                 THEN sync[CHOOSE s \in Syncs : Records(s)].number ELSE recorded
  /\ intended' = [m \in Models |->
                    IF m \in Meant THEN doc'.meta[m].responses ELSE intended[m]]
  /\ raced' = IF Merging # {} THEN raced \cup Meant ELSE raced \ Meant
  /\ late' = IF \E s \in Syncs : Records(s)
             THEN \E a \in Admins : admin[a].pc = "save" ELSE late
  /\ solo' = IF Begun # {} THEN (IF Busy = {} THEN Begun ELSE {})
             ELSE IF InstallerWrites THEN {} ELSE solo \ Ended

AuditRestart ==
  /\ Restart
  /\ raced' = raced /\ late' = late /\ solo' = {}
  /\ UNCHANGED <<saved, recorded, intended>>

AuditNext == (Running /\ Notes) \/ AuditRestart
AuditSpec == AuditInit /\ [][AuditNext]_auditVars

-----------------------------------------------------------------------------
ValidDoc(d) ==
  /\ d.tuning \in Tunings
  /\ d.meta \in [Models -> Entry] /\ ValidMeta(d.meta)
  /\ d.status \in 0 .. MaxSyncs

\* Type invariant.  Of the document it says what handlePutSettings promises:
\* "the database must never hold a document boot would refuse" - whoever wrote
\* it last; nor does the copy in memory.
TypeOK ==
  /\ ValidDoc(doc) /\ ValidDoc(copy)
  /\ mode \in Tunings
  /\ learned \in [Models -> {"", "chat", "responses"}]
  /\ \A a \in Admins : admin[a].pc = "idle" => admin[a] = IdleAdmin
  /\ \A s \in Syncs : sync[s].pc = "idle" => sync[s] = IdleSync

\* UpdateSettings: "without the tx a background sync could clobber an admin
\* PUT".  What an admin or the installer saved last is what is stored,
\* wherever the save fell in the course of any number of syncs.
SyncKeepsTuning == doc.tuning = saved

\* "Sync overwrites preserve whatever the admin toggled" (modelmeta_sync.go:39),
\* as far as it holds: unless it was edited, or pruned by another sync, while
\* a sync worked on its copy, a model's flag is what its last editor meant.
FlagsSurvive ==
  \A m \in Models \ raced : doc.meta[m].responses = intended[m]

\* The sync status "survives the PUT" (handlePutSettings): the outcome stored
\* is that of the last sync to end, unless that ended between a PUT's load and
\* its save - even if the copy in memory still showed an older one.
StatusSurvives == late \/ doc.status = recorded

\* "Changes hit /v1/* immediately" (handlePutSettings): when a PUT that
\* overlapped with no other writer is answered, the copy is the stored
\* document, the pools follow its tuning, and every model goes to the surface
\* its flag says, whatever requests learned meanwhile.  A sync alone leaves the
\* copy in step, too.
SettingsAreLive ==
  [][failures' = failures =>
       /\ \A a \in Admins \cap Ended \cap solo :
            admin[a].kind = "put" =>
              /\ copy' = doc' /\ mode' = doc'.tuning
              /\ \A m \in Models :
                   SurfaceFor(m)' = IF doc'.meta[m].responses
                                    THEN "responses" ELSE "chat"
       /\ Syncs \cap Ended \cap solo # {} => copy' = doc'
    ]_auditVars
=============================================================================

----------------------------- MODULE KeyImport -----------------------------
(***************************************************************************)
(* How upstream keys come to a provider (internal/gateway:                 *)
(* api_keyimport.go, keycheck.go, api_providers.go; internal/store:        *)
(* provider_keys).                                                         *)
(*                                                                         *)
(* A provider is created with keys, gets a key, or gets a file of them.    *)
(* The request reads what is there, has every key verified by probes that  *)
(* take seconds - the import's a few at a time - and then writes; other    *)
(* requests run meanwhile.  One provider name; a provider created again    *)
(* has a new id.  Labels, messages and the pool rebuild are left out       *)
(* (Rebuild has it).                                                       *)
(***************************************************************************)
EXTENDS Naturals, Sequences, SequencesExt, FiniteSetsExt

CONSTANTS
  GoodKeys, BadKeys,  \* what the upstream thinks of a key
  Files,              \* bound: the files and key lists sent
  Requests,           \* requests in progress at the same time
  Parallel,           \* keyImportParallel
  MaxWrites           \* bound: requests made

Surfaces == {"openai", "anthropic"}
Blank == ""           \* an entry without a key, or with a bad alias

ASSUME KeyImportAssumption ==
  /\ Files \subseteq Seq(GoodKeys \cup BadKeys \cup {Blank})
  /\ Parallel \in Nat \ {0} /\ MaxWrites \in Nat

VARIABLES
  provider,  \* its row: [id, surfaces]; id 0: none
  rows,      \* its provider_keys: [id, key, order]
  lastIds,   \* AUTOINCREMENT of providers and of provider_keys
  req,       \* request -> its progress
  writes     \* for the bound

vars == <<provider, rows, lastIds, req, writes>>

NoProvider == [id |-> 0, surfaces |-> {}]
Idle == [pc |-> "idle", op |-> "", prov |-> NoProvider, file |-> <<>>, res |-> <<>>,
         running |-> {}, cancelled |-> FALSE, order |-> 0, clear |-> ""]

Becomes(r, q) == req' = [req EXCEPT ![r] = q]
Ends(r) == Becomes(r, Idle)

Held == {k.key : k \in rows}
NextOrder == IF rows = {} THEN 0 ELSE Max({k.order : k \in rows}) + 1

-----------------------------------------------------------------------------
(***************************************************************************)
(* verifyUpstreamKey                                                       *)
(***************************************************************************)
\* Each surface is asked for its model list, then for a model call.
Probes(surfaces) ==
  (IF "openai" \in surfaces THEN <<"list", "call">> ELSE <<>>) \o
  (IF "anthropic" \in surfaces THEN <<"list", "call">> ELSE <<>>)

\* What a probe may be told; none need be answered, and none is once the
\* client is gone.
MayAnswer(key) ==
  {"ok", "fault"} \cup IF key \in GoodKeys THEN {} ELSE {"wrong", "refused"}

\* One probe of a surface may let any key pass - a public list, a call that
\* looks at the model first - but not both.
Answers(key, surfaces) ==
  LET probes == Probes(surfaces) IN
  {a \in [DOMAIN probes -> MayAnswer(key)] :
     key \in GoodKeys \/
     \A i \in DOMAIN probes : probes[i] = "list" => a[i] # "ok" \/ a[i + 1] # "ok"}

\* Mutant of Verdict: a probe without an answer is skipped.
VerdictLenient(answers) ==
  LET rejecting == {i \in DOMAIN answers : answers[i] \in {"wrong", "refused"}} IN
  IF rejecting # {} THEN answers[Min(rejecting)] ELSE "added"
\* The first rejection, else unverifiable if a probe was not answered.
Verdict(answers) ==
  LET rejecting == {i \in DOMAIN answers : answers[i] \in {"wrong", "refused"}} IN
  IF rejecting # {} THEN answers[Min(rejecting)]
  ELSE IF "fault" \in ToSet(answers) THEN "unverifiable" ELSE "added"

-----------------------------------------------------------------------------
\* Mutant of Cheap: the file is checked against itself only.
CheapFileOnly(file, held) ==
  [i \in DOMAIN file |->
     IF file[i] = Blank THEN "rejected"
     ELSE IF \E j \in 1 .. i - 1 : file[j] = file[i] THEN "duplicate" ELSE "pending"]
\* The cheap checks: an entry is rejected, a duplicate - of the file or of
\* what the provider holds - or pending.
Cheap(file, held) ==
  [i \in DOMAIN file |->
     IF file[i] = Blank THEN "rejected"
     ELSE IF file[i] \in held \/ \E j \in 1 .. i - 1 : file[j] = file[i] THEN "duplicate"
     ELSE "pending"]

Starts(r, op) ==
  /\ req[r].pc = "idle" /\ writes < MaxWrites
  /\ writes' = writes + 1
  /\ UNCHANGED <<provider, rows, lastIds>>

\* handleImportProviderKeys: entries are judged one by one.
StartImport(r, file) ==
  /\ Starts(r, "import") /\ provider.id # 0
  /\ Becomes(r, [Idle EXCEPT !.pc = "verify", !.op = "import", !.prov = provider,
                             !.file = file, !.res = Cheap(file, Held)])

\* handleAddProviderKey: a blank or held key ends the request.
StartAdd(r, key) ==
  /\ Starts(r, "add") /\ provider.id # 0
  /\ Cheap(<<key>>, Held) = <<"pending">>
  /\ Becomes(r, [Idle EXCEPT !.pc = "verify", !.op = "add", !.prov = provider,
                             !.file = <<key>>, !.res = <<"pending">>])

\* handleCreateProvider: so does any such key of the list.
StartCreate(r, keys, surfaces) ==
  /\ Starts(r, "create") /\ surfaces # {}
  /\ \A s \in ToSet(Cheap(keys, {})) : s = "pending"
  /\ Becomes(r, [Idle EXCEPT !.pc = "verify", !.op = "create",
                             !.prov = [id |-> 0, surfaces |-> surfaces],
                             !.file = keys, !.res = Cheap(keys, {})])

\* handlePatchProvider: clears a surface if another remains.
StartPatch(r, s) ==
  /\ Starts(r, "patch") /\ provider.id # 0
  /\ provider.surfaces \ {s} # {}
  /\ Becomes(r, [Idle EXCEPT !.pc = "write", !.op = "patch", !.prov = provider, !.clear = s])

Cancel(r) ==
  /\ req[r].pc = "verify" /\ ~req[r].cancelled
  /\ Becomes(r, [req[r] EXCEPT !.cancelled = TRUE])
  /\ UNCHANGED <<provider, rows, lastIds, writes>>

Pending(q) == {i \in DOMAIN q.res : q.res[i] = "pending"} \ q.running

\* The next key is handed to a prober, an add's and a create's one by one; an
\* import whose client is gone may skip it.
Probe(r) ==
  LET q == req[r]
      i == Min(Pending(q))
  IN
  /\ q.pc = "verify" /\ Pending(q) # {}
  /\ \/ /\ Cardinality(q.running) < IF q.op = "import" THEN Parallel ELSE 1
        /\ Becomes(r, [q EXCEPT !.running = @ \cup {i}])
     \/ /\ q.op = "import" /\ q.cancelled
        /\ Becomes(r, [q EXCEPT !.res[i] = "unverifiable"])
  /\ UNCHANGED <<provider, rows, lastIds, writes>>

\* A prober is done; an add or a create ends with the first key that fails.
Probed(r, i, verdict) ==
  LET q == req[r] IN
  /\ q.pc = "verify" /\ i \in q.running
  /\ IF q.op # "import" /\ verdict # "added" THEN Ends(r)
     ELSE Becomes(r, [q EXCEPT !.running = @ \ {i}, !.res[i] = verdict])
  /\ UNCHANGED <<provider, rows, lastIds, writes>>

\* Mutant of ToAdd: the last verified key comes first.
ToAddAnyOrder(q) ==
  LET gathered[n \in 0 .. Len(q.file)] ==
        IF n = 0 THEN <<>>
        ELSE IF q.res[n] = "added" THEN <<q.file[n]>> \o gathered[n - 1] ELSE gathered[n - 1]
  IN  gathered[Len(q.file)]
\* The keys to save, gathered in file order.
ToAdd(q) ==
  LET gathered[n \in 0 .. Len(q.file)] ==
        IF n = 0 THEN <<>>
        ELSE IF q.res[n] = "added" THEN Append(gathered[n - 1], q.file[n]) ELSE gathered[n - 1]
  IN  gathered[Len(q.file)]

\* Everything is verified: a cancelled import saves nothing.
Collect(r) ==
  LET q == req[r] IN
  /\ q.pc = "verify" /\ q.running = {} /\ Pending(q) = {}
  /\ IF q.op = "import" /\ (q.cancelled \/ ToAdd(q) = <<>>) THEN Ends(r)
     ELSE Becomes(r, [q EXCEPT !.pc = IF q.op = "add" THEN "order" ELSE "write"])
  /\ UNCHANGED <<provider, rows, lastIds, writes>>

NewRows(keys, first) ==
  {[id |-> lastIds[2] + i, key |-> keys[i], order |-> first + i - 1] : i \in DOMAIN keys}

\* AddProviderKeys: one transaction, if the provider is still there.
WriteImport(r) ==
  LET q == req[r] IN
  /\ q.pc = "write" /\ q.op = "import"
  /\ IF provider.id = q.prov.id
     THEN /\ rows' = rows \cup NewRows(ToAdd(q), NextOrder)
          /\ lastIds' = [lastIds EXCEPT ![2] = @ + Len(ToAdd(q))]
     ELSE UNCHANGED <<rows, lastIds>>
  /\ Ends(r)
  /\ UNCHANGED <<provider, writes>>

\* AddProviderKey: the highest order is read, then the row inserted; the
\* foreign key refuses it when the provider is gone.
ReadOrder(r) ==
  /\ req[r].pc = "order"
  /\ Becomes(r, [req[r] EXCEPT !.pc = "write",
                   !.order = IF provider.id = req[r].prov.id THEN NextOrder ELSE 0])
  /\ UNCHANGED <<provider, rows, lastIds, writes>>

WriteAdd(r) ==
  LET q == req[r] IN
  /\ q.pc = "write" /\ q.op = "add"
  /\ IF provider.id = q.prov.id
     THEN /\ rows' = rows \cup NewRows(q.file, q.order)
          /\ lastIds' = [lastIds EXCEPT ![2] = @ + 1]
     ELSE UNCHANGED <<rows, lastIds>>
  /\ Ends(r)
  /\ UNCHANGED <<provider, writes>>

\* CreateProvider: one transaction; the name is unique.
WriteCreate(r) ==
  LET q == req[r] IN
  /\ q.pc = "write" /\ q.op = "create"
  /\ IF provider = NoProvider
     THEN /\ provider' = [id |-> lastIds[1] + 1, surfaces |-> q.prov.surfaces]
          /\ rows' = NewRows(q.file, 0)
          /\ lastIds' = <<lastIds[1] + 1, lastIds[2] + Len(q.file)>>
     ELSE UNCHANGED <<provider, rows, lastIds>>
  /\ Ends(r)
  /\ UNCHANGED writes

\* UpdateProvider sets what the patch names and nothing else.
WritePatch(r) ==
  LET q == req[r] IN
  /\ q.pc = "write" /\ q.op = "patch"
  /\ provider' = IF provider.id = q.prov.id THEN [provider EXCEPT !.surfaces = @ \ {q.clear}] ELSE provider
  /\ Ends(r)
  /\ UNCHANGED <<rows, lastIds, writes>>

\* The write fails as a whole.
WriteFails(r) ==
  /\ req[r].pc \in {"order", "write"}
  /\ Ends(r)
  /\ UNCHANGED <<provider, rows, lastIds, writes>>

DeleteProviderKey(k) ==
  /\ k \in rows /\ writes < MaxWrites
  /\ rows' = rows \ {k}
  /\ writes' = writes + 1
  /\ UNCHANGED <<provider, lastIds, req>>

\* Its keys go with it.
DeleteProvider ==
  /\ provider.id # 0 /\ writes < MaxWrites
  /\ provider' = NoProvider /\ rows' = {}
  /\ writes' = writes + 1
  /\ UNCHANGED <<lastIds, req>>

-----------------------------------------------------------------------------
Init ==
  /\ provider = [id |-> 1, surfaces |-> Surfaces]
  /\ rows = {} /\ lastIds = <<1, 0>>
  /\ req = [r \in Requests |-> Idle]
  /\ writes = 0

\* Everything request r does by itself once it has started.
Run(r) ==
  \/ Probe(r) \/ Collect(r)
  \/ \E i \in req[r].running :
       \E verdict \in {Verdict(a) : a \in Answers(req[r].file[i], req[r].prov.surfaces)} :
         Probed(r, i, verdict)
  \/ ReadOrder(r) \/ WriteImport(r) \/ WriteAdd(r) \/ WriteCreate(r) \/ WritePatch(r) \/ WriteFails(r)

Next ==
  \/ DeleteProvider
  \/ \E k \in rows : DeleteProviderKey(k)
  \/ \E r \in Requests :
       \/ \E file \in Files : StartImport(r, file)
       \/ \E key \in GoodKeys \cup BadKeys : StartAdd(r, key)
       \/ \E keys \in Files, surfaces \in SUBSET Surfaces : StartCreate(r, keys, surfaces)
       \/ \E s \in Surfaces : StartPatch(r, s)
       \/ Cancel(r) \/ Run(r)

Spec == Init /\ [][Next]_vars
=============================================================================

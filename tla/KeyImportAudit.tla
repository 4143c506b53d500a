--------------------------- MODULE KeyImportAudit ---------------------------
(***************************************************************************)
(* What adding keys promises when requests overlap, providers come and go  *)
(* and upstreams do not answer.                                            *)
(***************************************************************************)
EXTENDS KeyImport

VARIABLES
  imported,  \* ids of the rows an import saved
  stale,     \* requests since whose start keys or surfaces were written
  raced,     \* some request has written on a stale check
  bare       \* the provider has had no endpoint: nothing to probe

auditVars == <<vars, imported, stale, raced, bare>>

AuditInit == Init /\ imported = {} /\ stale = {} /\ raced = FALSE /\ bare = FALSE

Saves(r) == req[r].pc = "write" /\ req'[r] = Idle /\ <<provider, rows>>' # <<provider, rows>>

Notes ==
  LET new == {k.id : k \in rows' \ rows}
      savers == {r \in Requests : Saves(r)} IN
  /\ imported' = (IF \E r \in savers : req[r].op = "import" THEN imported \cup new ELSE imported)
                 \cap {k.id : k \in rows'}
  /\ stale' = {r \in Requests : req'[r] # Idle /\ (r \in stale \/ (savers # {} /\ req[r] # Idle))}
  /\ raced' = (raced \/ savers \cap stale # {})
  /\ bare' = (bare \/ (provider'.id # 0 /\ provider'.surfaces = {}))

AuditNext == Next /\ Notes
AuditSpec == AuditInit /\ [][AuditNext]_auditVars

\* keyRotation's order: ListProviderKeys sorts by order, then id.
Before(x, y) == x.order < y.order \/ (x.order = y.order /\ x.id < y.id)

\* keys is what remains of file when some of its entries are left out.
InFileOrder(keys, file) ==
  \E entry \in [DOMAIN keys -> DOMAIN file] :
    /\ \A i, j \in DOMAIN keys : i < j => entry[i] < entry[j]
    /\ \A i \in DOMAIN keys : keys[i] = file[entry[i]]

-----------------------------------------------------------------------------
\* "A key is saved only when no probe rejected it and every probe answered"
\* (keycheck.go:46): a key the upstream rejects is never on the provider,
\* whichever probes are public or stay unanswered, and however the file's
\* verifications, a cancellation and other requests interleave - as long as
\* the provider has an endpoint to ask.
BadKeysStayOut == bare \/ \A k \in rows : k.key \in GoodKeys

\* "File order becomes rotation order" (api_keyimport.go:18), after the keys
\* that were there: what an import saves is rotated after every earlier row,
\* in the order of one of the files, whatever single adds do meanwhile.
FileOrderKept ==
  /\ \A y \in rows : y.id \in imported =>
       \A x \in rows : x.id < y.id => Before(x, y)
  /\ \A r \in Requests : req[r].pc = "write" /\ req[r].op = "import" =>
       InFileOrder(ToAdd(req[r]), req[r].file)

\* "the store doesn't enforce key uniqueness, and a duplicate would get double
\* weight in rotation" (api_providers.go:361) and "a provider needs baseUrl
\* and/or anthropicBaseUrl" (api_providers.go:300), as far as they hold: until
\* a request writes on what another has changed since it looked, no key is on
\* the provider twice and the provider has an endpoint.
ChecksHold ==
  raced \/
    /\ \A x, y \in rows : x.key = y.key => x = y
    /\ provider.id # 0 => provider.surfaces # {}
=============================================================================

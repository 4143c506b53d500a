----------------------------- MODULE UsageAudit -----------------------------
(***************************************************************************)
(* What the accounting and the reports promise.  History variables no code *)
(* reads; a report's is cleared when the next one is asked for.            *)
(***************************************************************************)
EXTENDS UsageReport

VARIABLES
  letIn,    \* owner -> requests let in
  missed,   \* owner -> those of them whose counter was lost
  lost,     \* events that may be gone: dropped as the oldest, in a failed
            \* insert, in memory at a crash, or past the retention
  passed,   \* events in memory that were in the buffer at a drain
  filed,    \* events in the order they went to the ring, since the start
  asked,    \* rows when the report in progress was asked for
  written,  \* rows have changed since
  pruned    \* rows have gone since

auditVars == <<vars, letIn, missed, lost, passed, filed, asked, written, pruned>>

FirstFew(s, n) == SubSeq(s, 1, IF Len(s) < n THEN Len(s) ELSE n)
LastFew(s, n) == SubSeq(s, IF Len(s) < n THEN 1 ELSE Len(s) - n + 1, Len(s))
Ids(es) == {e.id : e \in es}
Stored == Ids(rows)
Pending == Ids(ToSet(buf))
Taken == Ids(ToSet(loop.batch))

AuditInit ==
  /\ Init
  /\ letIn = NoDeltas /\ missed = NoDeltas /\ lost = {} /\ passed = {} /\ filed = <<>>
  /\ asked = {} /\ written = FALSE /\ pruned = FALSE

Crashes == crashes' # crashes
Fails == failures' # failures
Asks == budget'.reports # budget.reports
Drains == loop.pc = "bump" /\ loop'.pc \in {"insert", "prune"}

MayGo ==
  {id \in Pending \cup Taken : Crashes} \cup {id \in Taken : Fails}
  \cup Ids({e \in ToSet(buf) : e = Head(buf) /\ Len(buf) = BufferMax /\ made' # made})
  \cup Ids({e \in rows : e.ts < day - Retention /\ loop.pc = "prune"})

Notes ==
  /\ letIn' = [o \in Owners |-> letIn[o] +
       Cardinality({r \in Requests : req[r].pc = "idle" /\ req'[r].pc = "open" /\ req'[r].owner = o})]
  /\ missed' = [o \in Owners |-> missed[o] +
       (IF Crashes THEN deltas[o] + loop.deltas[o]
        ELSE IF Fails /\ loop.pc = "bump" /\ loop'.deltas[o] # loop.deltas[o] THEN loop.deltas[o] ELSE 0)]
  /\ lost' = lost \cup (MayGo \ (Stored \cup Pending \cup Taken)')
  /\ passed' = (IF Drains THEN passed \cup Pending ELSE passed) \cap (Pending \cup Taken)'
  /\ filed' = IF Crashes THEN <<>>
              ELSE filed \o SetToSeq({req[r].event : r \in {q \in Requests :
                     req[q].pc = "filing" /\ req'[q] # req[q]}})
  /\ asked' = IF Asks THEN rows ELSE IF rep' = NoReport THEN {} ELSE asked
  /\ written' = (rep' # NoReport /\ ~Asks /\ (written \/ rows' # rows))
  /\ pruned' = (rep' # NoReport /\ ~Asks /\ (pruned \/ ~(rows \subseteq rows')))

AuditNext == Next /\ Notes
AuditSpec == AuditInit /\ [][AuditNext]_auditVars
-----------------------------------------------------------------------------
\* Type invariant: the memory structures stay within their sizes.
TypeOK ==
  /\ Len(buf) =< BufferMax /\ ringIdx \in 0 .. RingSize - 1
  /\ \A e \in rows : e.id \in 1 .. made /\ e.ts =< day /\ e.owner \in Owners /\ e.ok \in BOOLEAN
  /\ \A r \in Requests : req[r].pc \in {"idle", "open", "filing"}
  /\ loop.pc \in {"wait", "bump", "insert", "prune"} /\ (loop.pc # "insert" => loop.batch = <<>>)

\* Usage is accounted once: an event is in the buffer, in the batch being
\* written or in the table, in one of them only, and is missing only if it was
\* the oldest of a full buffer, expired, or was in memory when an insert failed
\* or the process died; the same for the counters.  And "a crash loses at most
\* one window" (usage.go:12): no event stays in the buffer over a drain.
AccountedOnce ==
  /\ Stored \cup Pending \cup Taken \cup lost = 1 .. made
  /\ Cardinality(Stored) + Len(buf) + Len(loop.batch) + Cardinality(lost) = made
  /\ passed \cap Pending = {}
  /\ \A o \in Owners : letIn[o] = counts[o] + loop.deltas[o] + deltas[o] + missed[o]

\* "returns up to n entries matching keep, newest first ... a scoped caller
\* gets n of their own entries" (clientkeys.go:150), however the requests
\* interleave and the ring wraps.
ActivityNewestFirst ==
  \A n \in 1 .. RingSize, keep \in {{o} : o \in Owners} \cup {Owners} :
    Recent(n, keep) =
      FirstFew(SelectSeq(Reverse(LastFew(filed, RingSize)), LAMBDA e : e.owner \in keep), n)

\* A report is consistent unless the table changed under it: the overview finds
\* its percentile - the least duration that 95 of 100 successes do not exceed -
\* and its buckets add up to its totals; every request of the range is in
\* exactly one series ("an other series folding the remaining groups",
\* usage_report.go:417).
ReportsAddUp ==
  rep.pc \in {"shown", "failed"} /\ rep.kind # "log" /\ ~written =>
    LET es == Matching(rep)
        oks == es \ Errors(es)
        sum(f) == FoldFunction(LAMBDA a, b : a + b, 0, f) IN
    CASE rep.kind = "overview" ->
           /\ rep.pc = "shown"
           /\ sum([b \in DOMAIN rep.points |-> rep.points[b][1]]) = rep.requests
           /\ sum([b \in DOMAIN rep.points |-> rep.points[b][2]]) = rep.errors
           /\ oks # {} =>
                LET below(d) == Cardinality({e \in oks : e.dur =< d}) * 100 IN
                /\ below(rep.p95) >= 95 * Cardinality(oks)
                /\ \A e \in oks : e.dur < rep.p95 => below(e.dur) < 95 * Cardinality(oks)
      [] rep.kind = "series" ->
           sum([b \in DOMAIN rep.points |-> sum(rep.points[b])]) = Cardinality(es)

\* Offset paging over a log that grows: a walk to the last page has shown every
\* request that was there when it began, unless rows were pruned under it.
WalkMissesNothing ==
  rep.pc = "shown" /\ rep.kind = "log" /\ ~pruned =>
    Matching(rep) \cap asked \subseteq rep.seen
=============================================================================

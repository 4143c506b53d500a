---------------------------- MODULE UsageReport ----------------------------
(***************************************************************************)
(* The usage page's reports over usage_events (internal/store:             *)
(* usage_report.go): each is two or three queries, between which the       *)
(* maintenance loop may insert and prune.                                  *)
(*                                                                         *)
(* A report is filtered by range and owner; the other filters are alike.   *)
(* The metrics kept are requests, errors and durations.                    *)
(***************************************************************************)
EXTENDS UsageLog

CONSTANTS
  Bucket, Tz,   \* the client's bucket size and zone
  MaxBuckets,   \* usageMaxBuckets
  Ranges,       \* [from, to] pairs asked for
  Top,          \* series named before "other"
  PageSize

ASSUME ReportAssumption ==
  /\ {Bucket, MaxBuckets, Top, PageSize} \subseteq Nat \ {0}
  /\ Tz \in Int
  /\ Ranges \subseteq Nat \X Nat
  /\ Tz =< FirstDay /\ \A s \in Starts : \A e \in s.rows : Tz =< e.ts

VARIABLES
  rep      \* the report in progress

vars == <<logVars, rep>>

NoReport == [pc |-> "none"]

\* where
Matching(q) ==
  {e \in rows : q.range[1] =< e.ts /\ e.ts =< q.range[2] /\ (q.owner = Nobody \/ e.owner = q.owner)}

Errors(es) == {e \in es : ~e.ok}

\* Go and SQLite divide towards zero.
Quot(a, b) == IF a >= 0 THEN a \div b ELSE -((-a) \div b)
\* usageBucketOf, usageBucketExpr
BucketOf(ts) == Quot(ts - Tz, Bucket) * Bucket + Tz

\* usageBuckets: the starts that cover the range, or refused.
Buckets(range) ==
  LET first == BucketOf(range[1]) IN
  {first + k * Bucket : k \in {j \in 0 .. range[2] : first + j * Bucket =< range[2]}}
Refused(range) == range[1] > range[2] \/ Cardinality(Buckets(range)) > MaxBuckets

Shows(q) == rep' = q /\ UNCHANGED logVars

Ask(kind, range, owner) ==
  /\ rep = NoReport /\ budget.reports > 0
  /\ budget' = [budget EXCEPT !.reports = @ - 1]
  /\ rep' = IF kind = "log" THEN [pc |-> kind, kind |-> kind, range |-> range, owner |-> owner,
                                  seen |-> {}, pages |-> 0]
            ELSE IF Refused(range) THEN NoReport
            ELSE [pc |-> kind, kind |-> kind, range |-> range, owner |-> owner]
  /\ UNCHANGED <<day, memory, tables, made, bounds>>

(***************************************************************************)
(* UsageOverview                                                           *)
(***************************************************************************)
\* Mutant of P95Offset: a rank is taken for an offset.
P95Rank(n) == (n * 95 + 99) \div 100
P95Offset(n) == (n * 95 + 99) \div 100 - 1

Totals ==
  /\ rep.pc = "overview"
  /\ LET es == Matching(rep) IN
     Shows([pc |-> IF Errors(es) = es THEN "points" ELSE "p95", kind |-> "overview",
            range |-> rep.range, owner |-> rep.owner, requests |-> Cardinality(es),
            errors |-> Cardinality(Errors(es)), p95 |-> 0, points |-> <<>>])

\* ORDER BY duration: an OFFSET passes over the rows before.
Shorter(es, e) == {d \in es : d.dur < e.dur \/ (d.dur = e.dur /\ d.id < e.id)}

\* The row at the offset the totals gave; none there is an error.
P95 ==
  /\ rep.pc = "p95"
  /\ LET oks == Matching(rep) \ Errors(Matching(rep))
         at == {e \in oks : Cardinality(Shorter(oks, e)) = P95Offset(rep.requests - rep.errors)} IN
       \/ \E e \in at : Shows([rep EXCEPT !.pc = "points", !.p95 = e.dur])
       \/ at = {} /\ Shows([rep EXCEPT !.pc = "failed"])

\* Zero-filled: a bucket the range does not list is not shown.
Points ==
  /\ rep.pc = "points"
  /\ LET In(b) == {e \in Matching(rep) : BucketOf(e.ts) = b} IN
     Shows([rep EXCEPT !.pc = "shown", !.points =
       [b \in Buckets(rep.range) |-> <<Cardinality(In(b)), Cardinality(Errors(In(b)))>>]])

(***************************************************************************)
(* UsageSeriesByGroup: requests by model                                   *)
(***************************************************************************)
Models(es) == {e.model : e \in es}
Of(es, m) == {e \in es : e.model = m}

\* ORDER BY the metric: the groups before one; the first Top are named.
Larger(es, m) ==
  {k \in Models(es) :
     \/ Cardinality(Of(es, k)) > Cardinality(Of(es, m))
     \/ Cardinality(Of(es, k)) = Cardinality(Of(es, m)) /\ k < m}
Named(es) == {m \in Models(es) : Cardinality(Larger(es, m)) < Top}

\* Pass 1: without a group there is nothing to chart.
Rank ==
  /\ rep.pc = "series"
  /\ LET es == Matching(rep) IN
     Shows([pc |-> IF es = {} THEN "shown" ELSE "values", kind |-> "series",
            range |-> rep.range, owner |-> rep.owner, groups |-> Named(es),
            other |-> Cardinality(Models(es)) > Top, points |-> <<>>])

\* Pass 2: a row of another group goes to "other" (0) if there is one.
Values ==
  /\ rep.pc = "values"
  /\ LET target(e) == IF e.model \in rep.groups THEN e.model ELSE 0
         In(b, g) == {e \in Matching(rep) : BucketOf(e.ts) = b /\ target(e) = g} IN
     Shows([rep EXCEPT !.pc = "shown", !.points =
       [b \in Buckets(rep.range) |->
          [g \in rep.groups \cup IF rep.other THEN {0} ELSE {} |-> Cardinality(In(b, g))]]])

(***************************************************************************)
(* UsageRequests: newest first, page after page                            *)
(***************************************************************************)
\* ORDER BY time, newest first.
Newer(es, e) == {d \in es : d.ts > e.ts \/ (d.ts = e.ts /\ d.id > e.id)}

\* Mutant of PageOf: pages counted from one, offsets not.
PageOfShifted(q) ==
  {e \in Matching(q) : Cardinality(Newer(Matching(q), e)) \div PageSize = q.pages + 1}
\* LIMIT and OFFSET.
PageOf(q) ==
  {e \in Matching(q) : Cardinality(Newer(Matching(q), e)) \div PageSize = q.pages}

\* The total is counted by a query of its own and left out: the client sees the
\* end by a page that is not full.
Page ==
  /\ rep.pc = "log"
  /\ Shows([rep EXCEPT !.seen = @ \cup PageOf(rep), !.pages = @ + 1,
                       !.pc = IF Cardinality(PageOf(rep)) < PageSize THEN "shown" ELSE "log"])

\* The answer is sent.
Answered == rep.pc \in {"shown", "failed"} /\ Shows(NoReport)

Next ==
  \/ LogNext /\ UNCHANGED rep
  \/ Crash /\ rep' = NoReport
  \/ \E kind \in {"overview", "series", "log"}, range \in Ranges, owner \in Owners \cup {Nobody} :
       Ask(kind, range, owner)
  \/ Totals \/ P95 \/ Points \/ Rank \/ Values \/ Page \/ Answered

Init ==
  /\ \E s \in Starts : rows = s.rows /\ budget = s.budget
  /\ LogInit /\ rep = NoReport
Spec == Init /\ [][Next]_vars
=============================================================================

------------------------------ MODULE UsageLog ------------------------------
(***************************************************************************)
(* Usage accounting (internal/gateway: clientOnly and MaintenanceLoop in   *)
(* routes.go, usageTracker in clientkeys.go, usageBuffer in usage.go,      *)
(* recordActivity, meterWebTool; internal/store: usage_events and the      *)
(* counters of api_keys).                                                  *)
(*                                                                         *)
(* A request is counted when it is let in and filed when it ends: in the   *)
(* event buffer, then in the dashboard's ring, each under its own lock.    *)
(* The maintenance loop takes the counters and the events out of memory    *)
(* and writes them, one statement or transaction at a time.  An owner has  *)
(* one client key.  What an event says besides its owner, day, model,      *)
(* outcome and duration is left out.                                       *)
(***************************************************************************)
EXTENDS Integers, Sequences, SequencesExt, FiniteSets

CONSTANTS
  Owners,      \* owners of client keys
  Nobody,      \* none of them
  Requests,    \* requests in progress at the same time
  BufferMax,   \* usageBufferMax
  RingSize,    \* activityRingSize
  Retention,   \* usageRetentionDays
  FirstDay,    \* the day the process starts
  Starts,      \* bound: [rows, budget]: the table at start, and what may follow
  MaxMishaps   \* bound: statements that fail, and crashes

\* How a call may come out, an event, and what may still follow.
Outcome == [model : Nat, ok : BOOLEAN, dur : Nat]
Event == [id : Nat \ {0}, ts : Nat, owner : Owners, model : Nat, ok : BOOLEAN, dur : Nat]
Budget == [days : Nat, calls : Seq(SUBSET Outcome), reports : Nat]

ASSUME UsageAssumption ==
  /\ Nobody \notin Owners
  /\ {BufferMax, RingSize} \subseteq Nat \ {0}
  /\ \A s \in Starts :
       /\ s.rows \subseteq Event /\ IsFiniteSet(s.rows)
       /\ {e.id : e \in s.rows} = 1 .. Cardinality(s.rows)
       /\ \A e \in s.rows : e.ts =< FirstDay
       /\ s.budget \in Budget
  /\ {Retention, FirstDay, MaxMishaps} \subseteq Nat

VARIABLES
  day,
  buf,            \* usageBuffer.events
  ring, ringIdx,  \* usageTracker.ring
  deltas,         \* usageTracker.deltas: owner -> requests not yet written
  loop,           \* MaintenanceLoop: what it has taken and not yet written
  req,            \* request -> its progress
  rows,           \* table usage_events
  counts,         \* api_keys.request_count
  made,           \* events made so far; numbers them
  budget,         \* [days, calls, reports]: days still to come, what each event
                  \* still made may come to, reports still asked for
  failures, crashes

memory == <<buf, ring, ringIdx, deltas, loop, req>>
tables == <<rows, counts>>
bounds == <<failures, crashes>>
numbers == <<made, budget>>
logVars == <<day, memory, tables, numbers, bounds>>

NoEvent == [id |-> 0]
NoDeltas == [o \in Owners |-> 0]
IdleRequest == [pc |-> "idle", owner |-> Nobody, event |-> NoEvent]
Waiting == [pc |-> "wait", deltas |-> NoDeltas, batch |-> <<>>]

-----------------------------------------------------------------------------
Fresh ==
  /\ buf = <<>> /\ deltas = NoDeltas /\ loop = Waiting
  /\ ring = [i \in 0 .. RingSize - 1 |-> NoEvent] /\ ringIdx = 0
  /\ req = [r \in Requests |-> IdleRequest]

LogInit ==
  /\ Fresh
  /\ day = FirstDay /\ counts = NoDeltas
  /\ failures = 0 /\ crashes = 0
  /\ made = Cardinality(rows)

NextDay ==
  /\ budget.days > 0 /\ budget' = [budget EXCEPT !.days = @ - 1]
  /\ day' = day + 1
  /\ UNCHANGED <<memory, tables, made, bounds>>

\* clientOnly: record.
LetIn(r, o) ==
  /\ req[r].pc = "idle"
  /\ Cardinality({q \in Requests : req[q].pc = "open"}) < Len(budget.calls)
  /\ deltas' = [deltas EXCEPT ![o] = @ + 1]
  /\ req' = [req EXCEPT ![r] = [IdleRequest EXCEPT !.pc = "open", !.owner = o]]
  /\ UNCHANGED <<day, buf, ring, ringIdx, loop, tables, numbers, bounds>>

\* Mutant of Buffered: the buffer is not bounded.
BufferedUnbounded(e) == Append(buf, e)
\* usageBuffer.add: a full buffer drops its oldest event.
Buffered(e) == Append(IF Len(buf) = BufferMax THEN Tail(buf) ELSE buf, e)

\* recordActivity, meterWebTool, first half.
Record(r, outcome) ==
  /\ req[r].pc = "open" /\ budget.calls # <<>> /\ outcome \in Head(budget.calls)
  /\ LET e == [id |-> made + 1, ts |-> day, owner |-> req[r].owner,
               model |-> outcome.model, ok |-> outcome.ok, dur |-> outcome.dur] IN
       /\ buf' = Buffered(e)
       /\ req' = [req EXCEPT ![r].pc = "filing", ![r].event = e]
  /\ made' = made + 1 /\ budget' = [budget EXCEPT !.calls = Tail(@)]
  /\ UNCHANGED <<day, ring, ringIdx, deltas, loop, tables, bounds>>

\* Second half: addActivity.  An MCP request may call another tool.
AddActivity(r) ==
  /\ req[r].pc = "filing"
  /\ ring' = [ring EXCEPT ![ringIdx] = req[r].event]
  /\ ringIdx' = (ringIdx + 1) % RingSize
  /\ \/ req' = [req EXCEPT ![r] = IdleRequest]
     \/ budget.calls # <<>> /\ req' = [req EXCEPT ![r].pc = "open", ![r].event = NoEvent]
  /\ UNCHANGED <<day, buf, deltas, loop, tables, numbers, bounds>>

\* recentWhere: from the newest slot back to the first one never filled.
Newest(i) == ring[(ringIdx - i) % RingSize]
\* Mutant of Recent: the walk starts at the slot to be written next.
RecentFromIndex(n, keep) ==
  LET filled == [i \in 1 .. RingSize |-> ring[(ringIdx - i + 1) % RingSize]]
      kept == SelectSeq(filled, LAMBDA e : e # NoEvent /\ e.owner \in keep) IN
  SubSeq(kept, 1, IF Len(kept) < n THEN Len(kept) ELSE n)
Recent(n, keep) ==
  LET filled == [i \in {j \in 1 .. RingSize : \A k \in 1 .. j : Newest(k) # NoEvent} |-> Newest(i)]
      kept == SelectSeq(filled, LAMBDA e : e.owner \in keep) IN
  SubSeq(kept, 1, IF Len(kept) < n THEN Len(kept) ELSE n)

-----------------------------------------------------------------------------
(***************************************************************************)
(* MaintenanceLoop, one round: flush, drain, InsertUsageEvents, prune.     *)
(***************************************************************************)
MayFail == failures + crashes < MaxMishaps /\ failures' = failures + 1

\* usageTracker.flush, under its lock.
TakeDeltas ==
  /\ loop.pc = "wait"
  /\ loop' = [loop EXCEPT !.pc = "bump", !.deltas = deltas]
  /\ deltas' = NoDeltas
  /\ UNCHANGED <<day, buf, ring, ringIdx, req, tables, numbers, bounds>>

\* BumpClientKeyUsage; its error is ignored.
Bump(o) ==
  /\ loop.pc = "bump" /\ loop.deltas[o] > 0
  /\ loop' = [loop EXCEPT !.deltas[o] = 0]
  /\ \/ counts' = [counts EXCEPT ![o] = @ + loop.deltas[o]] /\ UNCHANGED failures
     \/ MayFail /\ UNCHANGED counts
  /\ UNCHANGED <<day, buf, ring, ringIdx, deltas, req, rows, numbers, crashes>>

\* Mutant of Drain: the buffer is not emptied.
DrainCopy ==
  /\ loop.pc = "bump" /\ loop.deltas = NoDeltas
  /\ loop' = [loop EXCEPT !.pc = IF buf = <<>> THEN "prune" ELSE "insert", !.batch = buf]
  /\ UNCHANGED <<day, buf, ring, ringIdx, deltas, req, tables, numbers, bounds>>

Drain ==
  /\ loop.pc = "bump" /\ loop.deltas = NoDeltas
  /\ loop' = [loop EXCEPT !.pc = IF buf = <<>> THEN "prune" ELSE "insert", !.batch = buf]
  /\ buf' = <<>>
  /\ UNCHANGED <<day, ring, ringIdx, deltas, req, tables, numbers, bounds>>

\* One transaction; a failed one is logged and its events are gone.
InsertUsageEvents ==
  /\ loop.pc = "insert"
  /\ loop' = [loop EXCEPT !.pc = "prune", !.batch = <<>>]
  /\ \/ rows' = rows \cup ToSet(loop.batch) /\ UNCHANGED failures
     \/ MayFail /\ UNCHANGED rows
  /\ UNCHANGED <<day, buf, ring, ringIdx, deltas, req, counts, numbers, crashes>>

\* Roughly hourly: rows older than the retention go.
PruneUsageEvents(due) ==
  /\ loop.pc = "prune"
  /\ loop' = Waiting
  /\ rows' = IF due THEN {e \in rows : e.ts >= day - Retention} ELSE rows
  /\ UNCHANGED <<day, buf, ring, ringIdx, deltas, req, counts, numbers, bounds>>

\* The process dies and is started again: memory is lost.
Crash ==
  /\ failures + crashes < MaxMishaps
  /\ crashes' = crashes + 1
  /\ buf' = <<>> /\ deltas' = NoDeltas /\ loop' = Waiting
  /\ ring' = [i \in 0 .. RingSize - 1 |-> NoEvent] /\ ringIdx' = 0
  /\ req' = [r \in Requests |-> IdleRequest]
  /\ UNCHANGED <<day, tables, numbers, failures>>

LogNext ==
  \/ NextDay
  \/ \E r \in Requests :
       \/ \E o \in Owners : LetIn(r, o)
       \/ \E outcome \in UNION ToSet(budget.calls) : Record(r, outcome)
       \/ AddActivity(r)
  \/ TakeDeltas \/ Drain \/ InsertUsageEvents
  \/ \E o \in Owners : Bump(o)
  \/ \E due \in BOOLEAN : PruneUsageEvents(due)
=============================================================================

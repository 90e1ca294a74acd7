--------------------------- MODULE EventScheduler ---------------------------
(***************************************************************************)
(* The event scheduler over the database: EventQueue and EventExecutor     *)
(* (simulator/core/event_scheduler), run_simulation_cycle                  *)
(* (simulator/master_simulator) and the clock that SimulationManager moves *)
(* from one scheduled event to the next.                                   *)
(*                                                                         *)
(* A run executes cycles.  A cycle lists the events that are ready, and    *)
(* for each of them checks that it is not already completed, calls its     *)
(* handler (which commits business state), marks the outbox row, and       *)
(* inserts the next event of the chain: each of these is a transaction of  *)
(* its own, and the process may die between any two.                       *)
(***************************************************************************)
EXTENDS Naturals, Sequences, FiniteSets

CONSTANTS
  Types,        \* event types
  NoType,       \* no successor
  Successor,    \* NEXT_EVENT_SEQUENCE: the type scheduled after each type
  Rank,         \* priority rank of each type, 0 for HIGH
  Guarded,      \* types whose handler refuses work that is already done
  Roots,        \* types the outside world schedules
  Windows,      \* run windows
  Allowed,      \* allowed_events of each window
  Corrs,        \* correlation ids
  Aggs,         \* aggregate ids
  AggAfter,     \* AggAfter[e][a]: aggregate of an executed event e on a
  AllCorrs,     \* scope of a run that is not limited to one correlation
  NoTime,       \* no checkpoint; the due time of a row nobody scheduled
  StartTimes,   \* simulated times a run may start at, and roots may be due
  Delays,       \* minutes to the next event (event_timing), at least one
  RetryBase,    \* first retry interval (5 minutes in the code)
  RetryCap,     \* longest retry interval (60 minutes in the code)
  MaxRetry,     \* max_retry_count (3 in the code)
  MaxSeeds,     \* bound: root events scheduled
  MaxPublished, \* bound: rows the Kafka producer publishes
  MaxFaults,    \* bound: crashes
  MaxLength     \* bound: rows whose end EventsAreDrained follows

ASSUME TypeAssumption ==
  /\ NoType \notin Types
  /\ Successor \in [Types -> Types \cup {NoType}]
  /\ Rank \in [Types -> Nat]
  /\ Guarded \subseteq Types /\ Roots \subseteq Types
  /\ Allowed \in [Windows -> SUBSET Types]
  /\ AggAfter \in [Types -> [Aggs -> Aggs]]
  /\ AllCorrs \notin Corrs

\* NEXT_EVENT_SEQUENCE: no type follows two others, none that follows another is
\* scheduled from outside, and a supplier shipment follows an approved order.
ASSUME ChainAssumption ==
  \A e \in Types :
    /\ \A f \in Types : Successor[e] = Successor[f] => e = f \/ Successor[e] = NoType
    /\ Successor[e] \notin Roots
    /\ Successor[e] = "SupplierShipmentCreated" => e = "PurchaseOrderApproved"

ASSUME TimeAssumption ==
  /\ NoTime \notin Nat /\ StartTimes \subseteq Nat
  /\ Delays \subseteq Nat \ {0}
  /\ RetryBase \in Nat \ {0} /\ RetryCap \in Nat \ {0} /\ MaxRetry \in Nat
  /\ MaxSeeds \in Nat /\ MaxPublished \in Nat /\ MaxFaults \in Nat /\ MaxLength \in Nat

VARIABLES
  rows,         \* event_outbox, in creation order
  run,          \* scope, window and start time of the run
  clock,        \* its simulation_time
  checkpoint,   \* its checkpoint file
  pc,           \* where the cycle is
  queue,        \* rows the cycle still has to execute (a snapshot)
  failed,       \* has_failure of the cycle
  faults,       \* crashes so far
  published     \* rows completed by the Kafka producer so far

runVars == <<run, clock, checkpoint>>
cycleVars == <<pc, queue, failed>>
envVars == <<faults, published>>
vars == <<rows, runVars, cycleVars, envVars>>

Status == {"PENDING", "RETRY_SCHEDULED", "COMPLETED", "SKIPPED", "FAILED"}

\* commits counts how often the row's handler committed; no code reads it.
Row == [type : Types, corr : Corrs, agg : Aggs, status : Status,
        due : Nat \cup {NoTime}, retries : 0..(MaxRetry + 1), commits : Nat]
Run == [scope : Corrs \cup {AllCorrs}, window : Windows, begin : StartTimes]
NoRun == [scope |-> AllCorrs, window |-> "none", begin |-> 0]

TypeOK ==
  /\ rows \in Seq(Row)
  /\ run \in Run \cup {NoRun}
  /\ clock \in Nat
  /\ checkpoint \in Nat \cup {NoTime}
  /\ pc \in {"off", "list", "execute", "rename", "mark", "child", "advance"}
  /\ queue \in Seq(1..Len(rows))
  /\ pc \in {"rename", "mark", "child"} => queue # <<>>
  /\ failed \in BOOLEAN
  /\ faults \in 0..MaxFaults /\ published \in 0..MaxPublished

Init ==
  /\ rows = <<>>
  /\ run = NoRun /\ clock = 0 /\ checkpoint = NoTime
  /\ pc = "off" /\ queue = <<>> /\ failed = FALSE
  /\ faults = 0 /\ published = 0

-----------------------------------------------------------------------------
(* EventQueue.                                                              *)

Rows == 1..Len(rows)
Active(i) == rows[i].status \in {"PENDING", "RETRY_SCHEDULED"}
Scheduled(i) == rows[i].due # NoTime
NewRow(type, corr, agg, due) ==
  [type |-> type, corr |-> corr, agg |-> agg, status |-> "PENDING",
   due |-> due, retries |-> 0, commits |-> 0]

\* Mutant of Duplicate: completed events do not count.
Duplicate_ActiveOnly(type, corr, agg) ==
  \E i \in Rows : /\ rows[i].type = type
                  /\ rows[i].corr = corr \/ rows[i].agg = agg
                  /\ Active(i)

\* The business event is already scheduled or executed.
Duplicate(type, corr, agg) ==
  \E i \in Rows : /\ rows[i].type = type
                  /\ rows[i].corr = corr \/ rows[i].agg = agg
                  /\ Active(i) \/ rows[i].status = "COMPLETED"

\* _should_block_causal_insert: a supplier shipment needs an approved order.
Blocked(type, agg) ==
  /\ type = "SupplierShipmentCreated"
  /\ \A i \in Rows : rows[i].type = "PurchaseOrderApproved" /\ rows[i].agg = agg
                       => rows[i].commits = 0

\* insert_future_event: the rows it leaves.
Inserted(type, corr, agg, due) ==
  IF Blocked(type, agg) \/ Duplicate(type, corr, agg)
    THEN rows
    ELSE Append(rows, NewRow(type, corr, agg, due))

\* Rows of the run's correlation (_CorrelationScopedQueue).
InScope(i) == run.scope = AllCorrs \/ rows[i].corr = run.scope

\* list_ready_events and the window's filter.
Ready ==
  {i \in Rows : /\ Active(i) /\ InScope(i) /\ Scheduled(i)
                /\ rows[i].due <= clock
                /\ checkpoint # NoTime => rows[i].due >= checkpoint
                /\ rows[i].type \in Allowed[run.window]}

\* The order of execution: priority, then due time, then age.
Before(i, j) ==
  \/ Rank[rows[i].type] < Rank[rows[j].type]
  \/ /\ Rank[rows[i].type] = Rank[rows[j].type]
     /\ rows[i].due < rows[j].due \/ (rows[i].due = rows[j].due /\ i < j)

-----------------------------------------------------------------------------
(* The outside world: clients schedule root events, the Kafka producer      *)
(* completes pending rows it has delivered.                                 *)

Seed(type, corr, agg, due) ==
  /\ type \in Roots
  /\ Cardinality({i \in Rows : rows[i].type \in Roots /\ Scheduled(i)}) < MaxSeeds
  /\ pc # "off" => due > clock
  /\ ~Blocked(type, agg) /\ ~Duplicate(type, corr, agg)
  /\ rows' = Inserted(type, corr, agg, due)
  /\ UNCHANGED <<runVars, cycleVars, envVars>>

\* main_producer reads PENDING rows of correlations without an unfinished
\* independent run; onMsgSuccess completes them.
Publish(i) ==
  /\ published < MaxPublished
  /\ rows[i].status = "PENDING"
  /\ rows' = [rows EXCEPT ![i].status = "COMPLETED"]
  /\ published' = published + 1
  /\ UNCHANGED <<runVars, cycleVars, faults>>

-----------------------------------------------------------------------------
(* A run, and the start of a cycle.                                         *)

StartRun(scope, window, begin) ==
  /\ pc = "off"
  /\ run' = [scope |-> scope, window |-> window, begin |-> begin]
  /\ clock' = begin /\ checkpoint' = NoTime
  /\ pc' = "list"
  /\ UNCHANGED <<rows, queue, failed, envVars>>

\* The run is over; later runs have their own clock and checkpoint file.
Over ==
  /\ pc' = "off" /\ queue' = <<>> /\ failed' = FALSE
  /\ run' = NoRun /\ clock' = 0 /\ checkpoint' = NoTime
  /\ UNCHANGED <<rows, envVars>>

\* The n-th row listed has n - 1 ready rows before it.
ListReady ==
  /\ pc = "list"
  /\ queue' = [n \in 1..Cardinality(Ready) |->
       CHOOSE i \in Ready : Cardinality({j \in Ready : Before(j, i)}) = n - 1]
  /\ pc' = "execute"
  /\ UNCHANGED <<rows, runVars, failed, envVars>>

-----------------------------------------------------------------------------
(* EventExecutor on the first row of the queue.                             *)

This == Head(queue)
Executing == pc = "execute" /\ queue # <<>>
Done == rows[This].status \in {"COMPLETED", "SKIPPED"}

\* The executor is done with the row, which ends as row; no event follows.
Leave(row, failure) ==
  /\ rows' = [rows EXCEPT ![This] = row]
  /\ queue' = Tail(queue)
  /\ failed' = (failed \/ failure)
  /\ UNCHANGED <<pc, runVars, envVars>>

\* Somebody completed the row after it was listed.
SkipCompleted ==
  /\ Executing /\ Done
  /\ Leave([rows[This] EXCEPT !.status = "SKIPPED"], FALSE)

\* The handler's transaction commits.  A generator publishes its own event
\* in it, for the aggregate it has worked on, unless the outbox has it.
HandlerCommits(publishes) ==
  /\ Executing /\ ~Done
  /\ ~(rows[This].type \in Guarded /\ rows[This].commits > 0)
  /\ LET row == rows[This]
         agg == AggAfter[row.type][row.agg]
         kept == \E i \in Rows : /\ rows[i].type = row.type /\ rows[i].corr = row.corr
                                 /\ rows[i].agg = agg
                                 /\ Active(i) \/ rows[i].status = "COMPLETED"
         committed == [rows EXCEPT ![This].commits = @ + 1]
     IN  rows' = IF publishes /\ ~kept
                   THEN Append(committed, NewRow(row.type, row.corr, agg, NoTime))
                   ELSE committed
  /\ pc' = "rename"
  /\ UNCHANGED <<runVars, queue, failed, envVars>>

\* The handler finds its work done or nothing to do ("already exists", "no
\* created ..."): the event is a no-op and its chain ends here.
HandlerRefuses ==
  /\ Executing /\ ~Done
  /\ Leave([rows[This] EXCEPT !.status = "SKIPPED", !.retries = @ + 1], FALSE)

Interval(n) == LET doubled == RetryBase * 2^(n - 1)
               IN  IF doubled <= RetryCap THEN doubled ELSE RetryCap

\* Mutant of HandlerFails: the cycle does not count a retry as a failure.
HandlerFails_Quietly ==
  /\ Executing /\ ~Done
  /\ LET n == rows[This].retries + 1
     IN  IF n <= MaxRetry
           THEN Leave([rows[This] EXCEPT !.status = "RETRY_SCHEDULED", !.retries = n,
                                         !.due = @ + Interval(n)], FALSE)
           ELSE Leave([rows[This] EXCEPT !.status = "FAILED", !.retries = n], TRUE)

\* Mutant of HandlerFails: there is no last attempt.
HandlerFails_NoLimit ==
  /\ Executing /\ ~Done
  /\ LET n == rows[This].retries + 1
     IN  Leave([rows[This] EXCEPT !.status = "RETRY_SCHEDULED", !.retries = n,
                                  !.due = @ + Interval(n)], TRUE)

\* Mutant of HandlerFails: the row is marked without its new count and time.
HandlerFails_Uncounted ==
  /\ Executing /\ ~Done
  /\ Leave([rows[This] EXCEPT !.status = "RETRY_SCHEDULED"], TRUE)

\* The handler raises and its transaction is rolled back: retry or give up.
HandlerFails ==
  /\ Executing /\ ~Done
  /\ LET n == rows[This].retries + 1
     IN  IF n <= MaxRetry
           THEN Leave([rows[This] EXCEPT !.status = "RETRY_SCHEDULED", !.retries = n,
                                         !.due = @ + Interval(n)], TRUE)
           ELSE Leave([rows[This] EXCEPT !.status = "FAILED", !.retries = n], TRUE)

\* No handler, or a TypeError that the second call repeats: the error leaves
\* the cycle before its checkpoint, and the manager records FAILED.
HandlerAborts ==
  /\ Executing /\ ~Done
  /\ Over

\* update_event_aggregate_id, unless another row has that aggregate.
Rename ==
  /\ pc = "rename"
  /\ LET row == rows[This]
         agg == AggAfter[row.type][row.agg]
     IN  rows' = IF \E i \in Rows \ {This} : rows[i].type = row.type /\ rows[i].agg = agg
                   THEN rows
                   ELSE [rows EXCEPT ![This].agg = agg]
  /\ pc' = "mark"
  /\ UNCHANGED <<runVars, queue, failed, envVars>>

\* mark_event_status COMPLETED.
Mark ==
  /\ pc = "mark"
  /\ rows' = [rows EXCEPT ![This].status = "COMPLETED"]
  /\ pc' = "child"
  /\ UNCHANGED <<runVars, queue, failed, envVars>>

\* When the event after row is due: the row's own due time plus the delay,
\* moved behind the clock when that is already past.
ChildDue(row, delay, again) ==
  IF row.due + delay <= clock THEN clock + again ELSE row.due + delay

\* Mutant of ScheduleChild: no event follows.
ScheduleChild_Never(delay, again) ==
  /\ pc = "child"
  /\ rows' = rows
  /\ queue' = Tail(queue)
  /\ pc' = "execute"
  /\ UNCHANGED <<runVars, failed, envVars>>

\* The default next event, unless the run's window does not allow it.
ScheduleChild(delay, again) ==
  /\ pc = "child"
  /\ LET row == rows[This]
         next == Successor[row.type]
     IN  rows' = IF next = NoType \/ next \notin Allowed[run.window]
                   THEN rows
                   ELSE Inserted(next, row.corr, row.agg, ChildDue(row, delay, again))
  /\ queue' = Tail(queue)
  /\ pc' = "execute"
  /\ UNCHANGED <<runVars, failed, envVars>>

-----------------------------------------------------------------------------
(* The end of a cycle, and the manager's clock.                             *)

EndCycle ==
  /\ pc = "execute" /\ queue = <<>>
  /\ checkpoint' = IF failed THEN checkpoint ELSE clock
  /\ pc' = "advance" /\ failed' = FALSE
  /\ UNCHANGED <<rows, run, clock, queue, envVars>>

\* Active rows of the run's scope; rows without a time sort last.
Remaining == {i \in Rows : Active(i) /\ InScope(i)}
NextDue == {rows[i].due : i \in {j \in Remaining : Scheduled(j)}}

AdvanceClock ==
  /\ pc = "advance"
  /\ \E due \in NextDue :
       /\ \A other \in NextDue : due <= other
       /\ clock' = IF due < clock THEN clock ELSE due
  /\ pc' = "list"
  /\ UNCHANGED <<rows, run, checkpoint, queue, failed, envVars>>

\* Nothing remains, the loop has used its 100 cycles or its horizon, or only
\* rows without a time remain, whose comparison with the clock raises.
EndRun ==
  /\ pc = "advance"
  /\ Over

\* The process dies; the restored run is resumed from its checkpoint.
Crash ==
  /\ pc # "off" /\ faults < MaxFaults
  /\ faults' = faults + 1
  /\ clock' = IF checkpoint = NoTime THEN run.begin ELSE checkpoint
  /\ pc' = "list" /\ queue' = <<>> /\ failed' = FALSE
  /\ UNCHANGED <<rows, run, checkpoint, published>>

-----------------------------------------------------------------------------
Execute ==
  \/ SkipCompleted
  \/ \E publishes \in BOOLEAN : HandlerCommits(publishes)
  \/ HandlerRefuses
  \/ HandlerFails
  \/ HandlerAborts

Work == \/ ListReady
        \/ Execute
        \/ Rename
        \/ Mark
        \/ \E delay, again \in Delays : ScheduleChild(delay, again)
        \/ EndCycle

Next == \/ \E type \in Roots, corr \in Corrs, agg \in Aggs, due \in StartTimes :
             Seed(type, corr, agg, due)
        \/ \E i \in Rows : Publish(i)
        \/ \E scope \in Corrs \cup {AllCorrs}, window \in Windows, begin \in StartTimes :
             StartRun(scope, window, begin)
        \/ Work
        \/ AdvanceClock
        \/ EndRun
        \/ Crash

Spec == Init /\ [][Next]_vars

\* The worker thread goes on with its cycle, and with the next one.
FairSpec == Spec /\ WF_vars(Work) /\ WF_vars(AdvanceClock)

-----------------------------------------------------------------------------
(* Properties.                                                              *)

\* A handler that does not refuse repeated work commits at most once for an
\* event of a correlation, however often the event is scheduled, retried,
\* published or skipped.
CommittedOnce ==
  \A e \in Types \ Guarded, c \in Corrs :
    LET ran == {i \in Rows : rows[i].type = e /\ rows[i].corr = c /\ rows[i].commits > 0}
    IN  Cardinality(ran) <= 1 /\ \A i \in ran : rows[i].commits = 1

\* Without a crash every such handler commits once (event_executor:19).
ExecutedAtMostOnce == faults = 0 => CommittedOnce

\* An event of the run's scope and window is never left behind the checkpoint,
\* where list_ready_events does not look any more, while the run goes on
\* (checkpointing:7, run_simulation_cycle).
CheckpointIsProcessed ==
  pc # "off" /\ checkpoint # NoTime =>
    \A i \in Rows : Active(i) /\ InScope(i) /\ Scheduled(i)
                      /\ rows[i].type \in Allowed[run.window]
                    => rows[i].due >= checkpoint

\* Windows that allow a type and not its successor cut the chain there.
CutByWindow(e) == \E w \in Windows : e \in Allowed[w] /\ Successor[e] \notin Allowed[w]

\* Without a crash, once an executed event is completed and its cycle has moved
\* on, the next event of its chain has been scheduled for its correlation or
\* its aggregate (_build_default_next_event, _schedule_returned_events).
ChainContinues ==
  faults = 0 =>
    \A i \in Rows :
      /\ rows[i].status = "COMPLETED" /\ rows[i].commits > 0
      /\ Successor[rows[i].type] # NoType /\ ~CutByWindow(rows[i].type)
      /\ ~(pc \in {"rename", "mark", "child"} /\ i = This)
      => \E j \in Rows : /\ rows[j].type = Successor[rows[i].type]
                         /\ rows[j].corr = rows[i].corr \/ rows[j].agg = rows[i].agg

\* A due event that the window filters out: the clock cannot pass it.
Pinned == \E i \in Remaining : /\ Scheduled(i) /\ rows[i].due <= clock
                               /\ rows[i].type \notin Allowed[run.window]

\* As long as the manager goes on with the run and no filtered event holds its
\* clock, each event that is ready comes to an end: completed, skipped, or
\* failed after its last retry.
EventsAreDrained ==
  \A i \in 1..MaxLength :
    (pc # "off" /\ i \in Ready)
      ~> (i \in Rows /\ ~Active(i)) \/ pc = "off" \/ Pinned

\* A scheduled event is executed before it counts as completed (README:64: the
\* flow goes on until the chain completes, or until a retry or a failure).
ExecutedBeforeCompleted ==
  \A i \in Rows : Scheduled(i) /\ rows[i].status = "COMPLETED" => rows[i].commits > 0
=============================================================================

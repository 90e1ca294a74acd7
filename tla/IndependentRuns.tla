-------------------------- MODULE IndependentRuns --------------------------
(***************************************************************************)
(* The independent-flow API (api/services/independent_simulation_service)  *)
(* with the lock every simulator execution takes (api/services/run_lock)   *)
(* and the flow runner it starts (loading_scripts/domain_flow_runner).     *)
(*                                                                         *)
(* A request names a flow and, optionally, a simulation_id and a           *)
(* correlation_id.  The thread that serves it takes the process RLock and  *)
(* then the PostgreSQL advisory lock, reads the simulation_runs table,     *)
(* asks whether root business state already exists for the correlation,    *)
(* records the run as RUNNING, lets the runner commit its generators one   *)
(* transaction at a time, validates the events found in the outbox, and    *)
(* records SUCCESS or FAILED.  Each Database() block is a transaction of   *)
(* its own, so the process may die, or the database refuse a call, between *)
(* any two of them.                                                        *)
(***************************************************************************)
EXTENDS Naturals, Sequences, FiniteSets

CONSTANTS
  Threads,      \* API worker threads
  Processes,    \* API processes sharing the database
  ProcOf,       \* the process each thread belongs to
  Sims,         \* simulation_id values
  Corrs,        \* correlation_id values
  NoId,         \* an id the request leaves out
  Chain,        \* Chain[f]: the transactions the runner commits for flow f, in order
  MaxFaults     \* bound: crashes and database failures in a behaviour

Flows == {"inbound", "outbound", "transportation"}

\* The transaction that creates the root aggregate of a flow.
RootStep == [f \in Flows |-> CASE f = "inbound"  -> "PurchaseOrderCreated"
                               [] f = "outbound" -> "OrderCreated"
                               [] OTHER          -> "SeedShipment"]

RootSteps == {RootStep[f] : f \in Flows}

ASSUME IdAssumption == NoId \notin Sims \cup Corrs

ASSUME ThreadAssumption ==
  /\ ProcOf \in [Threads -> Processes]
  /\ MaxFaults \in Nat

\* A flow starts by creating its root aggregate and never creates another.
ASSUME ChainAssumption ==
  /\ Chain \in [Flows -> Seq(STRING)]
  /\ \A f \in Flows : /\ Len(Chain[f]) > 0
                      /\ Chain[f][1] = RootStep[f]
                      /\ \A i \in 2..Len(Chain[f]) : Chain[f][i] \notin RootSteps

\* Only the outbound chain inserts a shipment for an order, once.
ASSUME ShipmentAssumption ==
  \A f \in Flows : \A i, j \in 1..Len(Chain[f]) :
    Chain[f][i] = "ShipmentReady" =>
      f = "outbound" /\ (Chain[f][j] = "ShipmentReady" => i = j)

VARIABLES
  runs,         \* simulation_runs, by simulation_id
  rootRows,     \* rootRows[f][c]: root rows a runner of flow f inserted for c
  shipments,    \* shipments[c]: outbound_shipments rows ShipmentReady inserted for c
  outbox,       \* outbox[c]: event_outbox rows of correlation c by created_at
  procLock,     \* holder of each process's RLock
  advisory,     \* holder of the advisory lock
  pc,           \* where each thread is in IndependentSimulationService.run
  req,          \* the request it serves
  ctx,          \* its RunContext
  step,         \* transactions its runner has committed
  verdict,      \* the record it is about to persist
  faults        \* crashes and database failures so far

dbVars   == <<runs, rootRows, shipments, outbox>>
lockVars == <<procLock, advisory>>
vars     == <<runs, rootRows, shipments, outbox, procLock, advisory,
              pc, req, ctx, step, verdict, faults>>

NoThread  == "no thread"
ASSUME NoThreadAssumption == NoThread \notin Threads

Row       == [status : {"NONE", "RUNNING", "SUCCESS", "FAILED"}, retryable : BOOLEAN,
              flow : Flows \cup {"none"}, corr : Corrs \cup {NoId}]
NoRow     == [status |-> "NONE", retryable |-> FALSE, flow |-> "none", corr |-> NoId]
Request   == [flow : Flows, sim : Sims \cup {NoId}, corr : Corrs \cup {NoId}]
Context   == [flow : Flows, sim : Sims, corr : Corrs]
NoContext == [flow |-> "none", sim |-> NoId, corr |-> NoId]
Verdict   == [status : {"NONE", "SUCCESS", "FAILED"}, retryable : BOOLEAN]
NoVerdict == [status |-> "NONE", retryable |-> FALSE]

\* Program points between the lock's acquisition and its release.
Locked == {"lookup", "probe", "settle", "begin", "running", "validate",
           "classify", "record", "release"}
PCs    == {"idle", "process lock", "advisory lock"} \cup Locked

TypeOK ==
  /\ runs \in [Sims -> Row]
  /\ rootRows \in [Flows -> [Corrs -> Nat]]
  /\ shipments \in [Corrs -> Nat]
  /\ outbox \in [Corrs -> Seq(STRING)]
  /\ procLock \in [Processes -> Threads \cup {NoThread}]
  /\ advisory \in Threads \cup {NoThread}
  /\ pc \in [Threads -> PCs]
  /\ req \in [Threads -> Request \cup {NoContext}]
  /\ ctx \in [Threads -> Context \cup {NoContext}]
  /\ step \in [Threads -> Nat]
  /\ verdict \in [Threads -> Verdict]
  /\ faults \in 0..MaxFaults

Init ==
  /\ runs = [s \in Sims |-> NoRow]
  /\ rootRows = [f \in Flows |-> [c \in Corrs |-> 0]]
  /\ shipments = [c \in Corrs |-> 0]
  /\ outbox = [c \in Corrs |-> <<>>]
  /\ procLock = [p \in Processes |-> NoThread]
  /\ advisory = NoThread
  /\ pc = [t \in Threads |-> "idle"]
  /\ req = [t \in Threads |-> NoContext]
  /\ ctx = [t \in Threads |-> NoContext]
  /\ step = [t \in Threads |-> 0]
  /\ verdict = [t \in Threads |-> NoVerdict]
  /\ faults = 0

Occurs(e, s) == \E i \in 1..Len(s) : s[i] = e

\* Mutant of RootExists: only the outbox is asked, not the root tables.
RootExists_OutboxOnly(f, c) ==
  Occurs(IF f = "transportation" THEN "CarrierAssigned" ELSE RootStep[f], outbox[c])

\* _root_exists: the root table of the flow, or its root event in the outbox.
\* A transportation run also inserts the order its shipment belongs to.
RootExists(f, c) ==
  CASE f = "inbound"  -> rootRows["inbound"][c] > 0 \/ Occurs("PurchaseOrderCreated", outbox[c])
    [] f = "outbound" -> \/ rootRows["outbound"][c] > 0
                         \/ rootRows["transportation"][c] > 0
                         \/ Occurs("OrderCreated", outbox[c])
    [] OTHER          -> \/ rootRows["transportation"][c] > 0
                         \/ shipments[c] > 0
                         \/ Occurs("CarrierAssigned", outbox[c])

\* The outbox rows a complete run of flow f leaves: every transaction publishes
\* one event, except the one that seeds a shipment.
EventsOf(f) == SelectSeq(Chain[f], LAMBDA e : e # "SeedShipment")

-----------------------------------------------------------------------------
(* Identifiers: a request that leaves an id out is given a random UUID.     *)

FreshSims(rq)  == {s \in Sims : runs[s].status = "NONE" /\ \A t \in Threads : rq[t].sim # s}
FreshCorrs(rq) == {c \in Corrs : /\ \A s \in Sims : runs[s].corr # c
                                 /\ \A t \in Threads : rq[t].corr # c}

\* Bound: the finite id sets still hold an id for every request that needs one.
EnoughIds(rq) ==
  /\ Cardinality(FreshSims(rq)) >=
       Cardinality({t \in Threads : rq[t].flow # "none" /\ rq[t].sim = NoId})
  /\ Cardinality(FreshCorrs(rq)) >=
       Cardinality({t \in Threads : rq[t].flow # "none" /\ rq[t].corr = NoId})

-----------------------------------------------------------------------------
(* The lock.                                                                *)

Receive(t) ==
  /\ pc[t] = "idle"
  /\ \E r \in Request :
       /\ req' = [req EXCEPT ![t] = r]
       /\ EnoughIds(req')
  /\ pc' = [pc EXCEPT ![t] = "process lock"]
  /\ UNCHANGED <<dbVars, lockVars, ctx, step, verdict, faults>>

EnterProcessLock(t) ==
  /\ pc[t] = "process lock"
  /\ procLock[ProcOf[t]] = NoThread
  /\ procLock' = [procLock EXCEPT ![ProcOf[t]] = t]
  /\ pc' = [pc EXCEPT ![t] = "advisory lock"]
  /\ UNCHANGED <<dbVars, advisory, req, ctx, step, verdict, faults>>

\* Mutant of TakeAdvisoryLock: pg_try_advisory_lock with its answer ignored.
TakeAdvisoryLock_Ignored(t) ==
  /\ pc[t] = "advisory lock"
  /\ advisory' = t
  /\ pc' = [pc EXCEPT ![t] = "lookup"]
  /\ UNCHANGED <<dbVars, procLock, req, ctx, step, verdict, faults>>

TakeAdvisoryLock(t) ==
  /\ pc[t] = "advisory lock"
  /\ advisory = NoThread
  /\ advisory' = t
  /\ pc' = [pc EXCEPT ![t] = "lookup"]
  /\ UNCHANGED <<dbVars, procLock, req, ctx, step, verdict, faults>>

\* Leaving the context manager: pg_advisory_unlock, then the RLock.
Release(t) ==
  /\ pc[t] = "release"
  /\ advisory' = NoThread
  /\ procLock' = [procLock EXCEPT ![ProcOf[t]] = NoThread]
  /\ pc' = [pc EXCEPT ![t] = "idle"]
  /\ req' = [req EXCEPT ![t] = NoContext]
  /\ ctx' = [ctx EXCEPT ![t] = NoContext]
  /\ step' = [step EXCEPT ![t] = 0]
  /\ verdict' = [verdict EXCEPT ![t] = NoVerdict]
  /\ UNCHANGED <<dbVars, faults>>

-----------------------------------------------------------------------------
(* Reading what is already known of the request.                           *)

\* Mutant of Matches: the lookup by (flow, correlation_id) is forgotten.
Matches_SimOnly(r) ==
  {s \in Sims : s = r.sim /\ runs[s].status # "NONE"}

\* The row _existing_record selects: by simulation_id, else by (flow, correlation_id).
Matches(r) ==
  IF r.sim # NoId /\ runs[r.sim].status # "NONE"
    THEN {r.sim}
    ELSE {s \in Sims : r.corr # NoId /\ runs[s].status # "NONE"
                         /\ runs[s].flow = r.flow /\ runs[s].corr = r.corr}

\* The three 409 answers of _existing_record.
Conflicts(r, s) ==
  \/ r.sim # NoId /\ r.sim # s
  \/ r.corr # NoId /\ r.corr # runs[s].corr
  \/ r.flow # runs[s].flow

\* Mutant of LookUp: FAILED is always taken up again, retryable or not.
LookUp_RetriesAll(t) ==
  LET r == req[t] IN
  /\ pc[t] = "lookup"
  /\ \/ /\ Matches(r) = {}
        /\ \E s \in IF r.sim = NoId THEN FreshSims(req) ELSE {r.sim},
              c \in IF r.corr = NoId THEN FreshCorrs(req) ELSE {r.corr} :
             ctx' = [ctx EXCEPT ![t] = [flow |-> r.flow, sim |-> s, corr |-> c]]
        /\ pc' = [pc EXCEPT ![t] = "probe"]
     \/ \E s \in Matches(r) :
          /\ Conflicts(r, s) \/ runs[s].status = "SUCCESS"
          /\ pc' = [pc EXCEPT ![t] = "release"]
          /\ UNCHANGED ctx
     \/ \E s \in Matches(r) :
          /\ ~Conflicts(r, s) /\ runs[s].status # "SUCCESS"
          /\ ctx' = [ctx EXCEPT ![t] = [flow |-> r.flow, sim |-> s, corr |-> runs[s].corr]]
          /\ pc' = [pc EXCEPT ![t] = "probe"]
  /\ UNCHANGED <<dbVars, lockVars, req, step, verdict, faults>>

\* SUCCESS and non-retryable FAILED are replayed; the rest asks for root state.
LookUp(t) ==
  LET r == req[t] IN
  /\ pc[t] = "lookup"
  /\ \/ /\ Matches(r) = {}                                   \* _new_context
        /\ \E s \in IF r.sim = NoId THEN FreshSims(req) ELSE {r.sim},
              c \in IF r.corr = NoId THEN FreshCorrs(req) ELSE {r.corr} :
             ctx' = [ctx EXCEPT ![t] = [flow |-> r.flow, sim |-> s, corr |-> c]]
        /\ pc' = [pc EXCEPT ![t] = "probe"]
     \/ \E s \in Matches(r) :
          /\ \/ Conflicts(r, s)
             \/ runs[s].status = "SUCCESS"
             \/ runs[s].status = "FAILED" /\ ~runs[s].retryable
          /\ pc' = [pc EXCEPT ![t] = "release"]
          /\ UNCHANGED ctx
     \/ \E s \in Matches(r) :
          /\ ~Conflicts(r, s)
          /\ \/ runs[s].status = "RUNNING"
             \/ runs[s].status = "FAILED" /\ runs[s].retryable
          /\ ctx' = [ctx EXCEPT ![t] = [flow |-> r.flow, sim |-> s, corr |-> runs[s].corr]]
          /\ pc' = [pc EXCEPT ![t] = "probe"]
  /\ UNCHANGED <<dbVars, lockVars, req, step, verdict, faults>>

\* Mutant of ProbeRoot: an interrupted (RUNNING) run is restarted without asking.
ProbeRoot_RestartsInterrupted(t) ==
  LET x == ctx[t] IN
  /\ pc[t] = "probe"
  /\ pc' = [pc EXCEPT ![t] =
       IF runs[x.sim].status = "RUNNING" \/ ~RootExists(x.flow, x.corr) THEN "begin"
       ELSE IF runs[x.sim].status = "NONE" THEN "release" ELSE "settle"]
  /\ UNCHANGED <<dbVars, lockVars, req, ctx, step, verdict, faults>>

\* Root state refuses a new run (409) and settles an old one as not retryable.
ProbeRoot(t) ==
  LET x == ctx[t] IN
  /\ pc[t] = "probe"
  /\ \/ /\ ~RootExists(x.flow, x.corr)
        /\ pc' = [pc EXCEPT ![t] = "begin"]
     \/ /\ RootExists(x.flow, x.corr)
        /\ runs[x.sim].status = "NONE"
        /\ pc' = [pc EXCEPT ![t] = "release"]
     \/ /\ RootExists(x.flow, x.corr)
        /\ runs[x.sim].status # "NONE"
        /\ pc' = [pc EXCEPT ![t] = "settle"]
  /\ UNCHANGED <<dbVars, lockVars, req, ctx, step, verdict, faults>>

\* _persist: an upsert that leaves flow and correlation_id of a row alone.
Upsert(t, status, retryable) ==
  LET x == ctx[t] IN
  runs' = [runs EXCEPT ![x.sim] =
             [status |-> status, retryable |-> retryable,
              flow |-> IF @.status = "NONE" THEN x.flow ELSE @.flow,
              corr |-> IF @.status = "NONE" THEN x.corr ELSE @.corr]]

\* Mutant of Settle: a status the table's CHECK constraint does not list.
Settle_Interrupted(t) ==
  /\ pc[t] = "settle"
  /\ Upsert(t, "INTERRUPTED", FALSE)
  /\ pc' = [pc EXCEPT ![t] = "release"]
  /\ UNCHANGED <<rootRows, shipments, outbox, lockVars, req, ctx, step, verdict, faults>>

Settle(t) ==
  /\ pc[t] = "settle"
  /\ Upsert(t, "FAILED", FALSE)
  /\ pc' = [pc EXCEPT ![t] = "release"]
  /\ UNCHANGED <<rootRows, shipments, outbox, lockVars, req, ctx, step, verdict, faults>>

Begin(t) ==
  /\ pc[t] = "begin"
  /\ Upsert(t, "RUNNING", FALSE)
  /\ pc' = [pc EXCEPT ![t] = "running"]
  /\ UNCHANGED <<rootRows, shipments, outbox, lockVars, req, ctx, step, verdict, faults>>

-----------------------------------------------------------------------------
(* The runner: one committed transaction per generator script.             *)

RunnerStep(t) ==
  LET f == ctx[t].flow
      c == ctx[t].corr
      e == Chain[f][step[t] + 1]
  IN
  /\ pc[t] = "running"
  /\ step[t] < Len(Chain[f])
  /\ step' = [step EXCEPT ![t] = @ + 1]
  /\ rootRows' = IF e = RootStep[f] THEN [rootRows EXCEPT ![f][c] = @ + 1] ELSE rootRows
  /\ shipments' = IF e = "ShipmentReady" THEN [shipments EXCEPT ![c] = @ + 1] ELSE shipments
  /\ outbox' = IF e = "SeedShipment" THEN outbox ELSE [outbox EXCEPT ![c] = Append(@, e)]
  /\ UNCHANGED <<runs, lockVars, pc, req, ctx, verdict, faults>>

\* A generator raises, or the runner's output is refused.
RunnerFails(t) ==
  /\ pc[t] = "running"
  /\ pc' = [pc EXCEPT ![t] = "classify"]
  /\ UNCHANGED <<dbVars, lockVars, req, ctx, step, verdict, faults>>

RunnerCompletes(t) ==
  /\ pc[t] = "running"
  /\ step[t] = Len(Chain[ctx[t].flow])
  /\ pc' = [pc EXCEPT ![t] = "validate"]
  /\ UNCHANGED <<dbVars, lockVars, req, ctx, step, verdict, faults>>

\* Mutant of Validate: only the last event of the chain is looked for.
Validate_LastOnly(t) ==
  LET evts == EventsOf(ctx[t].flow) IN
  /\ pc[t] = "validate"
  /\ \/ /\ Occurs(evts[Len(evts)], outbox[ctx[t].corr])
        /\ verdict' = [verdict EXCEPT ![t] = [status |-> "SUCCESS", retryable |-> FALSE]]
        /\ pc' = [pc EXCEPT ![t] = "record"]
     \/ /\ ~Occurs(evts[Len(evts)], outbox[ctx[t].corr])
        /\ UNCHANGED verdict
        /\ pc' = [pc EXCEPT ![t] = "classify"]
  /\ UNCHANGED <<dbVars, lockVars, req, ctx, step, faults>>

\* _validate_completed_flow: the correlation's outbox is exactly the flow's chain.
Validate(t) ==
  /\ pc[t] = "validate"
  /\ \/ /\ outbox[ctx[t].corr] = EventsOf(ctx[t].flow)
        /\ verdict' = [verdict EXCEPT ![t] = [status |-> "SUCCESS", retryable |-> FALSE]]
        /\ pc' = [pc EXCEPT ![t] = "record"]
     \/ /\ outbox[ctx[t].corr] # EventsOf(ctx[t].flow)
        /\ UNCHANGED verdict
        /\ pc' = [pc EXCEPT ![t] = "classify"]
  /\ UNCHANGED <<dbVars, lockVars, req, ctx, step, faults>>

\* Mutant of Classify: a run is retryable unless the probe itself raises.
Classify_AlwaysRetryable(t) ==
  /\ pc[t] = "classify"
  /\ verdict' = [verdict EXCEPT ![t] = [status |-> "FAILED", retryable |-> TRUE]]
  /\ pc' = [pc EXCEPT ![t] = "record"]
  /\ UNCHANGED <<dbVars, lockVars, req, ctx, step, faults>>

\* Mutant of Classify: the handler returns its response without persisting it.
Classify_NotRecorded(t) ==
  /\ pc[t] = "classify"
  /\ pc' = [pc EXCEPT ![t] = "release"]
  /\ UNCHANGED <<dbVars, lockVars, req, ctx, step, verdict, faults>>

\* A failed run may be retried only if it left no root aggregate; a probe that
\* raises counts as root state present.
Classify(t) ==
  /\ pc[t] = "classify"
  /\ \E failed \in BOOLEAN :
       /\ failed => faults < MaxFaults
       /\ faults' = IF failed THEN faults + 1 ELSE faults
       /\ verdict' = [verdict EXCEPT ![t] =
            [status |-> "FAILED",
             retryable |-> ~failed /\ ~RootExists(ctx[t].flow, ctx[t].corr)]]
  /\ pc' = [pc EXCEPT ![t] = "record"]
  /\ UNCHANGED <<dbVars, lockVars, req, ctx, step>>

Record(t) ==
  /\ pc[t] = "record"
  /\ Upsert(t, verdict[t].status, verdict[t].retryable)
  /\ pc' = [pc EXCEPT ![t] = "release"]
  /\ UNCHANGED <<rootRows, shipments, outbox, lockVars, req, ctx, step, verdict, faults>>

-----------------------------------------------------------------------------
(* Failures.                                                                *)

\* Mutant of DatabaseFails: the unlock is not in a finally block.
DatabaseFails_KeepsLock(t) ==
  /\ faults < MaxFaults
  /\ pc[t] \in {"lookup", "probe", "settle", "begin", "record"}
  /\ faults' = faults + 1
  /\ pc' = [pc EXCEPT ![t] = "idle"]
  /\ req' = [req EXCEPT ![t] = NoContext]
  /\ UNCHANGED <<dbVars, lockVars, ctx, step, verdict>>

\* A database call outside the runner raises: the exception leaves run() and
\* the lock's context manager, and the client sees an error.
DatabaseFails(t) ==
  /\ faults < MaxFaults
  /\ pc[t] \in {"lookup", "probe", "settle", "begin", "record"}
  /\ faults' = faults + 1
  /\ pc' = [pc EXCEPT ![t] = "release"]
  /\ UNCHANGED <<dbVars, lockVars, req, ctx, step, verdict>>

\* The API container dies with its threads and its runner; PostgreSQL drops the
\* advisory lock with the session.
Crash(p) ==
  LET dead == {t \in Threads : ProcOf[t] = p} IN
  /\ faults < MaxFaults
  /\ \E t \in dead : pc[t] # "idle"
  /\ faults' = faults + 1
  /\ procLock' = [procLock EXCEPT ![p] = NoThread]
  /\ advisory' = IF advisory \in dead THEN NoThread ELSE advisory
  /\ pc' = [t \in Threads |-> IF t \in dead THEN "idle" ELSE pc[t]]
  /\ req' = [t \in Threads |-> IF t \in dead THEN NoContext ELSE req[t]]
  /\ ctx' = [t \in Threads |-> IF t \in dead THEN NoContext ELSE ctx[t]]
  /\ step' = [t \in Threads |-> IF t \in dead THEN 0 ELSE step[t]]
  /\ verdict' = [t \in Threads |-> IF t \in dead THEN NoVerdict ELSE verdict[t]]
  /\ UNCHANGED dbVars

-----------------------------------------------------------------------------
\* What a thread does once it holds the lock.
Work(t) ==
  \/ LookUp(t) \/ ProbeRoot(t) \/ Settle(t) \/ Begin(t)
  \/ RunnerStep(t) \/ RunnerFails(t) \/ RunnerCompletes(t)
  \/ Validate(t) \/ Classify(t) \/ Record(t) \/ Release(t)

Next ==
  \/ \E t \in Threads : \/ Receive(t) \/ EnterProcessLock(t) \/ TakeAdvisoryLock(t)
                        \/ Work(t) \/ DatabaseFails(t)
  \/ \E p \in Processes : Crash(p)

Spec == Init /\ [][Next]_vars

\* A thread that holds the lock keeps executing; waiting for either lock, and
\* sending requests, is not assumed to make progress.
FairSpec == Spec /\ \A t \in Threads : WF_vars(Work(t))

-----------------------------------------------------------------------------
(* Properties.                                                              *)

Holders == {t \in Threads : pc[t] \in Locked}

\* run_lock.py promises serialised executions: two threads, of one process or
\* of two, are never both between the lookup and the response.
Serialised == \A t \in Holders : /\ advisory = t
                                 /\ procLock[ProcOf[t]] = t

\* However requests are retried, raced or cut short, a flow creates at most one
\* root aggregate for a correlation id ("to prevent a duplicate root aggregate").
OneRootAggregate == \A f \in Flows, c \in Corrs : rootRows[f][c] <= 1

\* Outbound and transportation runs may share a correlation id: between them
\* they still create at most one shipment for it.
OneShipment == \A c \in Corrs : rootRows["transportation"][c] + shipments[c] <= 1

\* The service offers a retry only of a run that left no root aggregate of its flow.
RetryableIsClean ==
  \A s \in Sims : runs[s].status = "FAILED" /\ runs[s].retryable
                    => rootRows[runs[s].flow][runs[s].corr] = 0

\* A recorded SUCCESS means the whole chain of the flow was committed exactly
\* once, and no later run (of any flow) slips an event in front of it.
SuccessIsComplete ==
  \A s \in Sims : runs[s].status = "SUCCESS" =>
    LET evts == EventsOf(runs[s].flow)
        row  == outbox[runs[s].corr]
    IN  Len(evts) <= Len(row) /\ \A i \in 1..Len(evts) : row[i] = evts[i]

\* The unique index uq_simulation_runs_flow_correlation is never violated by
\* _persist: one simulation per flow and correlation id.
OneRunPerCorrelation ==
  \A s1, s2 \in Sims :
    runs[s1].status # "NONE" /\ runs[s2].status # "NONE" /\ s1 # s2
      => runs[s1].flow # runs[s2].flow \/ runs[s1].corr # runs[s2].corr

\* A row that says SUCCESS, or FAILED for good, is never written again, and no
\* row is ever re-pointed at another flow or correlation id.
FinalIsFinal ==
  [][\A s \in Sims :
       /\ runs[s].status = "SUCCESS" \/ (runs[s].status = "FAILED" /\ ~runs[s].retryable)
            => runs'[s] = runs[s]
       /\ runs[s].status # "NONE" => /\ runs'[s].status # "NONE"
                                     /\ runs'[s].flow = runs[s].flow
                                     /\ runs'[s].corr = runs[s].corr]_vars

\* The advisory lock is never held for ever: the run ends, whatever its outcome.
LockIsReleased == \A t \in Threads : advisory = t ~> advisory # t

\* A run does not stay RUNNING unless the database or the process failed.
RunsEnd == \A s \in Sims : runs[s].status = "RUNNING"
                              ~> runs[s].status # "RUNNING" \/ faults > 0

=============================================================================

----------------------- MODULE IndependentRuns_proofs -----------------------
(***************************************************************************)
(* Proofs about IndependentRuns, for any threads, processes, identifiers,  *)
(* chains and number of faults: executions are serialised, no flow creates *)
(* a second root aggregate or shipment for a correlation id, the service   *)
(* offers only clean runs for retry, a success is complete, and a final    *)
(* outcome is never rewritten.                                             *)
(***************************************************************************)
EXTENDS IndependentRuns, TLAPS

\* Program points at which the thread's RunContext is set.
HasContext == {"probe", "settle", "begin", "running", "validate", "classify", "record"}

\* Points at which the run's row is certain to say RUNNING.
Executing == {"running", "validate", "classify", "record"}

LockInv ==
  /\ Serialised
  /\ \A t \in Threads : pc[t] = "advisory lock" => procLock[ProcOf[t]] = t

\* A context names the row it works on, or a row that does not exist and whose
\* flow and correlation id no other row has.
ContextInv ==
  \A t \in Threads : pc[t] \in HasContext =>
    /\ ctx[t] \in Context
    /\ runs[ctx[t].sim].status # "NONE" =>
         runs[ctx[t].sim].flow = ctx[t].flow /\ runs[ctx[t].sim].corr = ctx[t].corr
    /\ runs[ctx[t].sim].status = "NONE" =>
         /\ pc[t] \in {"probe", "begin"}
         /\ \A s \in Sims : runs[s].status # "NONE" =>
              runs[s].flow # ctx[t].flow \/ runs[s].corr # ctx[t].corr

\* What the program point says of the row's status.
StatusInv ==
  \A t \in Threads :
    LET row == runs[ctx[t].sim] IN
    /\ pc[t] \in Executing => row.status = "RUNNING"
    /\ pc[t] \in {"probe", "settle", "begin"} =>
         row.status \in {"NONE", "RUNNING"} \/ (row.status = "FAILED" /\ row.retryable)

\* What the program point says of root business state.
RootInv ==
  /\ OneRootAggregate
  /\ \A t \in Threads :
       /\ pc[t] \in HasContext \ Executing => step[t] = 0
       /\ pc[t] = "begin" => rootRows[ctx[t].flow][ctx[t].corr] = 0
       /\ pc[t] = "running" /\ step[t] = 0 => rootRows[ctx[t].flow][ctx[t].corr] = 0
       /\ pc[t] = "record" /\ verdict[t].retryable =>
            rootRows[ctx[t].flow][ctx[t].corr] = 0
       /\ pc[t] \in {"process lock", "advisory lock", "lookup", "idle"} => step[t] = 0

\* Rows that exist carry real identifiers.
RowInv == \A s \in Sims : runs[s].status # "NONE" => runs[s].flow \in Flows /\ runs[s].corr \in Corrs

\* A thread that is not idle serves a request.
RequestInv == \A t \in Threads : pc[t] # "idle" => req[t] \in Request

\* What is about to be recorded is an outcome.
VerdictInv ==
  \A t \in Threads : pc[t] = "record" =>
    \/ verdict[t].status = "FAILED"
    \/ verdict[t].status = "SUCCESS" /\ ~verdict[t].retryable

IInv == /\ TypeOK /\ RequestInv /\ VerdictInv /\ LockInv /\ RowInv /\ ContextInv /\ StatusInv /\ RootInv
        /\ OneRunPerCorrelation /\ RetryableIsClean

-----------------------------------------------------------------------------
\* _persist keeps simulation_runs well typed.
LEMMA UpsertType ==
  ASSUME TypeOK, NEW t \in Threads, ctx[t] \in Context,
         NEW status \in {"RUNNING", "SUCCESS", "FAILED"}, NEW retryable \in BOOLEAN,
         Upsert(t, status, retryable)
  PROVE  runs' \in [Sims -> Row]
  BY DEF TypeOK, Upsert, Row, Context

\* The context LookUp sets: a fresh one, unlike every existing row, or that of
\* the one row the request matches.
LEMMA LookUpContext ==
  ASSUME TypeOK, RequestInv, RowInv, NEW t \in Threads, LookUp(t), pc'[t] = "probe"
  PROVE  /\ ctx'[t] \in Context
         /\ ctx' = [ctx EXCEPT ![t] = ctx'[t]]
         /\ runs[ctx'[t].sim].status # "NONE" =>
              /\ runs[ctx'[t].sim].flow = ctx'[t].flow
              /\ runs[ctx'[t].sim].corr = ctx'[t].corr
         /\ runs[ctx'[t].sim].status = "NONE" =>
              \A s \in Sims : runs[s].status # "NONE" =>
                runs[s].flow # ctx'[t].flow \/ runs[s].corr # ctx'[t].corr
         /\ \/ runs[ctx'[t].sim].status \in {"NONE", "RUNNING"}
            \/ runs[ctx'[t].sim].status = "FAILED" /\ runs[ctx'[t].sim].retryable
  <1> DEFINE r == req[t]
  <1>1. r \in Request /\ r.flow \in Flows /\ r.sim \in Sims \cup {NoId}
          /\ r.corr \in Corrs \cup {NoId}
    BY DEF RequestInv, LookUp, Request
  <1>2. CASE Matches(r) = {}
    <2>1. PICK s \in (IF r.sim = NoId THEN FreshSims(req) ELSE {r.sim}),
               c \in (IF r.corr = NoId THEN FreshCorrs(req) ELSE {r.corr}) :
            ctx' = [ctx EXCEPT ![t] = [flow |-> r.flow, sim |-> s, corr |-> c]]
      BY <1>2 DEF LookUp
    <2>2. s \in Sims /\ c \in Corrs
      BY <1>1, <2>1 DEF FreshSims, FreshCorrs
    <2>3. runs[s].status = "NONE"
      BY <1>1, <1>2, <2>1, <2>2 DEF FreshSims, Matches
    <2>4. \A s2 \in Sims : runs[s2].status # "NONE" => runs[s2].flow # r.flow \/ runs[s2].corr # c
      BY <1>1, <1>2, <2>1, <2>2, IdAssumption DEF FreshCorrs, Matches
    <2>5. ctx'[t] = [flow |-> r.flow, sim |-> s, corr |-> c]
      BY <2>1 DEF TypeOK
    <2>6. [flow |-> r.flow, sim |-> s, corr |-> c] \in Context
      BY <1>1, <2>2 DEF Context
    <2>7. ctx'[t].flow = r.flow /\ ctx'[t].sim = s /\ ctx'[t].corr = c
      BY <2>5
    <2> HIDE DEF r
    <2>8. ctx' = [ctx EXCEPT ![t] = ctx'[t]]
      BY <2>1, <2>5
    <2> QED
      BY <2>2, <2>3, <2>4, <2>5, <2>6, <2>7, <2>8
  <1>3. CASE Matches(r) # {}
    <2>1. PICK s \in Matches(r) :
            /\ ~Conflicts(r, s)
            /\ \/ runs[s].status = "RUNNING"
               \/ runs[s].status = "FAILED" /\ runs[s].retryable
            /\ ctx' = [ctx EXCEPT ![t] = [flow |-> r.flow, sim |-> s, corr |-> runs[s].corr]]
      BY <1>3 DEF LookUp, TypeOK
    <2>2. s \in Sims /\ runs[s].status # "NONE" /\ runs[s].flow = r.flow
      BY <1>1, <2>1 DEF Matches, Conflicts
    <2>3. runs[s].corr \in Corrs
      BY <2>2 DEF RowInv
    <2>4. ctx'[t] = [flow |-> r.flow, sim |-> s, corr |-> runs[s].corr]
      BY <2>1 DEF TypeOK
    <2>5. [flow |-> r.flow, sim |-> s, corr |-> runs[s].corr] \in Context
      BY <1>1, <2>2, <2>3 DEF Context
    <2>6. ctx'[t].flow = r.flow /\ ctx'[t].sim = s /\ ctx'[t].corr = runs[s].corr
      BY <2>4
    <2> HIDE DEF r
    <2>7. ctx' = [ctx EXCEPT ![t] = ctx'[t]]
      BY <2>1, <2>4
    <2>8. runs[s].status = "RUNNING" \/ (runs[s].status = "FAILED" /\ runs[s].retryable)
      BY <2>1
    <2> QED
      BY <2>2, <2>3, <2>4, <2>5, <2>6, <2>7, <2>8
  <1> QED
    BY <1>2, <1>3

\* The fields of a verdict, as leaves of later proofs need them.
LEMMA VerdictFields ==
  ASSUME TypeOK, NEW t \in Threads
  PROVE  verdict[t].status \in {"NONE", "SUCCESS", "FAILED"} /\ verdict[t].retryable \in BOOLEAN
  BY DEF TypeOK, Verdict

\* The blank verdict of an idle thread has the type of a verdict.
LEMMA NoVerdictType == NoVerdict \in Verdict
  BY DEF NoVerdict, Verdict

\* Every step keeps every variable in its type.
LEMMA TypeStep == IInv /\ [Next]_vars => TypeOK'
  <1> SUFFICES ASSUME IInv, [Next]_vars PROVE TypeOK'
    OBVIOUS
  <1> USE ThreadAssumption DEF PCs, Locked
  <1>0. TypeOK /\ ContextInv /\ RequestInv /\ VerdictInv /\ RowInv
    BY DEF IInv
  <1>1. ASSUME NEW t \in Threads, Receive(t) PROVE TypeOK'
    BY <1>0, <1>1 DEF TypeOK, Receive, dbVars, lockVars
  <1>2. ASSUME NEW t \in Threads, EnterProcessLock(t) PROVE TypeOK'
    BY <1>0, <1>2 DEF TypeOK, EnterProcessLock, dbVars
  <1>3. ASSUME NEW t \in Threads, TakeAdvisoryLock(t) PROVE TypeOK'
    BY <1>0, <1>3 DEF TypeOK, TakeAdvisoryLock, dbVars
  <1>4. ASSUME NEW t \in Threads, LookUp(t) PROVE TypeOK'
    <2>1. ctx' \in [Threads -> Context \cup {NoContext}]
      <3>1. ctx' = ctx \/ pc'[t] = "probe"
        BY <1>0, <1>4 DEF TypeOK, LookUp
      <3>2. ctx \in [Threads -> Context \cup {NoContext}]
        BY <1>0 DEF TypeOK
      <3>3. CASE pc'[t] = "probe"
        <4>1. ctx'[t] \in Context /\ ctx' = [ctx EXCEPT ![t] = ctx'[t]]
          BY <1>0, <1>4, <3>3, LookUpContext
        <4> QED
          BY <3>2, <4>1
      <3> QED
        BY <3>1, <3>2, <3>3
    <2>2. pc' \in [Threads -> PCs]
      <3>1. \E l \in {"probe", "release"} : pc' = [pc EXCEPT ![t] = l]
        BY <1>4 DEF LookUp
      <3>2. pc \in [Threads -> PCs] /\ {"probe", "release"} \subseteq PCs
        BY <1>0 DEF TypeOK, PCs
      <3> QED
        BY <3>1, <3>2
    <2>3. UNCHANGED <<runs, rootRows, shipments, outbox, procLock, advisory,
                      req, step, verdict, faults>>
      <3>1. UNCHANGED <<dbVars, lockVars, req, step, verdict, faults>>
        BY <1>4 DEF LookUp
      <3> QED
        BY <3>1 DEF dbVars, lockVars
    <2> QED
      BY <1>0, <2>1, <2>2, <2>3 DEF TypeOK
  <1>5. ASSUME NEW t \in Threads, ProbeRoot(t) PROVE TypeOK'
    BY <1>0, <1>5 DEF TypeOK, ProbeRoot, dbVars, lockVars
  <1>6. ASSUME NEW t \in Threads, Settle(t) PROVE TypeOK'
    BY <1>0, <1>6, UpsertType DEF TypeOK, Settle, lockVars, ContextInv, HasContext
  <1>7. ASSUME NEW t \in Threads, Begin(t) PROVE TypeOK'
    BY <1>0, <1>7, UpsertType DEF TypeOK, Begin, lockVars, ContextInv, HasContext
  <1>8. ASSUME NEW t \in Threads, RunnerStep(t) PROVE TypeOK'
    <2>1. ctx[t].flow \in Flows /\ ctx[t].corr \in Corrs /\ step[t] \in Nat
      BY <1>0, <1>8 DEF RunnerStep, ContextInv, HasContext, Context, TypeOK
    <2>2. Chain[ctx[t].flow][step[t] + 1] \in STRING
      BY <1>8, <2>1, ChainAssumption DEF RunnerStep
    <2>3. step' \in [Threads -> Nat]
      <3>1. step' = [step EXCEPT ![t] = step[t] + 1]
        BY <1>8 DEF RunnerStep
      <3>2. step \in [Threads -> Nat]
        BY <1>0 DEF TypeOK
      <3> QED
        BY <3>1, <3>2
    <2>4. rootRows' \in [Flows -> [Corrs -> Nat]]
      <3>1. \/ rootRows' = rootRows
            \/ rootRows' = [rootRows EXCEPT ![ctx[t].flow][ctx[t].corr] = @ + 1]
        BY <1>8 DEF RunnerStep
      <3>2. rootRows \in [Flows -> [Corrs -> Nat]]
        BY <1>0 DEF TypeOK
      <3> QED
        BY <2>1, <3>1, <3>2
    <2>5. shipments' \in [Corrs -> Nat]
      <3>1. \/ shipments' = shipments
            \/ shipments' = [shipments EXCEPT ![ctx[t].corr] = @ + 1]
        BY <1>8 DEF RunnerStep
      <3>2. shipments \in [Corrs -> Nat]
        BY <1>0 DEF TypeOK
      <3> QED
        BY <2>1, <3>1, <3>2
    <2>6. outbox' \in [Corrs -> Seq(STRING)]
      <3> DEFINE e == Chain[ctx[t].flow][step[t] + 1]
      <3>1. \/ outbox' = outbox
            \/ outbox' = [outbox EXCEPT ![ctx[t].corr] = Append(@, e)]
        BY <1>8 DEF RunnerStep
      <3>2. outbox \in [Corrs -> Seq(STRING)]
        BY <1>0 DEF TypeOK
      <3> HIDE DEF e
      <3>3. e \in STRING
        BY <2>2 DEF e
      <3>4. Append(outbox[ctx[t].corr], e) \in Seq(STRING)
        BY <2>1, <3>2, <3>3
      <3> QED
        BY <2>1, <3>1, <3>2, <3>4
    <2> QED
      BY <1>0, <1>8, <2>3, <2>4, <2>5, <2>6 DEF TypeOK, RunnerStep, lockVars
  <1>9. ASSUME NEW t \in Threads, RunnerFails(t) PROVE TypeOK'
    BY <1>0, <1>9 DEF TypeOK, RunnerFails, dbVars, lockVars
  <1>10. ASSUME NEW t \in Threads, RunnerCompletes(t) PROVE TypeOK'
    BY <1>0, <1>10 DEF TypeOK, RunnerCompletes, dbVars, lockVars
  <1>11. ASSUME NEW t \in Threads, Validate(t) PROVE TypeOK'
    <2>1. verdict' \in [Threads -> Verdict]
      <3>1. \/ verdict' = verdict
            \/ verdict' = [verdict EXCEPT ![t] = [status |-> "SUCCESS", retryable |-> FALSE]]
        BY <1>11 DEF Validate
      <3>2. [status |-> "SUCCESS", retryable |-> FALSE] \in Verdict
        BY DEF Verdict
      <3> QED
        BY <1>0, <3>1, <3>2 DEF TypeOK
    <2>2. pc' \in [Threads -> PCs]
      BY <1>0, <1>11 DEF TypeOK, Validate
    <2> QED
      BY <1>0, <1>11, <2>1, <2>2 DEF TypeOK, Validate, dbVars, lockVars
  <1>12. ASSUME NEW t \in Threads, Classify(t) PROVE TypeOK'
    <2>1. verdict' \in [Threads -> Verdict]
      <3>1. PICK v \in BOOLEAN : verdict' = [verdict EXCEPT ![t] = [status |-> "FAILED", retryable |-> v]]
        BY <1>12 DEF Classify
      <3>2. [status |-> "FAILED", retryable |-> v] \in Verdict
        BY DEF Verdict
      <3> QED
        BY <1>0, <3>1, <3>2 DEF TypeOK
    <2>2. faults' \in 0..MaxFaults
      <3>1. faults \in 0..MaxFaults
        BY <1>0 DEF TypeOK
      <3>2. faults' = faults \/ (faults < MaxFaults /\ faults' = faults + 1)
        BY <1>12 DEF Classify
      <3> QED
        BY <3>1, <3>2
    <2> QED
      BY <1>0, <1>12, <2>1, <2>2 DEF TypeOK, Classify, dbVars, lockVars
  <1>13. ASSUME NEW t \in Threads, Record(t) PROVE TypeOK'
    <2>1. ctx[t] \in Context /\ verdict[t].status \in {"SUCCESS", "FAILED"}
      BY <1>0, <1>13 DEF Record, ContextInv, HasContext, VerdictInv
    <2>2. runs' \in [Sims -> Row]
      BY <1>0, <1>13, <2>1, UpsertType, VerdictFields DEF Record
    <2> QED
      BY <1>0, <1>13, <2>2 DEF TypeOK, Record, lockVars
  <1>14. ASSUME NEW t \in Threads, Release(t) PROVE TypeOK'
    BY <1>0, <1>14, NoVerdictType DEF TypeOK, Release, dbVars
  <1>15. ASSUME NEW t \in Threads, DatabaseFails(t) PROVE TypeOK'
    <2>1. faults' \in 0..MaxFaults
      <3>1. faults \in 0..MaxFaults
        BY <1>0 DEF TypeOK
      <3>2. faults < MaxFaults /\ faults' = faults + 1
        BY <1>15 DEF DatabaseFails
      <3> QED
        BY <3>1, <3>2
    <2> QED
      BY <1>0, <1>15, <2>1 DEF TypeOK, DatabaseFails, dbVars, lockVars
  <1>16. ASSUME NEW p \in Processes, Crash(p) PROVE TypeOK'
    <2>1. faults' \in 0..MaxFaults
      <3>1. faults \in 0..MaxFaults
        BY <1>0 DEF TypeOK
      <3>2. faults < MaxFaults /\ faults' = faults + 1
        BY <1>16 DEF Crash
      <3> QED
        BY <3>1, <3>2
    <2>2. procLock' \in [Processes -> Threads \cup {NoThread}] /\ advisory' \in Threads \cup {NoThread}
      BY <1>0, <1>16 DEF TypeOK, Crash
    <2>3. /\ pc' \in [Threads -> PCs]
          /\ req' \in [Threads -> Request \cup {NoContext}]
          /\ ctx' \in [Threads -> Context \cup {NoContext}]
          /\ step' \in [Threads -> Nat]
          /\ verdict' \in [Threads -> Verdict]
      BY <1>0, <1>16, NoVerdictType DEF TypeOK, Crash
    <2> QED
      BY <1>0, <1>16, <2>1, <2>2, <2>3 DEF TypeOK, Crash, dbVars
  <1>17. CASE UNCHANGED vars
    BY <1>0, <1>17 DEF TypeOK, vars
  <1> QED
    BY <1>1, <1>2, <1>3, <1>4, <1>5, <1>6, <1>7, <1>8, <1>9, <1>10, <1>11, <1>12,
       <1>13, <1>14, <1>15, <1>16, <1>17 DEF Next, Work

-----------------------------------------------------------------------------
\* A step of the lock's holder leaves the other threads where they are, and
\* none of them is between the lock's acquisition and its release.
LEMMA WorkFrame ==
  ASSUME IInv, NEW t \in Threads, Work(t) \/ DatabaseFails(t)
  PROVE  /\ pc[t] \in Locked
         /\ \A u \in Threads \ {t} : /\ pc'[u] = pc[u] /\ pc[u] \notin Locked
                                      /\ ctx'[u] = ctx[u] /\ step'[u] = step[u]
                                      /\ verdict'[u] = verdict[u] /\ req'[u] = req[u]
  <1>1. TypeOK /\ Serialised
    BY DEF IInv, LockInv
  <1>2. pc[t] \in Locked
    BY DEF Work, DatabaseFails, LookUp, ProbeRoot, Settle, Begin, RunnerStep, RunnerFails,
           RunnerCompletes, Validate, Classify, Record, Release, Locked
  <1>3. ASSUME NEW u \in Threads, u # t PROVE pc[u] \notin Locked
    BY <1>1, <1>2, <1>3 DEF Serialised, Holders
  <1>4. ASSUME NEW u \in Threads, u # t PROVE pc'[u] = pc[u]
    BY <1>1, <1>4 DEF TypeOK, Work, DatabaseFails, LookUp, ProbeRoot, Settle, Begin, RunnerStep,
           RunnerFails, RunnerCompletes, Validate, Classify, Record, Release
  <1>5. ASSUME NEW u \in Threads, u # t PROVE ctx'[u] = ctx[u] /\ req'[u] = req[u]
    BY <1>1, <1>5 DEF TypeOK, Work, DatabaseFails, LookUp, ProbeRoot, Settle, Begin, RunnerStep,
           RunnerFails, RunnerCompletes, Validate, Classify, Record, Release
  <1>6. ASSUME NEW u \in Threads, u # t PROVE step'[u] = step[u] /\ verdict'[u] = verdict[u]
    BY <1>1, <1>6 DEF TypeOK, Work, DatabaseFails, LookUp, ProbeRoot, Settle, Begin, RunnerStep,
           RunnerFails, RunnerCompletes, Validate, Classify, Record, Release
  <1> QED
    BY <1>2, <1>3, <1>4, <1>5, <1>6

\* The lock is respected by every step, and a busy thread has a request.
LEMMA LockStep == IInv /\ [Next]_vars => LockInv' /\ RequestInv'
  <1> SUFFICES ASSUME IInv, [Next]_vars PROVE LockInv' /\ RequestInv'
    OBVIOUS
  <1> USE ThreadAssumption, NoThreadAssumption DEF Locked, LockInv, Serialised, Holders, RequestInv
  <1>0. /\ TypeOK /\ LockInv /\ RequestInv
        /\ pc \in [Threads -> PCs] /\ procLock \in [Processes -> Threads \cup {NoThread}]
        /\ req \in [Threads -> Request \cup {NoContext}]
    BY DEF IInv, TypeOK
  <1>1. ASSUME NEW t \in Threads, Receive(t) PROVE LockInv' /\ RequestInv'
    BY <1>0, <1>1 DEF Receive, lockVars
  <1>2. ASSUME NEW t \in Threads, EnterProcessLock(t) PROVE LockInv' /\ RequestInv'
    BY <1>0, <1>2 DEF EnterProcessLock
  <1>3. ASSUME NEW t \in Threads, TakeAdvisoryLock(t) PROVE LockInv' /\ RequestInv'
    BY <1>0, <1>3 DEF TakeAdvisoryLock
  <1>4. ASSUME NEW t \in Threads, Release(t) PROVE LockInv' /\ RequestInv'
    <2>1. /\ pc[t] = "release" /\ pc' = [pc EXCEPT ![t] = "idle"]
          /\ req' = [req EXCEPT ![t] = NoContext]
          /\ procLock' = [procLock EXCEPT ![ProcOf[t]] = NoThread]
      BY <1>4 DEF Release
    <2>2. \A u \in Threads \ {t} : pc'[u] = pc[u] /\ pc[u] \notin Locked
      BY <1>4, WorkFrame DEF Work
    <2>3. RequestInv'
      BY <1>0, <2>1
    <2>4. \A u \in Threads : pc'[u] \notin Locked
      BY <1>0, <2>1, <2>2
    <2>5. ASSUME NEW u \in Threads, pc'[u] = "advisory lock" PROVE procLock'[ProcOf[u]] = u
      <3>1. u # t /\ procLock[ProcOf[u]] = u
        BY <1>0, <2>1, <2>2, <2>5
      <3>2. procLock[ProcOf[t]] = t
        BY <1>0, <2>1
      <3> QED
        BY <1>0, <2>1, <3>1, <3>2
    <2> QED
      BY <2>3, <2>4, <2>5
  <1>5. ASSUME NEW t \in Threads, Work(t) \/ DatabaseFails(t), ~Release(t)
        PROVE  LockInv' /\ RequestInv'
    <2>1. UNCHANGED <<procLock, advisory, req>>
      BY <1>5 DEF Work, DatabaseFails, LookUp, ProbeRoot, Settle, Begin, RunnerStep,
           RunnerFails, RunnerCompletes, Validate, Classify, Record, lockVars
    <2>2. pc[t] \in Locked /\ \A u \in Threads \ {t} : pc'[u] = pc[u]
      BY <1>5, WorkFrame
    <2> QED
      BY <1>0, <2>1, <2>2
  <1>6. ASSUME NEW p \in Processes, Crash(p) PROVE LockInv' /\ RequestInv'
    BY <1>0, <1>6 DEF Crash
  <1>7. CASE UNCHANGED vars
    BY <1>0, <1>7 DEF vars
  <1> QED
    BY <1>1, <1>2, <1>3, <1>4, <1>5, <1>6, <1>7 DEF Next, Work

-----------------------------------------------------------------------------
\* _persist touches one row and leaves its flow and correlation id alone.
LEMMA UpsertRow ==
  ASSUME TypeOK, NEW t \in Threads, ctx[t] \in Context, NEW status, NEW retryable,
         Upsert(t, status, retryable)
  PROVE  /\ ctx[t].sim \in Sims /\ ctx[t].flow \in Flows /\ ctx[t].corr \in Corrs
         /\ \A s \in Sims : s # ctx[t].sim => runs'[s] = runs[s]
         /\ runs'[ctx[t].sim].status = status
         /\ runs'[ctx[t].sim].retryable = retryable
         /\ runs[ctx[t].sim].status = "NONE" =>
              /\ runs'[ctx[t].sim].flow = ctx[t].flow
              /\ runs'[ctx[t].sim].corr = ctx[t].corr
         /\ runs[ctx[t].sim].status # "NONE" =>
              /\ runs'[ctx[t].sim].flow = runs[ctx[t].sim].flow
              /\ runs'[ctx[t].sim].corr = runs[ctx[t].sim].corr
  <1>1. ctx[t].sim \in Sims /\ ctx[t].flow \in Flows /\ ctx[t].corr \in Corrs
    BY DEF Context
  <1>2. DOMAIN runs = Sims
    BY DEF TypeOK
  <1> QED
    BY <1>1, <1>2 DEF Upsert

\* The part of the invariant about rows and contexts.
RunsInv == RowInv /\ ContextInv /\ StatusInv /\ VerdictInv /\ OneRunPerCorrelation

\* Writing the row a context names keeps one simulation per flow and correlation.
LEMMA RowsAgree ==
  ASSUME RunsInv, NEW t \in Threads, pc[t] \in HasContext,
         ctx[t].sim \in Sims, ctx[t].flow \in Flows, ctx[t].corr \in Corrs,
         \A s \in Sims : s # ctx[t].sim => runs'[s] = runs[s],
         runs'[ctx[t].sim].flow = ctx[t].flow, runs'[ctx[t].sim].corr = ctx[t].corr
  PROVE  RowInv' /\ OneRunPerCorrelation'
  <1> DEFINE m == ctx[t].sim
  <1>1. RowInv'
    BY DEF RunsInv, RowInv
  <1>2. ASSUME NEW s \in Sims, s # m, runs'[s].status # "NONE"
        PROVE  runs'[s].flow # runs'[m].flow \/ runs'[s].corr # runs'[m].corr
    <2>1. runs'[s] = runs[s]
      BY <1>2
    <2>2. runs[s].flow # ctx[t].flow \/ runs[s].corr # ctx[t].corr
      BY <1>2, <2>1 DEF RunsInv, ContextInv, OneRunPerCorrelation
    <2> QED
      BY <2>1, <2>2
  <1>3. ASSUME NEW s1 \in Sims, NEW s2 \in Sims, s1 # s2, s1 # m, s2 # m,
               runs'[s1].status # "NONE", runs'[s2].status # "NONE"
        PROVE  runs'[s1].flow # runs'[s2].flow \/ runs'[s1].corr # runs'[s2].corr
    BY <1>3 DEF RunsInv, OneRunPerCorrelation
  <1>4. OneRunPerCorrelation'
    BY <1>2, <1>3 DEF OneRunPerCorrelation
  <1> QED
    BY <1>1, <1>4

\* Every step keeps rows, contexts and verdicts in agreement.
LEMMA RunsStep == IInv /\ [Next]_vars => RunsInv'
  <1> SUFFICES ASSUME IInv, [Next]_vars PROVE RunsInv'
    OBVIOUS
  <1> USE DEF HasContext, Executing
  <1>0. TypeOK /\ RunsInv /\ RequestInv
    BY DEF IInv, RunsInv
  <1>t. /\ pc \in [Threads -> PCs] /\ verdict \in [Threads -> Verdict]
        /\ ctx \in [Threads -> Context \cup {NoContext}]
    BY <1>0 DEF TypeOK
  <1>1. ASSUME NEW t \in Threads, Receive(t) \/ EnterProcessLock(t) \/ TakeAdvisoryLock(t)
        PROVE  RunsInv'
    <2>1. UNCHANGED <<runs, ctx, verdict>>
      BY <1>1 DEF Receive, EnterProcessLock, TakeAdvisoryLock, dbVars
    <2>2. PICK l \in {"process lock", "advisory lock", "lookup"} : pc' = [pc EXCEPT ![t] = l]
      BY <1>1 DEF Receive, EnterProcessLock, TakeAdvisoryLock
    <2>3. \A u \in Threads : pc'[u] = pc[u] \/ pc'[u] \in {"process lock", "advisory lock", "lookup"}
      BY <1>t, <2>2
    <2>4. RowInv' /\ OneRunPerCorrelation'
      BY <1>0, <2>1 DEF RunsInv, RowInv, OneRunPerCorrelation
    <2>5. ContextInv'
      BY <1>0, <2>1, <2>3 DEF RunsInv, ContextInv
    <2>6. StatusInv' /\ VerdictInv'
      BY <1>0, <2>1, <2>3 DEF RunsInv, StatusInv, VerdictInv
    <2> QED
      BY <2>4, <2>5, <2>6 DEF RunsInv
  <1>2. ASSUME NEW p \in Processes, Crash(p) PROVE RunsInv'
    <2>1. UNCHANGED runs
      BY <1>2 DEF Crash, dbVars
    <2>2. ASSUME NEW u \in Threads
          PROVE  pc'[u] = "idle" \/ (pc'[u] = pc[u] /\ ctx'[u] = ctx[u] /\ verdict'[u] = verdict[u])
      <3>1. CASE ProcOf[u] = p
        BY <1>2, <3>1 DEF Crash
      <3>2. CASE ProcOf[u] # p
        <4>1. pc'[u] = pc[u]
          BY <1>2, <3>2 DEF Crash
        <4>2. ctx'[u] = ctx[u]
          BY <1>2, <3>2 DEF Crash
        <4>3. verdict'[u] = verdict[u]
          BY <1>2, <3>2 DEF Crash
        <4> QED
          BY <4>1, <4>2, <4>3
      <3> QED
        BY <3>1, <3>2
    <2> QED
      BY <1>0, <1>t, <2>1, <2>2
         DEF RunsInv, RowInv, ContextInv, StatusInv, VerdictInv, OneRunPerCorrelation
  <1>3. CASE UNCHANGED vars
    BY <1>0, <1>3 DEF vars, RunsInv, RowInv, ContextInv, StatusInv, VerdictInv, OneRunPerCorrelation
  <1>4. ASSUME NEW t \in Threads, Work(t) \/ DatabaseFails(t) PROVE RunsInv'
    <2>0. \A u \in Threads \ {t} : pc'[u] = pc[u] /\ pc'[u] \notin Locked
      BY <1>4, WorkFrame
    <2>1. SUFFICES /\ RowInv' /\ OneRunPerCorrelation'
                   /\ pc'[t] \in HasContext =>
                        /\ ctx'[t] \in Context
                        /\ runs'[ctx'[t].sim].status # "NONE" =>
                             /\ runs'[ctx'[t].sim].flow = ctx'[t].flow
                             /\ runs'[ctx'[t].sim].corr = ctx'[t].corr
                        /\ runs'[ctx'[t].sim].status = "NONE" =>
                             /\ pc'[t] \in {"probe", "begin"}
                             /\ \A s \in Sims : runs'[s].status # "NONE" =>
                                  runs'[s].flow # ctx'[t].flow \/ runs'[s].corr # ctx'[t].corr
                   /\ pc'[t] \in Executing => runs'[ctx'[t].sim].status = "RUNNING"
                   /\ pc'[t] \in {"probe", "settle", "begin"} =>
                        \/ runs'[ctx'[t].sim].status \in {"NONE", "RUNNING"}
                        \/ runs'[ctx'[t].sim].status = "FAILED" /\ runs'[ctx'[t].sim].retryable
                   /\ pc'[t] = "record" => \/ verdict'[t].status = "FAILED"
                                           \/ verdict'[t].status = "SUCCESS" /\ ~verdict'[t].retryable
      BY <2>0 DEF RunsInv, ContextInv, StatusInv, VerdictInv, Locked
    <2>2. CASE LookUp(t)
      <3>1. UNCHANGED <<runs, verdict>> /\ pc'[t] \in {"probe", "release"}
        BY <1>t, <2>2 DEF LookUp, dbVars
      <3>2. RowInv' /\ OneRunPerCorrelation'
        BY <1>0, <3>1 DEF RunsInv, RowInv, OneRunPerCorrelation
      <3>3. CASE pc'[t] = "probe"
        BY <1>0, <2>2, <3>1, <3>2, <3>3, LookUpContext DEF RunsInv
      <3> QED
        BY <3>1, <3>2, <3>3
    <2>3. CASE Settle(t) \/ Begin(t)
      <3>1. /\ pc[t] \in {"settle", "begin"} /\ UNCHANGED <<ctx, verdict>>
            /\ \/ pc[t] = "settle" /\ pc'[t] = "release" /\ Upsert(t, "FAILED", FALSE)
               \/ pc[t] = "begin" /\ pc'[t] = "running" /\ Upsert(t, "RUNNING", FALSE)
        BY <1>t, <2>3 DEF Settle, Begin
      <3>2. ctx[t] \in Context /\ pc[t] \in HasContext
        BY <1>0, <3>1 DEF RunsInv, ContextInv
      <3>3. /\ ctx[t].sim \in Sims /\ ctx[t].flow \in Flows /\ ctx[t].corr \in Corrs
            /\ \A s \in Sims : s # ctx[t].sim => runs'[s] = runs[s]
            /\ runs'[ctx[t].sim].status # "NONE"
            /\ pc'[t] = "running" => runs'[ctx[t].sim].status = "RUNNING"
            /\ runs'[ctx[t].sim].flow = ctx[t].flow /\ runs'[ctx[t].sim].corr = ctx[t].corr
        <4>1. PICK status \in {"FAILED", "RUNNING"} :
                Upsert(t, status, FALSE) /\ (pc'[t] = "running" => status = "RUNNING")
          BY <3>1
        <4>2. runs[ctx[t].sim].status # "NONE" =>
                runs[ctx[t].sim].flow = ctx[t].flow /\ runs[ctx[t].sim].corr = ctx[t].corr
          BY <1>0, <3>2 DEF RunsInv, ContextInv
        <4> QED
          BY <1>0, <3>2, <4>1, <4>2, UpsertRow
      <3>4. RowInv' /\ OneRunPerCorrelation'
        BY <1>0, <3>2, <3>3, RowsAgree
      <3> QED
        BY <3>1, <3>2, <3>3, <3>4
    <2>4. CASE Record(t)
      <3>1. /\ pc[t] = "record" /\ pc'[t] = "release" /\ UNCHANGED <<ctx, verdict>>
            /\ Upsert(t, verdict[t].status, verdict[t].retryable)
        BY <1>t, <2>4 DEF Record
      <3>2. ctx[t] \in Context /\ pc[t] \in HasContext /\ verdict[t].status # "NONE"
        BY <1>0, <3>1 DEF RunsInv, ContextInv, VerdictInv
      <3>3. /\ \A s \in Sims : s # ctx[t].sim => runs'[s] = runs[s]
            /\ ctx[t].sim \in Sims /\ ctx[t].flow \in Flows /\ ctx[t].corr \in Corrs
            /\ runs'[ctx[t].sim].status # "NONE"
            /\ runs'[ctx[t].sim].flow = ctx[t].flow /\ runs'[ctx[t].sim].corr = ctx[t].corr
        BY <1>0, <3>1, <3>2, UpsertRow DEF RunsInv, ContextInv
      <3>4. RowInv' /\ OneRunPerCorrelation'
        BY <1>0, <3>2, <3>3, RowsAgree
      <3> QED
        BY <3>1, <3>4
    <2>5. CASE ProbeRoot(t)
      <3>1. UNCHANGED <<runs, ctx, verdict>> /\ pc[t] = "probe"
        BY <2>5 DEF ProbeRoot, dbVars
      <3>2. \/ pc'[t] \in {"begin", "release"}
            \/ pc'[t] = "settle" /\ runs[ctx[t].sim].status # "NONE"
        BY <1>t, <2>5 DEF ProbeRoot
      <3> QED
        BY <1>0, <3>1, <3>2 DEF RunsInv, RowInv, ContextInv, StatusInv, OneRunPerCorrelation
    <2>6. CASE RunnerStep(t) \/ RunnerFails(t) \/ RunnerCompletes(t)
      <3>1. UNCHANGED <<runs, ctx, verdict>> /\ pc[t] = "running"
        BY <2>6 DEF RunnerStep, RunnerFails, RunnerCompletes, dbVars
      <3>2. pc'[t] \in {"running", "classify", "validate"}
        BY <1>t, <2>6 DEF RunnerStep, RunnerFails, RunnerCompletes
      <3> QED
        BY <1>0, <3>1, <3>2 DEF RunsInv, RowInv, ContextInv, StatusInv, OneRunPerCorrelation
    <2>7. CASE Validate(t) \/ Classify(t)
      <3>1. UNCHANGED <<runs, ctx>> /\ pc[t] \in {"validate", "classify"}
        BY <2>7 DEF Validate, Classify, dbVars
      <3>2. \/ pc'[t] = "classify"
            \/ /\ pc'[t] = "record"
               /\ \/ verdict'[t].status = "FAILED"
                  \/ verdict'[t].status = "SUCCESS" /\ ~verdict'[t].retryable
        BY <1>t, <2>7 DEF Validate, Classify
      <3> QED
        BY <1>0, <3>1, <3>2 DEF RunsInv, RowInv, ContextInv, StatusInv, OneRunPerCorrelation
    <2>8. CASE Release(t) \/ DatabaseFails(t)
      <3>1. UNCHANGED runs /\ pc'[t] \in {"idle", "release"}
        BY <1>t, <2>8 DEF Release, DatabaseFails, dbVars
      <3> QED
        BY <1>0, <3>1 DEF RunsInv, RowInv, OneRunPerCorrelation
    <2> QED
      BY <1>4, <2>2, <2>3, <2>4, <2>5, <2>6, <2>7, <2>8 DEF Work
  <1> QED
    BY <1>1, <1>2, <1>3, <1>4 DEF Next

-----------------------------------------------------------------------------
\* A probe that finds no root state means no runner of the flow inserted one.
LEMMA NoRoot ==
  ASSUME TypeOK, NEW f \in Flows, NEW c \in Corrs, ~RootExists(f, c)
  PROVE  rootRows[f][c] = 0
  <1>1. rootRows[f][c] \in Nat
    BY DEF TypeOK
  <1>2. ~(rootRows[f][c] > 0)
    BY DEF RootExists, Flows
  <1> QED
    BY <1>1, <1>2

\* The runner inserts a root row only as its first transaction, when none exists.
LEMMA RunnerRoot ==
  ASSUME IInv, NEW t \in Threads, RunnerStep(t)
  PROVE  /\ ctx[t].flow \in Flows /\ ctx[t].corr \in Corrs /\ ctx[t].sim \in Sims
         /\ \A f \in Flows, c \in Corrs :
              f # ctx[t].flow \/ c # ctx[t].corr => rootRows'[f][c] = rootRows[f][c]
         /\ rootRows'[ctx[t].flow][ctx[t].corr] <= 1
         /\ step'[t] \in Nat \ {0}
  <1> DEFINE f == ctx[t].flow
             c == ctx[t].corr
             e == Chain[f][step[t] + 1]
  <1>1. TypeOK /\ ContextInv /\ RootInv /\ pc[t] = "running" /\ step[t] \in Nat
    BY DEF IInv, RunnerStep, TypeOK
  <1>2. f \in Flows /\ c \in Corrs /\ ctx[t].sim \in Sims
    BY <1>1 DEF ContextInv, HasContext, Context
  <1>3. rootRows \in [Flows -> [Corrs -> Nat]] /\ step \in [Threads -> Nat]
    BY <1>1 DEF TypeOK
  <1>4. \/ e = RootStep[f] /\ rootRows' = [rootRows EXCEPT ![f][c] = @ + 1]
        \/ rootRows' = rootRows
    BY DEF RunnerStep
  <1>5. step[t] < Len(Chain[f]) /\ step' = [step EXCEPT ![t] = @ + 1]
    BY DEF RunnerStep
  <1>6. ASSUME e = RootStep[f] PROVE rootRows[f][c] = 0
    <2>1. step[t] = 0
      <3>1. Len(Chain[f]) \in Nat
        BY <1>2, ChainAssumption
      <3>2. RootStep[f] \in RootSteps
        BY <1>2 DEF RootSteps
      <3>3. \A i \in 2..Len(Chain[f]) : Chain[f][i] \notin RootSteps
        BY <1>2, ChainAssumption
      <3> HIDE DEF f
      <3> QED
        BY <1>1, <1>5, <1>6, <3>1, <3>2, <3>3
    <2> QED
      BY <1>1, <2>1 DEF RootInv
  <1>7. rootRows[f][c] <= 1
    BY <1>1, <1>2 DEF RootInv, OneRootAggregate
  <1>8. step'[t] \in Nat \ {0}
    BY <1>1, <1>3, <1>5
  <1> HIDE DEF f, c, e
  <1>9. \A g \in Flows, d \in Corrs : g # f \/ d # c => rootRows'[g][d] = rootRows[g][d]
    BY <1>2, <1>3, <1>4
  <1>10. rootRows'[f][c] <= 1
    BY <1>2, <1>3, <1>4, <1>6, <1>7
  <1> QED
    BY <1>2, <1>8, <1>9, <1>10 DEF f, c

\* Every step keeps root aggregates unique and retryable runs clean.
LEMMA RootPreserved == IInv /\ [Next]_vars => RootInv' /\ RetryableIsClean'
  <1> SUFFICES ASSUME IInv, [Next]_vars PROVE RootInv' /\ RetryableIsClean'
    OBVIOUS
  <1> USE DEF HasContext, Executing
  <1>0. TypeOK /\ RootInv /\ RetryableIsClean /\ ContextInv /\ StatusInv /\ OneRunPerCorrelation
    BY DEF IInv
  <1>t. /\ pc \in [Threads -> PCs] /\ step \in [Threads -> Nat]
        /\ ctx \in [Threads -> Context \cup {NoContext}] /\ verdict \in [Threads -> Verdict]
    BY <1>0 DEF TypeOK
  <1>1. ASSUME NEW t \in Threads, Receive(t) \/ EnterProcessLock(t) \/ TakeAdvisoryLock(t)
        PROVE  RootInv' /\ RetryableIsClean'
    <2>1. UNCHANGED <<runs, rootRows, ctx, step, verdict>>
      BY <1>1 DEF Receive, EnterProcessLock, TakeAdvisoryLock, dbVars
    <2>2. /\ pc[t] \in {"idle", "process lock", "advisory lock"}
          /\ \E l \in {"process lock", "advisory lock", "lookup"} : pc' = [pc EXCEPT ![t] = l]
      BY <1>1 DEF Receive, EnterProcessLock, TakeAdvisoryLock
    <2>3. \A u \in Threads :
            \/ pc'[u] = pc[u]
            \/ /\ pc[u] \in {"idle", "process lock", "advisory lock"}
               /\ pc'[u] \in {"process lock", "advisory lock", "lookup"}
      BY <1>t, <2>2
    <2>4. OneRootAggregate' /\ RetryableIsClean'
      BY <1>0, <2>1 DEF RootInv, OneRootAggregate, RetryableIsClean
    <2> QED
      BY <1>0, <2>1, <2>3, <2>4 DEF RootInv
  <1>2. ASSUME NEW p \in Processes, Crash(p) PROVE RootInv' /\ RetryableIsClean'
    <2>1. UNCHANGED <<runs, rootRows>>
      BY <1>2 DEF Crash, dbVars
    <2>2. ASSUME NEW u \in Threads
          PROVE  \/ pc'[u] = "idle" /\ step'[u] = 0
                 \/ /\ pc'[u] = pc[u] /\ ctx'[u] = ctx[u]
                    /\ verdict'[u] = verdict[u] /\ step'[u] = step[u]
      <3>1. CASE ProcOf[u] = p
        BY <1>2, <3>1 DEF Crash
      <3>2. CASE ProcOf[u] # p
        <4>1. pc'[u] = pc[u]
          BY <1>2, <3>2 DEF Crash
        <4>2. ctx'[u] = ctx[u]
          BY <1>2, <3>2 DEF Crash
        <4>3. verdict'[u] = verdict[u]
          BY <1>2, <3>2 DEF Crash
        <4>4. step'[u] = step[u]
          BY <1>2, <3>2 DEF Crash
        <4> QED
          BY <4>1, <4>2, <4>3, <4>4
      <3> QED
        BY <3>1, <3>2
    <2>3. OneRootAggregate' /\ RetryableIsClean'
      BY <1>0, <2>1 DEF RootInv, OneRootAggregate, RetryableIsClean
    <2>4. ASSUME NEW u \in Threads
          PROVE  /\ pc'[u] \in HasContext \ Executing => step'[u] = 0
                 /\ pc'[u] = "begin" => rootRows[ctx'[u].flow][ctx'[u].corr] = 0
                 /\ pc'[u] = "running" /\ step'[u] = 0 => rootRows[ctx'[u].flow][ctx'[u].corr] = 0
                 /\ pc'[u] = "record" /\ verdict'[u].retryable =>
                      rootRows[ctx'[u].flow][ctx'[u].corr] = 0
                 /\ pc'[u] \in {"process lock", "advisory lock", "lookup", "idle"} => step'[u] = 0
      <3>1. CASE pc'[u] = "idle" /\ step'[u] = 0
        BY <3>1
      <3>2. CASE /\ pc'[u] = pc[u] /\ ctx'[u] = ctx[u]
                 /\ verdict'[u] = verdict[u] /\ step'[u] = step[u]
        BY <1>0, <3>2 DEF RootInv
      <3> QED
        BY <2>2, <3>1, <3>2
    <2> QED
      BY <2>1, <2>3, <2>4 DEF RootInv
  <1>3. CASE UNCHANGED vars
    BY <1>0, <1>3 DEF vars, RootInv, OneRootAggregate, RetryableIsClean
  <1>4. ASSUME NEW t \in Threads, Work(t) \/ DatabaseFails(t)
        PROVE  RootInv' /\ RetryableIsClean'
    <2>0. /\ pc[t] \in Locked
          /\ \A u \in Threads \ {t} : /\ pc'[u] = pc[u] /\ pc'[u] \notin Locked
                                       /\ step'[u] = step[u]
      BY <1>4, WorkFrame
    <2>1. SUFFICES
            /\ OneRootAggregate' /\ RetryableIsClean'
            /\ pc'[t] \in {"probe", "settle", "begin", "lookup", "idle", "process lock", "advisory lock"}
                 => step'[t] = 0
            /\ \/ pc'[t] = "begin"
               \/ pc'[t] = "running" /\ step'[t] = 0
               \/ pc'[t] = "record" /\ verdict'[t].retryable
               => rootRows'[ctx'[t].flow][ctx'[t].corr] = 0
      BY <1>0, <2>0 DEF RootInv, Locked
    <2>2. CASE LookUp(t) \/ ProbeRoot(t) \/ RunnerFails(t) \/ RunnerCompletes(t)
                 \/ Validate(t) \/ Classify(t) \/ Release(t) \/ DatabaseFails(t)
      <3>1. UNCHANGED <<runs, rootRows>>
        BY <2>2 DEF LookUp, ProbeRoot, RunnerFails, RunnerCompletes, Validate, Classify,
             Release, DatabaseFails, dbVars
      <3>2. OneRootAggregate' /\ RetryableIsClean'
        BY <1>0, <3>1 DEF RootInv, OneRootAggregate, RetryableIsClean
      <3>3. CASE LookUp(t)
        BY <1>0, <1>t, <3>2, <3>3 DEF LookUp, RootInv
      <3>4. CASE ProbeRoot(t)
        <4>1. UNCHANGED <<rootRows, ctx, step, verdict>> /\ pc[t] = "probe"
          BY <3>4 DEF ProbeRoot, dbVars
        <4>2. \/ pc'[t] \in {"release", "settle"}
              \/ pc'[t] = "begin" /\ ~RootExists(ctx[t].flow, ctx[t].corr)
          BY <1>t, <3>4 DEF ProbeRoot
        <4>3. ctx[t].flow \in Flows /\ ctx[t].corr \in Corrs
          BY <1>0, <4>1 DEF ContextInv, Context
        <4>4. pc'[t] = "begin" => rootRows[ctx[t].flow][ctx[t].corr] = 0
          BY <1>0, <4>2, <4>3, NoRoot
        <4> QED
          BY <1>0, <3>2, <4>1, <4>2, <4>4 DEF RootInv
      <3>5. CASE Classify(t)
        <4>1. UNCHANGED <<rootRows, ctx, step>> /\ pc[t] = "classify" /\ pc'[t] = "record"
          BY <1>t, <3>5 DEF Classify, dbVars
        <4>2. verdict'[t].retryable => ~RootExists(ctx[t].flow, ctx[t].corr)
          <5> DEFINE clean == ~RootExists(ctx[t].flow, ctx[t].corr)
          <5>1. PICK failed \in BOOLEAN :
                  verdict' = [verdict EXCEPT ![t] = [status |-> "FAILED", retryable |-> ~failed /\ clean]]
            BY <3>5 DEF Classify
          <5> HIDE DEF clean
          <5>2. verdict'[t] = [status |-> "FAILED", retryable |-> ~failed /\ clean]
            BY <1>t, <5>1
          <5>3. verdict'[t].retryable = (~failed /\ clean)
            BY <5>2
          <5> QED
            BY <5>3 DEF clean
        <4>3. ctx[t].flow \in Flows /\ ctx[t].corr \in Corrs
          BY <1>0, <4>1 DEF ContextInv, Context
        <4> QED
          BY <1>0, <3>2, <4>1, <4>2, <4>3, NoRoot
      <3>6. CASE Validate(t)
        <4>1. \/ pc'[t] = "classify"
              \/ pc'[t] = "record" /\ ~verdict'[t].retryable
          BY <1>t, <3>6 DEF Validate
        <4> QED
          BY <3>2, <4>1
      <3>7. CASE RunnerFails(t) \/ RunnerCompletes(t) \/ Release(t) \/ DatabaseFails(t)
        <4>1. pc'[t] \in {"classify", "validate", "release"} \/ (pc'[t] = "idle" /\ step'[t] = 0)
          BY <1>t, <3>7 DEF RunnerFails, RunnerCompletes, Release, DatabaseFails
        <4> QED
          BY <3>2, <4>1
      <3> QED
        BY <2>2, <3>3, <3>4, <3>5, <3>6, <3>7
    <2>3. CASE RunnerStep(t)
      <3>1. UNCHANGED <<runs, ctx>> /\ pc'[t] = "running" /\ pc[t] = "running"
        BY <1>t, <2>3 DEF RunnerStep
      <3>2. runs[ctx[t].sim].status = "RUNNING" /\ runs[ctx[t].sim].flow = ctx[t].flow
              /\ runs[ctx[t].sim].corr = ctx[t].corr
        BY <1>0, <3>1 DEF ContextInv, StatusInv
      <3>3. OneRootAggregate'
        <4> DEFINE f == ctx[t].flow
                   c == ctx[t].corr
        <4>1. /\ \A g \in Flows, d \in Corrs :
                   g # f \/ d # c => rootRows'[g][d] = rootRows[g][d]
              /\ rootRows'[f][c] <= 1
          BY <2>3, RunnerRoot
        <4>2. \A g \in Flows, d \in Corrs : rootRows[g][d] <= 1
          BY <1>0 DEF RootInv, OneRootAggregate
        <4> HIDE DEF f, c
        <4>3. \A g \in Flows, d \in Corrs : rootRows'[g][d] <= 1
          BY <4>1, <4>2
        <4> QED
          BY <4>3 DEF OneRootAggregate
      <3>4. ASSUME NEW s \in Sims, runs[s].status = "FAILED", runs[s].retryable
            PROVE  rootRows'[runs[s].flow][runs[s].corr] = 0
        <4>1. rootRows[runs[s].flow][runs[s].corr] = 0
          BY <1>0, <3>4 DEF RetryableIsClean
        <4>2. runs[s].flow # ctx[t].flow \/ runs[s].corr # ctx[t].corr
          BY <1>0, <2>3, <3>2, <3>4, RunnerRoot DEF OneRunPerCorrelation
        <4>3. runs[s].flow \in Flows /\ runs[s].corr \in Corrs
          BY <3>4 DEF IInv, RowInv
        <4> QED
          BY <2>3, <4>1, <4>2, <4>3, RunnerRoot
      <3>5. RetryableIsClean'
        BY <3>1, <3>4 DEF RetryableIsClean
      <3> QED
        BY <2>3, <3>1, <3>3, <3>5, RunnerRoot
    <2>4. CASE Settle(t) \/ Begin(t) \/ Record(t)
      <3>1. /\ UNCHANGED <<rootRows, ctx, step, verdict>>
            /\ \E status, retryable :
                 /\ Upsert(t, status, retryable)
                 /\ \/ pc[t] = "settle" /\ pc'[t] = "release" /\ retryable = FALSE
                    \/ pc[t] = "begin" /\ pc'[t] = "running" /\ retryable = FALSE
                    \/ pc[t] = "record" /\ pc'[t] = "release" /\ retryable = verdict[t].retryable
        BY <1>t, <2>4 DEF Settle, Begin, Record
      <3>2. OneRootAggregate'
        BY <1>0, <3>1 DEF RootInv, OneRootAggregate
      <3>3. ctx[t] \in Context
        BY <1>0, <3>1 DEF ContextInv
      <3>4. /\ \A s \in Sims : s # ctx[t].sim => runs'[s] = runs[s]
            /\ ctx[t].sim \in Sims
            /\ runs'[ctx[t].sim].retryable => pc[t] = "record" /\ verdict[t].retryable
        BY <1>0, <3>1, <3>3, UpsertRow
      <3>5. runs'[ctx[t].sim].flow = ctx[t].flow /\ runs'[ctx[t].sim].corr = ctx[t].corr
        <4>1. pc[t] \in HasContext
          BY <3>1
        <4>2. runs[ctx[t].sim].status # "NONE" =>
                runs[ctx[t].sim].flow = ctx[t].flow /\ runs[ctx[t].sim].corr = ctx[t].corr
          BY <1>0, <4>1 DEF ContextInv
        <4> QED
          BY <1>0, <3>1, <3>3, <4>2, UpsertRow
      <3>6. RetryableIsClean'
        <4>1. ASSUME NEW s \in Sims, s # ctx[t].sim, runs'[s].status = "FAILED", runs'[s].retryable
              PROVE  rootRows[runs'[s].flow][runs'[s].corr] = 0
          BY <1>0, <3>4, <4>1 DEF RetryableIsClean
        <4>2. ASSUME runs'[ctx[t].sim].retryable
              PROVE  rootRows[ctx[t].flow][ctx[t].corr] = 0
          BY <1>0, <3>4, <4>2 DEF RootInv
        <4> QED
          BY <3>1, <3>5, <4>1, <4>2 DEF RetryableIsClean
      <3> QED
        BY <1>0, <3>1, <3>2, <3>6 DEF RootInv
    <2> QED
      BY <1>4, <2>2, <2>3, <2>4 DEF Work
  <1> QED
    BY <1>1, <1>2, <1>3, <1>4 DEF Next

-----------------------------------------------------------------------------
\* An empty database with idle threads satisfies the invariant.
LEMMA InitInv == Init => IInv
  <1> SUFFICES ASSUME Init PROVE IInv
    OBVIOUS
  <1>1. TypeOK
    <2>1. runs \in [Sims -> Row]
      BY DEF Init, NoRow, Row
    <2>2. /\ rootRows \in [Flows -> [Corrs -> Nat]] /\ shipments \in [Corrs -> Nat]
          /\ outbox \in [Corrs -> Seq(STRING)]
      BY DEF Init
    <2>3. /\ procLock \in [Processes -> Threads \cup {NoThread}]
          /\ advisory \in Threads \cup {NoThread}
          /\ pc \in [Threads -> PCs]
      BY DEF Init, PCs
    <2>4. /\ req \in [Threads -> Request \cup {NoContext}]
          /\ ctx \in [Threads -> Context \cup {NoContext}]
          /\ step \in [Threads -> Nat] /\ verdict \in [Threads -> Verdict]
      BY NoVerdictType DEF Init
    <2>5. faults \in 0..MaxFaults
      BY ThreadAssumption DEF Init
    <2> QED
      BY <2>1, <2>2, <2>3, <2>4, <2>5 DEF TypeOK
  <1>2. \A t \in Threads : pc[t] = "idle" /\ step[t] = 0
    BY DEF Init
  <1>3. \A s \in Sims : runs[s].status = "NONE"
    BY DEF Init, NoRow
  <1>4. OneRootAggregate
    BY DEF Init, OneRootAggregate
  <1> QED
    BY <1>1, <1>2, <1>3, <1>4
       DEF IInv, RequestInv, VerdictInv, LockInv, Serialised, Holders, Locked, RowInv, ContextInv,
           HasContext, Executing, StatusInv, RootInv, OneRunPerCorrelation, RetryableIsClean

\* The invariant is inductive.
LEMMA Inductive == IInv /\ [Next]_vars => IInv'
  BY TypeStep, LockStep, RunsStep, RootPreserved DEF IInv, RunsInv

\* Every reachable state satisfies the invariant.
LEMMA Invariance == Spec => []IInv
  BY InitInv, Inductive, PTL DEF Spec

-----------------------------------------------------------------------------
(* One shipment for a correlation id, and complete successes.               *)

\* An outbound run whose first transaction has committed owns the correlation id:
\* no transportation run starts after it, and its shipment is the chain's one.
ShipmentInv ==
  /\ OneShipment
  /\ \A c \in Corrs : shipments[c] > 0 => rootRows["outbound"][c] > 0
  /\ \A t \in Threads : pc[t] \in {"begin", "running"} =>
       /\ ctx[t].flow = "transportation" /\ step[t] = 0 => shipments[ctx[t].corr] = 0
       /\ ctx[t].flow = "outbound" =>
            /\ rootRows["transportation"][ctx[t].corr] = 0
            /\ step[t] = 0 => shipments[ctx[t].corr] = 0
            /\ step[t] > 0 => rootRows["outbound"][ctx[t].corr] > 0
            /\ shipments[ctx[t].corr] > 0 =>
                 \E i \in 1..step[t] : i <= Len(Chain["outbound"]) /\ Chain["outbound"][i] = "ShipmentReady"

\* What is about to be recorded as a SUCCESS is in the outbox, and nothing else.
OutcomeInv ==
  /\ SuccessIsComplete
  /\ \A t \in Threads : pc[t] = "record" /\ verdict[t].status = "SUCCESS" =>
       outbox[ctx[t].corr] = EventsOf(ctx[t].flow)

\* Requests, waiting and crashes touch no table, and no context that stays in use.
LEMMA OutsideFrame ==
  ASSUME IInv,
         \/ \E t \in Threads : Receive(t) \/ EnterProcessLock(t) \/ TakeAdvisoryLock(t)
         \/ \E p \in Processes : Crash(p)
         \/ UNCHANGED vars
  PROVE  /\ UNCHANGED <<runs, rootRows, shipments, outbox>>
         /\ \A u \in Threads : pc'[u] \in HasContext =>
              /\ pc'[u] = pc[u] /\ ctx'[u] = ctx[u] /\ step'[u] = step[u]
              /\ verdict'[u] = verdict[u]
  <1>0. pc \in [Threads -> PCs]
    BY DEF IInv, TypeOK
  <1>1. ASSUME NEW t \in Threads, Receive(t) \/ EnterProcessLock(t) \/ TakeAdvisoryLock(t)
        PROVE  /\ UNCHANGED <<runs, rootRows, shipments, outbox, ctx, step, verdict>>
               /\ \A u \in Threads : pc'[u] \in HasContext => pc'[u] = pc[u]
    BY <1>0, <1>1 DEF Receive, EnterProcessLock, TakeAdvisoryLock, dbVars, HasContext
  <1>2. ASSUME NEW p \in Processes, Crash(p)
        PROVE  /\ UNCHANGED <<runs, rootRows, shipments, outbox>>
               /\ \A u \in Threads : pc'[u] \in HasContext =>
                    /\ pc'[u] = pc[u] /\ ctx'[u] = ctx[u] /\ step'[u] = step[u]
                    /\ verdict'[u] = verdict[u]
    <2>1. UNCHANGED <<runs, rootRows, shipments, outbox>>
      BY <1>2 DEF Crash, dbVars
    <2>2. ASSUME NEW u \in Threads, pc'[u] \in HasContext
          PROVE  /\ pc'[u] = pc[u] /\ ctx'[u] = ctx[u] /\ step'[u] = step[u]
                 /\ verdict'[u] = verdict[u]
      <3>1. ProcOf[u] # p
        BY <1>2, <2>2 DEF Crash, HasContext
      <3>2. pc'[u] = pc[u] /\ ctx'[u] = ctx[u]
        BY <1>2, <3>1 DEF Crash
      <3>3. step'[u] = step[u] /\ verdict'[u] = verdict[u]
        BY <1>2, <3>1 DEF Crash
      <3> QED
        BY <3>2, <3>3
    <2> QED
      BY <2>1, <2>2
  <1> QED
    BY <1>1, <1>2 DEF vars

\* What a transaction of the runner does to the tables.
LEMMA RunnerTables ==
  ASSUME IInv, NEW t \in Threads, RunnerStep(t),
         NEW f \in Flows, NEW c \in Corrs, NEW k \in Nat, NEW e,
         f = ctx[t].flow, c = ctx[t].corr, k = step[t], e = Chain[f][k + 1]
  PROVE  /\ k < Len(Chain[f]) /\ step'[t] = k + 1
         /\ \A g \in Flows, d \in Corrs :
              rootRows'[g][d] = IF g = f /\ d = c /\ e = RootStep[f] THEN rootRows[g][d] + 1
                                ELSE rootRows[g][d]
         /\ \A d \in Corrs :
              shipments'[d] = IF d = c /\ e = "ShipmentReady" THEN shipments[d] + 1 ELSE shipments[d]
         /\ \A d \in Corrs : outbox'[d] = outbox[d] \/ outbox'[d] = Append(outbox[d], e)
         /\ e = RootStep[f] <=> k = 0
         /\ e \in STRING
  <1>1. TypeOK
    BY DEF IInv
  <1>2. k < Len(Chain[f]) /\ step' = [step EXCEPT ![t] = @ + 1] /\ e \in STRING
    BY <1>1, ChainAssumption DEF RunnerStep, TypeOK
  <1>3. step'[t] = k + 1
    BY <1>1, <1>2 DEF TypeOK
  <1>4. e = RootStep[f] <=> k = 0
    <2>1. k = 0 => e = RootStep[f]
      BY <1>2, ChainAssumption
    <2>2. k > 0 => e \notin RootSteps
      <3>1. k > 0 => k + 1 \in 2..Len(Chain[f])
        BY <1>2, ChainAssumption
      <3> QED
        BY <3>1, ChainAssumption
    <2> QED
      BY <2>1, <2>2 DEF RootSteps
  <1>5. rootRows' = IF e = RootStep[f] THEN [rootRows EXCEPT ![f][c] = @ + 1] ELSE rootRows
    BY DEF RunnerStep
  <1>6. shipments' = IF e = "ShipmentReady" THEN [shipments EXCEPT ![c] = @ + 1] ELSE shipments
    BY DEF RunnerStep
  <1>7. outbox' = IF e = "SeedShipment" THEN outbox ELSE [outbox EXCEPT ![c] = Append(@, e)]
    BY DEF RunnerStep
  <1>8. /\ rootRows \in [Flows -> [Corrs -> Nat]] /\ shipments \in [Corrs -> Nat]
        /\ outbox \in [Corrs -> Seq(STRING)]
    BY <1>1 DEF TypeOK
  <1>9. \A g \in Flows, d \in Corrs :
          rootRows'[g][d] = IF g = f /\ d = c /\ e = RootStep[f] THEN rootRows[g][d] + 1
                            ELSE rootRows[g][d]
    BY <1>5, <1>8
  <1>10. \A d \in Corrs :
          shipments'[d] = IF d = c /\ e = "ShipmentReady" THEN shipments[d] + 1 ELSE shipments[d]
    BY <1>6, <1>8
  <1>11. \A d \in Corrs : outbox'[d] = outbox[d] \/ outbox'[d] = Append(outbox[d], e)
    BY <1>7, <1>8
  <1> QED
    BY <1>2, <1>3, <1>4, <1>9, <1>10, <1>11

\* Every step keeps the shipments of a correlation id within bounds.
LEMMA ShipmentStep ==
  ASSUME IInv, ShipmentInv, [Next]_vars
  PROVE  ShipmentInv'
  <1> DEFINE Owns(u, x, n, root, ship) ==
        /\ x.flow = "transportation" /\ n = 0 => ship[x.corr] = 0
        /\ x.flow = "outbound" =>
             /\ root["transportation"][x.corr] = 0
             /\ n = 0 => ship[x.corr] = 0
             /\ n > 0 => root["outbound"][x.corr] > 0
             /\ ship[x.corr] > 0 =>
                  \E i \in 1..n : i <= Len(Chain["outbound"]) /\ Chain["outbound"][i] = "ShipmentReady"
  <1>0. /\ TypeOK /\ ContextInv /\ RootInv
        /\ \A u \in Threads : pc[u] \in {"begin", "running"} =>
             Owns(u, ctx[u], step[u], rootRows, shipments)
    BY DEF IInv, ShipmentInv
  <1>1. ASSUME \/ \E t \in Threads : Receive(t) \/ EnterProcessLock(t) \/ TakeAdvisoryLock(t)
               \/ \E p \in Processes : Crash(p)
               \/ UNCHANGED vars
        PROVE  ShipmentInv'
    <2>1. /\ UNCHANGED <<runs, rootRows, shipments, outbox>>
          /\ \A u \in Threads : pc'[u] \in {"begin", "running"} =>
               pc'[u] = pc[u] /\ ctx'[u] = ctx[u] /\ step'[u] = step[u]
      BY <1>1, OutsideFrame DEF HasContext
    <2>2. OneShipment' /\ \A c \in Corrs : shipments'[c] > 0 => rootRows'["outbound"][c] > 0
      BY <2>1 DEF ShipmentInv, OneShipment
    <2>3. \A u \in Threads : pc'[u] \in {"begin", "running"} =>
             Owns(u, ctx'[u], step'[u], rootRows', shipments')
      BY <1>0, <2>1
    <2> QED
      BY <2>2, <2>3 DEF ShipmentInv
  <1>2. ASSUME NEW t \in Threads, Work(t) \/ DatabaseFails(t), UNCHANGED <<rootRows, shipments>>
        PROVE  ShipmentInv'
    <2>1. \A u \in Threads \ {t} : pc'[u] \notin {"begin", "running"}
      BY <1>2, WorkFrame DEF Locked
    <2>2. OneShipment' /\ \A c \in Corrs : shipments'[c] > 0 => rootRows'["outbound"][c] > 0
      BY <1>2 DEF ShipmentInv, OneShipment
    <2>3. ASSUME pc'[t] \in {"begin", "running"}
          PROVE  Owns(t, ctx'[t], step'[t], rootRows, shipments)
      <3>1. \/ ProbeRoot(t) /\ pc'[t] = "begin"
            \/ Begin(t) \/ RunnerStep(t)
        BY <1>0, <1>2, <2>3 DEF TypeOK, Work, DatabaseFails, LookUp, ProbeRoot, Settle, RunnerFails,
           RunnerCompletes, Validate, Classify, Record, Release
      <3>2. CASE ProbeRoot(t) /\ pc'[t] = "begin"
        <4>1. PICK f \in Flows, c \in Corrs : f = ctx[t].flow /\ c = ctx[t].corr
          BY <1>0, <3>2 DEF ProbeRoot, ContextInv, HasContext, Context
        <4>2. ctx'[t] = ctx[t] /\ step'[t] = 0
          BY <1>0, <3>2 DEF ProbeRoot, RootInv, HasContext, Executing
        <4>3. ~RootExists(f, c)
          BY <1>0, <3>2, <4>1 DEF ProbeRoot, TypeOK
        <4>4. rootRows[f][c] = 0
          BY <1>0, <4>3, NoRoot
        <4>5. shipments[c] \in Nat /\ rootRows["transportation"][c] \in Nat
          BY <1>0 DEF TypeOK, Flows
        <4>6. f = "transportation" => shipments[c] = 0
          BY <4>3, <4>5 DEF RootExists
        <4>7. f = "outbound" => rootRows["transportation"][c] = 0 /\ shipments[c] = 0
          BY <4>3, <4>4, <4>5 DEF RootExists, ShipmentInv
        <4> QED
          BY <4>1, <4>2, <4>5, <4>6, <4>7
      <3>3. CASE Begin(t)
        BY <1>0, <3>3 DEF Begin
      <3>4. CASE RunnerStep(t)
        <4>0. PICK f \in Flows, c \in Corrs, k \in Nat :
                f = ctx[t].flow /\ c = ctx[t].corr /\ k = step[t]
          BY <1>0, <3>4 DEF RunnerStep, ContextInv, HasContext, Context, TypeOK
        <4>1. PICK e : f = ctx[t].flow /\ c = ctx[t].corr /\ k = step[t] /\ e = Chain[f][k + 1]
          BY <4>0
        <4>a. /\ step'[t] = k + 1
              /\ \A g \in Flows, d \in Corrs :
                   rootRows'[g][d] = IF g = f /\ d = c /\ e = RootStep[f] THEN rootRows[g][d] + 1
                                     ELSE rootRows[g][d]
              /\ e = RootStep[f] <=> k = 0
          BY <3>4, <4>1, RunnerTables
        <4>2. ctx'[t] = ctx[t] /\ step'[t] = k + 1 /\ pc[t] = "running"
          BY <3>4, <4>a DEF RunnerStep
        <4>3. k > 0
          <5>1. k = 0 => rootRows'[f][c] = rootRows[f][c] + 1
            BY <4>a
          <5>2. rootRows[f][c] \in Nat
            BY <1>0 DEF TypeOK
          <5> QED
            BY <1>2, <5>1, <5>2
        <4>4. Owns(t, ctx[t], k, rootRows, shipments)
          BY <1>0, <4>1, <4>2
        <4> QED
          BY <4>2, <4>3, <4>4
      <3> QED
        BY <3>1, <3>2, <3>3, <3>4
    <2> QED
      BY <1>2, <2>1, <2>2, <2>3 DEF ShipmentInv
  <1>3. ASSUME NEW t \in Threads, RunnerStep(t)
        PROVE  ShipmentInv'
    <2>0. PICK f \in Flows, c \in Corrs, k \in Nat :
            f = ctx[t].flow /\ c = ctx[t].corr /\ k = step[t]
      BY <1>0, <1>3 DEF RunnerStep, ContextInv, HasContext, Context, TypeOK
    <2>1. PICK e : f = ctx[t].flow /\ c = ctx[t].corr /\ k = step[t] /\ e = Chain[f][k + 1]
      BY <2>0
    <2>2. /\ k < Len(Chain[f]) /\ step'[t] = k + 1
          /\ \A g \in Flows, d \in Corrs :
               rootRows'[g][d] = IF g = f /\ d = c /\ e = RootStep[f] THEN rootRows[g][d] + 1
                                 ELSE rootRows[g][d]
          /\ \A d \in Corrs :
               shipments'[d] = IF d = c /\ e = "ShipmentReady" THEN shipments[d] + 1 ELSE shipments[d]
          /\ e = RootStep[f] <=> k = 0
      BY <1>3, <2>1, RunnerTables
    <2>3. ctx'[t] = ctx[t] /\ pc[t] = "running" /\ pc'[t] = "running"
      BY <1>3 DEF RunnerStep
    <2>4. \A u \in Threads \ {t} : pc'[u] \notin {"begin", "running"}
      BY <1>3, WorkFrame DEF Locked, Work
    <2>5. /\ \A g \in Flows, d \in Corrs : rootRows[g][d] \in Nat
          /\ \A d \in Corrs : shipments[d] \in Nat
      BY <1>0 DEF TypeOK
    <2>6. "outbound" \in Flows /\ "transportation" \in Flows
      BY DEF Flows
    <2>7. Owns(t, ctx[t], k, rootRows, shipments)
      BY <1>0, <2>1, <2>3
    <2>8. k = 0 => rootRows[f][c] = 0
      BY <1>0, <2>1, <2>3 DEF RootInv
    <2>9. e = "ShipmentReady" => f = "outbound" /\ k > 0 /\ shipments[c] = 0
      <3>1. Len(Chain[f]) \in Nat
        BY ChainAssumption
      <3>a. k + 1 \in 1..Len(Chain[f]) /\ Chain[f][k + 1] = e
        BY <2>1, <2>2, <3>1
      <3>2. e = "ShipmentReady" => f = "outbound"
        BY <3>a, ShipmentAssumption
      <3>3. e = "ShipmentReady" => k # 0
        BY <2>2, <3>2 DEF RootStep
      <3>4. ASSUME e = "ShipmentReady", shipments[c] > 0 PROVE FALSE
        <4>1. PICK i \in 1..k : i <= Len(Chain["outbound"]) /\ Chain["outbound"][i] = "ShipmentReady"
          BY <2>1, <2>7, <3>2, <3>4
        <4>2. i \in 1..Len(Chain[f]) /\ Chain[f][i] = "ShipmentReady"
          BY <3>1, <3>2, <3>4, <4>1
        <4>3. i = k + 1
          BY <3>4, <3>a, <4>2, ShipmentAssumption
        <4> QED
          BY <4>1, <4>3
      <3> QED
        BY <2>5, <3>2, <3>3, <3>4
    <2>10. \A d \in Corrs : shipments[d] > 0 => rootRows["outbound"][d] > 0
      BY DEF ShipmentInv
    <2>11. \A d \in Corrs : rootRows["transportation"][d] + shipments[d] <= 1
      BY DEF ShipmentInv, OneShipment
    <2>12. OneShipment'
      <3>1. ASSUME NEW d \in Corrs PROVE rootRows'["transportation"][d] + shipments'[d] <= 1
        <4>1. CASE d # c
          BY <2>2, <2>6, <2>11, <4>1
        <4>2. CASE d = c /\ f = "transportation"
          <5>1. shipments'[c] = shipments[c]
            BY <2>2, <2>9, <4>2
          <5>2. k = 0 => shipments[c] = 0
            BY <2>1, <2>7, <4>2
          <5>3. k = 0 => rootRows'[f][c] = 1 /\ shipments'[c] = 0
            BY <2>2, <2>8, <5>1, <5>2
          <5>4. k # 0 => rootRows'[f][c] = rootRows[f][c]
            BY <2>2
          <5> QED
            BY <2>11, <4>2, <5>1, <5>3, <5>4
        <4>3. CASE d = c /\ f = "outbound"
          <5>1. rootRows'["transportation"][c] = 0
            BY <2>1, <2>2, <2>6, <2>7, <4>3
          <5>2. shipments'[c] <= 1
            <6>1. rootRows["transportation"][c] = 0
              BY <2>1, <2>7, <4>3
            <6>2. shipments[c] <= 1
              BY <2>5, <2>11, <6>1
            <6> QED
              BY <2>2, <2>9, <6>2
          <5>3. shipments'[c] \in Nat
            BY <2>2, <2>5
          <5> QED
            BY <4>3, <5>1, <5>2, <5>3
        <4>4. CASE d = c /\ f = "inbound"
          BY <2>1, <2>2, <2>5, <2>6, <2>9, <2>11, <4>4
        <4> QED
          BY <4>1, <4>2, <4>3, <4>4 DEF Flows
      <3> QED
        BY <3>1 DEF OneShipment
    <2>13. \A d \in Corrs : shipments'[d] > 0 => rootRows'["outbound"][d] > 0
      <3>1. ASSUME NEW d \in Corrs, shipments'[d] > 0 PROVE rootRows'["outbound"][d] > 0
        <4>1. rootRows["outbound"][d] > 0
          <5>1. CASE shipments[d] > 0
            BY <2>10, <5>1
          <5>2. CASE d = c /\ e = "ShipmentReady"
            BY <2>1, <2>7, <2>9, <5>2
          <5> QED
            BY <2>2, <3>1, <5>1, <5>2
        <4> QED
          BY <2>2, <2>5, <2>6, <4>1
      <3> QED
        BY <3>1
    <2>14. Owns(t, ctx[t], k + 1, rootRows', shipments')
      <3>1. CASE f = "outbound"
        <4>1. rootRows'["transportation"][c] = 0
          BY <2>1, <2>2, <2>6, <2>7, <3>1
        <4>2. rootRows'["outbound"][c] > 0
          BY <2>1, <2>2, <2>5, <2>6, <2>7, <2>8, <3>1
        <4>3. ASSUME shipments'[c] > 0
              PROVE  \E i \in 1..(k + 1) :
                       i <= Len(Chain["outbound"]) /\ Chain["outbound"][i] = "ShipmentReady"
          <5>1. CASE e = "ShipmentReady"
            <6>1. k + 1 \in 1..(k + 1) /\ k + 1 <= Len(Chain["outbound"])
                    /\ Chain["outbound"][k + 1] = "ShipmentReady"
              BY <2>1, <2>2, <3>1, <5>1, ChainAssumption
            <6> QED
              BY <6>1
          <5>2. CASE e # "ShipmentReady"
            <6>1. PICK i \in 1..k : i <= Len(Chain["outbound"]) /\ Chain["outbound"][i] = "ShipmentReady"
              BY <2>1, <2>2, <2>7, <3>1, <4>3, <5>2
            <6>2. i \in 1..(k + 1)
              BY <6>1
            <6> QED
              BY <6>1, <6>2
          <5> QED
            BY <5>1, <5>2
        <4> QED
          BY <2>1, <3>1, <4>1, <4>2, <4>3
      <3>2. CASE f # "outbound"
        BY <2>1, <3>2
      <3> QED
        BY <3>1, <3>2
    <2> QED
      BY <2>2, <2>3, <2>4, <2>12, <2>13, <2>14 DEF ShipmentInv
  <1>4. ASSUME NEW t \in Threads, Work(t) \/ DatabaseFails(t), ~RunnerStep(t)
        PROVE  UNCHANGED <<rootRows, shipments>>
    BY <1>4 DEF Work, DatabaseFails, LookUp, ProbeRoot, Settle, Begin, RunnerFails,
       RunnerCompletes, Validate, Classify, Record, Release, dbVars
  <1> QED
    BY <1>1, <1>2, <1>3, <1>4 DEF Next

\* Every step keeps what was recorded as a SUCCESS at the head of its outbox.
LEMMA OutcomeStep ==
  ASSUME IInv, OutcomeInv, [Next]_vars
  PROVE  OutcomeInv'
  <1> DEFINE Complete(f, row) ==
        LET evts == EventsOf(f)
        IN  Len(evts) <= Len(row) /\ \A i \in 1..Len(evts) : row[i] = evts[i]
  <1>0. /\ TypeOK /\ ContextInv /\ StatusInv /\ RowInv
        /\ \A s \in Sims : runs[s].status = "SUCCESS" => Complete(runs[s].flow, outbox[runs[s].corr])
        /\ \A u \in Threads : pc[u] = "record" /\ verdict[u].status = "SUCCESS" =>
             outbox[ctx[u].corr] = EventsOf(ctx[u].flow)
    BY DEF IInv, OutcomeInv, SuccessIsComplete
  <1>1. ASSUME \/ \E t \in Threads : Receive(t) \/ EnterProcessLock(t) \/ TakeAdvisoryLock(t)
               \/ \E p \in Processes : Crash(p)
               \/ UNCHANGED vars
        PROVE  OutcomeInv'
    <2>1. /\ UNCHANGED <<runs, rootRows, shipments, outbox>>
          /\ \A u \in Threads : pc'[u] = "record" =>
               pc'[u] = pc[u] /\ ctx'[u] = ctx[u] /\ verdict'[u] = verdict[u]
      BY <1>1, OutsideFrame DEF HasContext
    <2> HIDE DEF Complete
    <2>2. \A s \in Sims : runs'[s].status = "SUCCESS" => Complete(runs'[s].flow, outbox'[runs'[s].corr])
      BY <1>0, <2>1
    <2>3. \A u \in Threads : pc'[u] = "record" /\ verdict'[u].status = "SUCCESS" =>
             outbox'[ctx'[u].corr] = EventsOf(ctx'[u].flow)
      BY <1>0, <2>1
    <2> USE DEF Complete
    <2> QED
      BY <2>2, <2>3 DEF OutcomeInv, SuccessIsComplete
  <1>2. ASSUME NEW t \in Threads, Work(t) \/ DatabaseFails(t), UNCHANGED <<runs, outbox>>
        PROVE  OutcomeInv'
    <2>1. \A u \in Threads \ {t} : pc'[u] # "record"
      BY <1>2, WorkFrame DEF Locked
    <2>2. SuccessIsComplete'
      BY <1>0, <1>2 DEF SuccessIsComplete
    <2>3. ASSUME pc'[t] = "record", verdict'[t].status = "SUCCESS"
          PROVE  outbox'[ctx'[t].corr] = EventsOf(ctx'[t].flow)
      <3>1. Validate(t) \/ Classify(t)
        BY <1>0, <1>2, <2>3 DEF TypeOK, Work, DatabaseFails, LookUp, ProbeRoot, Settle, Begin,
           RunnerStep, RunnerFails, RunnerCompletes, Record, Release
      <3>2. ctx' = ctx
        BY <3>1 DEF Validate, Classify
      <3>3. CASE Validate(t)
        <4>1. outbox[ctx[t].corr] = EventsOf(ctx[t].flow)
          BY <1>0, <2>3, <3>3 DEF Validate, TypeOK
        <4> QED
          BY <1>2, <3>2, <4>1
      <3>4. CASE Classify(t)
        <4>1. PICK v \in BOOLEAN : verdict' = [verdict EXCEPT ![t] = [status |-> "FAILED", retryable |-> v]]
          BY <3>4 DEF Classify
        <4>2. verdict'[t].status = "FAILED"
          BY <1>0, <4>1 DEF TypeOK
        <4> QED
          BY <2>3, <4>2
      <3> QED
        BY <3>1, <3>3, <3>4
    <2> QED
      BY <2>1, <2>2, <2>3 DEF OutcomeInv
  <1>3. ASSUME NEW t \in Threads, RunnerStep(t)
        PROVE  OutcomeInv'
    <2>0. PICK f \in Flows, c \in Corrs, k \in Nat :
            f = ctx[t].flow /\ c = ctx[t].corr /\ k = step[t]
      BY <1>0, <1>3 DEF RunnerStep, ContextInv, HasContext, Context, TypeOK
    <2>1. PICK e : f = ctx[t].flow /\ c = ctx[t].corr /\ k = step[t] /\ e = Chain[f][k + 1]
      BY <2>0
    <2>2. \A d \in Corrs : outbox'[d] = outbox[d] \/ outbox'[d] = Append(outbox[d], e)
      BY <1>3, <2>1, RunnerTables
    <2>3. e \in STRING
      BY <1>3, <2>1, RunnerTables
    <2>4. UNCHANGED runs /\ \A u \in Threads : pc'[u] # "record"
      <3>1. UNCHANGED runs /\ UNCHANGED pc /\ pc[t] = "running"
        BY <1>3 DEF RunnerStep
      <3>2. \A u \in Threads \ {t} : pc'[u] # "record"
        BY <1>3, WorkFrame DEF Locked, Work
      <3> QED
        BY <3>1, <3>2
    <2>5. ASSUME NEW s \in Sims, runs[s].status = "SUCCESS"
          PROVE  Complete(runs[s].flow, outbox'[runs[s].corr])
      <3>1. runs[s].corr \in Corrs
        BY <1>0, <2>5 DEF RowInv
      <3>2. PICK row, new : row = outbox[runs[s].corr] /\ new = outbox'[runs[s].corr]
        OBVIOUS
      <3>3. row \in Seq(STRING) /\ (new = row \/ new = Append(row, e))
        BY <1>0, <2>2, <3>1, <3>2 DEF TypeOK
      <3>4. Len(new) \in Nat /\ Len(row) <= Len(new) /\ \A i \in 1..Len(row) : new[i] = row[i]
        <4>1. CASE new = row
          BY <3>3, <4>1
        <4>2. CASE new = Append(row, e)
          <5>1. row \in Seq(STRING)
            BY <3>3
          <5> QED
            BY <2>3, <4>2, <5>1
        <4> QED
          BY <3>3, <4>1, <4>2
      <3>5. PICK n, evts : evts = EventsOf(runs[s].flow) /\ n = Len(evts)
        OBVIOUS
      <3>6. n <= Len(row) /\ \A i \in 1..n : row[i] = evts[i]
        BY <1>0, <2>5, <3>2, <3>5
      <3>7. n \in Nat
        <4>1. runs[s].flow \in Flows
          BY <1>0, <2>5 DEF RowInv
        <4> QED
          BY <3>5, <4>1, ChainAssumption DEF EventsOf
      <3>8. n <= Len(new) /\ \A i \in 1..n : new[i] = evts[i]
        BY <3>3, <3>4, <3>6, <3>7
      <3> QED
        BY <3>2, <3>5, <3>8
    <2> QED
      BY <2>4, <2>5 DEF OutcomeInv, SuccessIsComplete
  <1>4. ASSUME NEW t \in Threads, Settle(t) \/ Begin(t) \/ Record(t)
        PROVE  OutcomeInv'
    <2>1. \A u \in Threads : pc'[u] # "record"
      <3>1. \A u \in Threads \ {t} : pc'[u] # "record"
        BY <1>4, WorkFrame DEF Locked, Work
      <3>2. pc'[t] # "record"
        BY <1>0, <1>4 DEF TypeOK, Settle, Begin, Record
      <3> QED
        BY <3>1, <3>2
    <2>2. PICK status, retryable :
            /\ Upsert(t, status, retryable)
            /\ \/ pc[t] \in {"settle", "begin"} /\ status \in {"FAILED", "RUNNING"}
               \/ pc[t] = "record" /\ status = verdict[t].status
      BY <1>4 DEF Settle, Begin, Record
    <2>3. ctx[t] \in Context
      BY <1>0, <2>2 DEF ContextInv, HasContext
    <2>4. /\ ctx[t].sim \in Sims
          /\ \A s \in Sims : s # ctx[t].sim => runs'[s] = runs[s]
          /\ runs'[ctx[t].sim].status = status
          /\ runs[ctx[t].sim].status = "NONE" =>
               /\ runs'[ctx[t].sim].flow = ctx[t].flow
               /\ runs'[ctx[t].sim].corr = ctx[t].corr
          /\ runs[ctx[t].sim].status # "NONE" =>
               /\ runs'[ctx[t].sim].flow = runs[ctx[t].sim].flow
               /\ runs'[ctx[t].sim].corr = runs[ctx[t].sim].corr
      BY <1>0, <2>2, <2>3, UpsertRow
    <2>5. outbox' = outbox
      BY <1>4 DEF Settle, Begin, Record
    <2>6. ASSUME status = "SUCCESS"
          PROVE  /\ runs'[ctx[t].sim].flow = ctx[t].flow
                 /\ runs'[ctx[t].sim].corr = ctx[t].corr
                 /\ outbox[ctx[t].corr] = EventsOf(ctx[t].flow)
      <3>1. pc[t] = "record" /\ verdict[t].status = "SUCCESS"
        BY <2>2, <2>6
      <3>2. runs[ctx[t].sim].status # "NONE" =>
              runs[ctx[t].sim].flow = ctx[t].flow /\ runs[ctx[t].sim].corr = ctx[t].corr
        BY <1>0, <3>1 DEF ContextInv, HasContext
      <3> QED
        BY <1>0, <2>4, <3>1, <3>2
    <2>7. ASSUME NEW s \in Sims, runs'[s].status = "SUCCESS"
          PROVE  Complete(runs'[s].flow, outbox'[runs'[s].corr])
      <3>1. CASE s = ctx[t].sim
        <4>1. PICK evts : evts = EventsOf(ctx[t].flow)
          OBVIOUS
        <4>2. ctx[t].flow \in Flows
          BY <2>3 DEF Context
        <4>3. Len(evts) \in Nat
          BY <4>1, <4>2, ChainAssumption DEF EventsOf
        <4> QED
          BY <2>4, <2>5, <2>6, <2>7, <3>1, <4>1, <4>3
      <3>2. CASE s # ctx[t].sim
        <4> HIDE DEF Complete
        <4> QED
          BY <1>0, <2>4, <2>5, <2>7, <3>2
      <3> QED
        BY <3>1, <3>2
    <2> QED
      BY <2>1, <2>7 DEF OutcomeInv, SuccessIsComplete
  <1>5. ASSUME NEW t \in Threads, Work(t) \/ DatabaseFails(t),
               ~RunnerStep(t), ~Settle(t), ~Begin(t), ~Record(t)
        PROVE  UNCHANGED <<runs, outbox>>
    BY <1>5 DEF Work, DatabaseFails, LookUp, ProbeRoot, RunnerFails,
       RunnerCompletes, Validate, Classify, Release, dbVars
  <1> QED
    BY <1>1, <1>2, <1>3, <1>4, <1>5 DEF Next

\* The empty database satisfies both.
LEMMA InitOutcome == Init => ShipmentInv /\ OutcomeInv
  <1> SUFFICES ASSUME Init PROVE ShipmentInv /\ OutcomeInv
    OBVIOUS
  <1>1. \A t \in Threads : pc[t] = "idle"
    BY DEF Init
  <1>2. \A c \in Corrs : shipments[c] = 0 /\ rootRows["transportation"][c] = 0
    BY DEF Init, Flows
  <1>3. \A s \in Sims : runs[s].status = "NONE"
    BY DEF Init, NoRow
  <1> QED
    BY <1>1, <1>2, <1>3 DEF ShipmentInv, OneShipment, OutcomeInv, SuccessIsComplete

-----------------------------------------------------------------------------
\* Every variable keeps its type, and with it simulation_runs its CHECK constraint.
THEOREM TypeCorrect == Spec => []TypeOK
  BY Invariance, PTL DEF IInv

\* The nested locks serialise executions across threads and processes, whatever
\* dies while holding them.
THEOREM ExecutionsAreSerialised == Spec => []Serialised
  BY Invariance, PTL DEF IInv, LockInv

\* No history of retries, races, failures and crashes makes a flow create a
\* second root aggregate for a correlation id.
THEOREM RootsAreUnique == Spec => []OneRootAggregate
  BY Invariance, PTL DEF IInv, RootInv

\* A run the service offers for retry has no root aggregate of its flow.
THEOREM RetriesAreClean == Spec => []RetryableIsClean
  BY Invariance, PTL DEF IInv

\* simulation_runs never holds two runs of a flow for one correlation id.
THEOREM RunsAreUnique == Spec => []OneRunPerCorrelation
  BY Invariance, PTL DEF IInv

\* Outbound and transportation runs that share a correlation id create at most
\* one shipment for it between them, in whatever order they come.
THEOREM ShipmentsAreUnique == Spec => []OneShipment
  <1>1. IInv /\ ShipmentInv /\ [Next]_vars => ShipmentInv'
    BY ShipmentStep
  <1>2. ShipmentInv => OneShipment
    BY DEF ShipmentInv
  <1> QED
    BY <1>1, <1>2, InitOutcome, Invariance, PTL DEF Spec

\* A run recorded as SUCCESS has its whole chain at the head of the outbox of
\* its correlation id, and no later run disturbs it.
THEOREM SuccessesAreComplete == Spec => []SuccessIsComplete
  <1>1. IInv /\ OutcomeInv /\ [Next]_vars => OutcomeInv'
    BY OutcomeStep
  <1>2. OutcomeInv => SuccessIsComplete
    BY DEF OutcomeInv
  <1> QED
    BY <1>1, <1>2, InitOutcome, Invariance, PTL DEF Spec

\* A recorded final outcome is never rewritten, and a row never changes the
\* flow or correlation id it stands for.
THEOREM OutcomesAreFinal == Spec => FinalIsFinal
  <1> DEFINE Kept ==
        \A s \in Sims :
          /\ runs[s].status = "SUCCESS" \/ (runs[s].status = "FAILED" /\ ~runs[s].retryable)
               => runs'[s] = runs[s]
          /\ runs[s].status # "NONE" => /\ runs'[s].status # "NONE"
                                        /\ runs'[s].flow = runs[s].flow
                                        /\ runs'[s].corr = runs[s].corr
  <1>1. ASSUME IInv, [Next]_vars PROVE Kept
    <2>1. CASE UNCHANGED runs
      BY <2>1
    <2>2. ASSUME NEW t \in Threads, Settle(t) \/ Begin(t) \/ Record(t) PROVE Kept
      <3>1. /\ TypeOK /\ ContextInv /\ StatusInv /\ VerdictInv
        BY <1>1 DEF IInv
      <3>2. \E status, retryable :
              /\ Upsert(t, status, retryable)
              /\ \/ pc[t] \in {"settle", "begin"} /\ status \in {"FAILED", "RUNNING"}
                 \/ pc[t] = "record" /\ status = verdict[t].status
        BY <2>2 DEF Settle, Begin, Record
      <3>3. PICK status, retryable : Upsert(t, status, retryable) /\ status # "NONE"
        BY <3>1, <3>2 DEF VerdictInv
      <3>4. ctx[t] \in Context
        BY <3>1, <3>2 DEF ContextInv, HasContext
      <3>5. /\ runs[ctx[t].sim].status # "SUCCESS"
            /\ ~(runs[ctx[t].sim].status = "FAILED" /\ ~runs[ctx[t].sim].retryable)
        BY <3>1, <3>2 DEF StatusInv, Executing
      <3> QED
        BY <3>1, <3>3, <3>4, <3>5, UpsertRow
    <2>3. CASE Next /\ ~UNCHANGED runs
      <3>1. \E u \in Threads : Settle(u) \/ Begin(u) \/ Record(u)
        BY <2>3 DEF Next, Work, Receive, EnterProcessLock, TakeAdvisoryLock, LookUp, ProbeRoot,
           RunnerStep, RunnerFails, RunnerCompletes, Validate, Classify, Release, DatabaseFails,
           Crash, dbVars
      <3> QED
        BY <2>2, <3>1
    <2> QED
      BY <1>1, <2>1, <2>3 DEF vars
  <1>2. IInv /\ [Next]_vars => [Kept]_vars
    BY <1>1
  <1> QED
    BY <1>2, Invariance, PTL DEF Spec, FinalIsFinal
=============================================================================

---------------------- MODULE SimulationManager_proofs ----------------------
(***************************************************************************)
(* Proofs about SimulationManager, for any runs, threads, horizon and      *)
(* number of cycles: a run never has two threads and its flag tells the    *)
(* truth, cycles are serialised by the execution lock, and the clock of a  *)
(* run is never behind its checkpoint.                                     *)
(***************************************************************************)
EXTENDS SimulationManager, FiniteSetTheorems, TLAPS

\* worker_active and the threads agree: a thread works for a run that says it
\* has one, such a run has a thread, and two threads never share a run.
ThreadInv ==
  /\ \A w \in Workers : worker[w].pc # "off" =>
       worker[w].sim \in Sims /\ rec[worker[w].sim].active
  /\ \A s \in Sims : rec[s].active =>
       \E w \in Workers : worker[w].pc # "off" /\ worker[w].sim = s
  /\ \A v, w \in Workers :
       worker[v].pc # "off" /\ worker[w].pc # "off" /\ worker[v].sim = worker[w].sim => v = w

\* A run exists in memory exactly when it has a report, and before it exists it
\* has neither a thread nor a checkpoint.
FilesInv ==
  \A s \in Sims :
    /\ rec[s].status = "NONE" <=> report[s].status = "NONE"
    /\ rec[s].status = "NONE" => checkpoint[s] = NoTime /\ ~rec[s].active

IInv == TypeOK /\ ThreadInv /\ CyclesAreSerialised /\ FilesInv /\ CheckpointNotAhead

-----------------------------------------------------------------------------
(* Lemmas.                                                                  *)

\* The fields of a record, a report and a thread, as later leaves need them.
LEMMA Fields ==
  ASSUME TypeOK
  PROVE  /\ \A s \in Sims :
              /\ rec[s] \in Record
              /\ rec[s].status \in Statuses /\ rec[s].pause \in BOOLEAN
              /\ rec[s].active \in BOOLEAN /\ rec[s].time \in Times
              /\ rec[s].duration \in Durations \cup {NoDuration}
              /\ report[s].status \in Statuses /\ report[s].pause \in BOOLEAN
              /\ report[s].time \in Times
              /\ checkpoint[s] \in Times \cup {NoTime}
         /\ \A w \in Workers :
              worker[w].pc \in PCs /\ worker[w].sim \in Sims \cup {NoSim}
                /\ worker[w].left \in 0..MaxCycles
  BY DEF TypeOK, Record

\* A report written from a record has the type of a report.
LEMMA WrittenType ==
  ASSUME TypeOK, NEW s \in Sims, NEW r \in Record
  PROVE  Written(s, r) \in [Sims -> [status : Statuses, pause : BOOLEAN, time : Times]]
  BY DEF TypeOK, Written, Record

\* A step that starts no thread, ends none and leaves every flag as it was.
LEMMA SameThreads ==
  ASSUME ThreadInv,
         \A w \in Workers : (worker'[w].pc = "off") = (worker[w].pc = "off")
                            /\ worker'[w].sim = worker[w].sim,
         \A s \in Sims : rec'[s].active = rec[s].active
  PROVE  ThreadInv'
  BY DEF ThreadInv

\* Thread w moves to program point l, where it still works for its run; what is
\* left of its loop may change.
Moves(w, l) ==
  /\ worker' \in [Workers -> [pc : PCs, sim : Sims \cup {NoSim}, left : 0..MaxCycles]]
  /\ l # "off" /\ worker[w].pc # "off"
  /\ worker'[w].pc = l /\ worker'[w].sim = worker[w].sim
  /\ \A v \in Workers \ {w} : worker'[v] = worker[v]

LEMMA GotoMoves ==
  ASSUME TypeOK, NEW w \in Workers, NEW l \in PCs \ {"off"}, worker[w].pc # "off", Goto(w, l)
  PROVE  Moves(w, l)
  BY DEF TypeOK, Goto, Moves

\* The clock of a run never leaves the modelled times.
LEMMA ClockType ==
  ASSUME NEW a \in Times, NEW b \in Times, NEW d \in Nat
  PROVE  /\ MaxOf(a, b) \in Times /\ MaxOf(a, b) >= a
         /\ MaxOf(a, MinOf(b, a + d)) \in Times /\ MaxOf(a, MinOf(b, a + d)) >= a
  BY TimeAssumption DEF Times, MaxOf, MinOf

\* No record is created or removed, no flag changes and no clock goes back.
RecordsMove ==
  /\ rec' \in [Sims -> Record]
  /\ \A s \in Sims :
       /\ rec'[s].active = rec[s].active
       /\ rec'[s].status = "NONE" <=> rec[s].status = "NONE"
       /\ rec'[s].time >= rec[s].time

LEMMA SameRecords ==
  ASSUME TypeOK, rec' = rec
  PROVE  RecordsMove
  BY Fields, TimeAssumption DEF TypeOK, RecordsMove, Times

LEMMA StatusStep ==
  ASSUME TypeOK, NEW s \in Sims, rec[s].status # "NONE",
         NEW status \in Statuses \ {"NONE"}, rec' = [rec EXCEPT ![s].status = status]
  PROVE  RecordsMove
  BY Fields, TimeAssumption DEF TypeOK, RecordsMove, Times, Record

LEMMA ClockStep ==
  ASSUME TypeOK, NEW s \in Sims, NEW t \in Times, t >= rec[s].time,
         rec' = [rec EXCEPT ![s].time = t]
  PROVE  RecordsMove
  BY Fields, TimeAssumption DEF TypeOK, RecordsMove, Times, Record

\* What most steps of a thread do: it moves to another point, its run's status
\* is perhaps set (never to NONE) or its clock moved ahead, and the files are
\* left alone but for a checkpoint at the run's clock.
LEMMA ThreadStep ==
  ASSUME IInv, NEW w \in Workers, NEW l, Moves(w, l),
         l \in Inside => holder' = w,
         \A v \in Workers \ {w} : worker[v].pc \in Inside => holder' = holder,
         holder' \in Workers \cup {Free, Other},
         RecordsMove,
         UNCHANGED report,
         checkpoint' \in {checkpoint, [checkpoint EXCEPT ![worker[w].sim] = rec[worker[w].sim].time]}
  PROVE  IInv'
  <1> DEFINE s == worker[w].sim
  <1>1. s \in Sims /\ rec[s].active /\ rec[s].status # "NONE"
    BY DEF IInv, ThreadInv, FilesInv, Moves
  <1>2. TypeOK'
    BY <1>1, Fields DEF IInv, TypeOK, Moves, RecordsMove
  <1>3. ThreadInv'
    BY SameThreads DEF IInv, Moves, RecordsMove
  <1>4. CyclesAreSerialised'
    BY DEF IInv, CyclesAreSerialised, Moves
  <1>5. FilesInv'
    BY <1>1, Fields DEF IInv, FilesInv, TypeOK, RecordsMove
  <1>6. CheckpointNotAhead'
    <2> SUFFICES ASSUME NEW t \in Sims, checkpoint'[t] # NoTime, rec'[t].status # "NONE"
                 PROVE  checkpoint'[t] <= rec'[t].time
      BY DEF CheckpointNotAhead
    <2>1. rec[t].time \in Nat /\ rec'[t].time \in Nat /\ rec'[t].time >= rec[t].time
      BY TimeAssumption, Fields DEF IInv, Record, Times, RecordsMove
    <2>2. CASE checkpoint'[t] = checkpoint[t]
      BY <2>1, <2>2, Fields, TimeAssumption DEF IInv, CheckpointNotAhead, Times, RecordsMove
    <2>3. CASE checkpoint'[t] # checkpoint[t]
      <3>1. checkpoint'[t] = rec[t].time
        BY <1>1, <2>3, Fields DEF IInv, TypeOK
      <3> QED
        BY <2>1, <3>1
    <2> QED
      BY <2>2, <2>3
  <1> QED
    BY <1>2, <1>3, <1>4, <1>5, <1>6 DEF IInv

-----------------------------------------------------------------------------
(* Every step keeps the inductive invariant.                                *)

\* StartWorker for a run without a thread, whose record r has its clock at or
\* past the checkpoint: the new thread is its only one.
LEMMA StartWorkerKeeps ==
  ASSUME IInv, NEW s \in Sims, NEW r \in Record, ~rec[s].active, ~r.active,
         checkpoint[s] = NoTime \/ checkpoint[s] <= r.time,
         StartWorker(s, r), UNCHANGED <<checkpoint, holder>>
  PROVE  IInv'
  <1> DEFINE started == [r EXCEPT !.active = TRUE, !.status = "RUNNING", !.pause = FALSE]
  <1>1. PICK w \in Workers :
          /\ worker[w].pc = "off"
          /\ worker' = [worker EXCEPT ![w] = [pc |-> "lock", sim |-> s, left |-> 0]]
          /\ rec' = [rec EXCEPT ![s] = started]
          /\ report' = Written(s, started)
    BY DEF StartWorker
  <1>2. /\ started \in Record /\ started.active /\ started.status = "RUNNING"
        /\ started.time = r.time
    BY DEF Record, Statuses
  <1> HIDE DEF started
  <1>3. [pc |-> "lock", sim |-> s, left |-> 0] \in
          [pc : PCs, sim : Sims \cup {NoSim}, left : 0..MaxCycles]
    BY CycleAssumption DEF PCs
  <1>4. TypeOK'
    BY <1>1, <1>2, <1>3, WrittenType DEF IInv, TypeOK
  <1>5. /\ rec'[s] = started /\ \A t \in Sims \ {s} : rec'[t] = rec[t]
        /\ report'[s].status = "RUNNING" /\ \A t \in Sims \ {s} : report'[t] = report[t]
        /\ worker'[w].pc = "lock" /\ worker'[w].sim = s
        /\ \A v \in Workers \ {w} : worker'[v] = worker[v]
    BY <1>1, <1>2 DEF IInv, TypeOK, Written
  <1>6. \A v \in Workers : worker[v].pc # "off" => worker[v].sim # s
    BY DEF IInv, ThreadInv
  <1>7. ThreadInv'
    BY <1>1, <1>2, <1>5, <1>6 DEF IInv, ThreadInv
  <1>8. CyclesAreSerialised'
    BY <1>5 DEF IInv, CyclesAreSerialised, Inside
  <1>9. FilesInv'
    BY <1>2, <1>5 DEF IInv, FilesInv
  <1>10. CheckpointNotAhead'
    BY <1>2, <1>5 DEF IInv, CheckpointNotAhead
  <1> QED
    BY <1>4, <1>7, <1>8, <1>9, <1>10 DEF IInv

\* A call that rewrites the record of an existing run s, and perhaps its report,
\* but not its clock nor its thread.
LEMMA RecordStep ==
  ASSUME IInv, NEW s \in Sims, NEW r \in Record,
         r.status # "NONE", rec[s].status # "NONE",
         r.active = rec[s].active, r.time = rec[s].time,
         rec' = [rec EXCEPT ![s] = r],
         report' \in {report, Written(s, r)},
         UNCHANGED <<checkpoint, worker, holder>>
  PROVE  IInv'
  <1>1. /\ rec'[s] = r /\ \A t \in Sims \ {s} : rec'[t] = rec[t]
        /\ report'[s].status # "NONE" /\ \A t \in Sims \ {s} : report'[t] = report[t]
    BY DEF IInv, TypeOK, FilesInv, Written
  <1>2. TypeOK'
    BY WrittenType DEF IInv, TypeOK
  <1>3. ThreadInv'
    BY <1>1 DEF IInv, ThreadInv
  <1>4. CyclesAreSerialised'
    BY DEF IInv, CyclesAreSerialised
  <1>5. FilesInv' /\ CheckpointNotAhead'
    BY <1>1 DEF IInv, FilesInv, CheckpointNotAhead
  <1> QED
    BY <1>2, <1>3, <1>4, <1>5 DEF IInv

\* The API calls.
LEMMA CallKeeps ==
  ASSUME IInv, NEW s \in Sims, Start(s) \/ Pause(s) \/ Resume(s)
  PROVE  IInv'
  <1>1. CASE Start(s)
    <2>1. PICK t \in Times, d \in Durations \cup {NoDuration} :
            StartWorker(s, [NoRun(t) EXCEPT !.duration = d])
      BY <1>1 DEF Start
    <2> DEFINE r == [NoRun(t) EXCEPT !.duration = d]
    <2>2. r \in Record /\ ~r.active
      BY DEF Record, NoRun, Statuses
    <2>3. checkpoint[s] = NoTime /\ ~rec[s].active
      BY <1>1 DEF IInv, FilesInv, Start
    <2>4. UNCHANGED <<checkpoint, holder>>
      BY <1>1 DEF Start
    <2> HIDE DEF r
    <2> QED
      BY <2>1, <2>2, <2>3, <2>4, StartWorkerKeeps DEF r
  <1>2. CASE Pause(s)
    <2> DEFINE r == [rec[s] EXCEPT !.pause = TRUE,
                                   !.status = IF @ = "RUNNING" THEN "PAUSED" ELSE @]
    <2>1. /\ r \in Record /\ r.status # "NONE" /\ r.active = rec[s].active
          /\ r.time = rec[s].time
      BY <1>2, Fields DEF IInv, Pause, Record, Statuses
    <2>2. /\ rec' = [rec EXCEPT ![s] = r] /\ report' = Written(s, r)
          /\ rec[s].status # "NONE" /\ UNCHANGED <<checkpoint, worker, holder>>
      BY <1>2 DEF Pause
    <2> HIDE DEF r
    <2> QED
      BY <2>1, <2>2, RecordStep
  <1>3. CASE Resume(s)
    <2> DEFINE r == [rec[s] EXCEPT !.pause = FALSE]
    <2>1. /\ r \in Record /\ r.status = rec[s].status /\ r.active = rec[s].active
          /\ r.time = rec[s].time /\ rec[s].status # "NONE"
      BY <1>3, Fields DEF IInv, Resume, Record
    <2>2. CASE r.status # "PAUSED" /\ rec' = [rec EXCEPT ![s] = r] /\ UNCHANGED <<report, worker>>
      <3>1. UNCHANGED <<checkpoint, worker, holder>>
        BY <1>3, <2>2 DEF Resume
      <3> HIDE DEF r
      <3> QED
        BY <2>1, <2>2, <3>1, RecordStep
    <2>3. CASE /\ r.status = "PAUSED" /\ r.active
               /\ rec' = [rec EXCEPT ![s] = [r EXCEPT !.status = "RUNNING"]]
               /\ report' = Written(s, rec'[s])
               /\ UNCHANGED worker
      <3> DEFINE r2 == [r EXCEPT !.status = "RUNNING"]
      <3>1. /\ r2 \in Record /\ r2.status = "RUNNING" /\ r2.active = rec[s].active
            /\ r2.time = rec[s].time
        BY <2>1 DEF Record, Statuses
      <3>2. rec'[s] = r2
        BY <2>3 DEF IInv, TypeOK
      <3>3. rec' = [rec EXCEPT ![s] = r2] /\ report' = Written(s, r2)
        BY <2>3, <3>2
      <3>4. UNCHANGED <<checkpoint, worker, holder>>
        BY <1>3, <2>3 DEF Resume
      <3> HIDE DEF r, r2
      <3> QED
        BY <2>1, <3>1, <3>3, <3>4, RecordStep
    <2>4. CASE r.status = "PAUSED" /\ ~r.active /\ StartWorker(s, r)
      <3>1. UNCHANGED <<checkpoint, holder>>
        BY <1>3 DEF Resume
      <3>2. checkpoint[s] = NoTime \/ checkpoint[s] <= r.time
        BY <2>1 DEF IInv, CheckpointNotAhead
      <3> HIDE DEF r
      <3> QED
        BY <2>1, <2>4, <3>1, <3>2, StartWorkerKeeps
    <2> QED
      BY <1>3, <2>2, <2>3, <2>4 DEF Resume
  <1> QED
    BY <1>1, <1>2, <1>3

\* The thread waiting for the lock, and the steps that take and return it.
LEMMA LockKeeps ==
  ASSUME IInv, NEW w \in Workers, AcquireLock(w) \/ LockFails(w) \/ ReleaseLock(w)
  PROVE  IInv'
  <1> DEFINE s == worker[w].sim
  <1>1. worker[w].pc # "off"
    BY DEF AcquireLock, LockFails, ReleaseLock
  <1>2. s \in Sims /\ rec[s].status # "NONE"
    BY <1>1 DEF IInv, ThreadInv, FilesInv
  <1>3. CASE AcquireLock(w)
    <2>1. Moves(w, "check")
      BY <1>1, <1>3, GotoMoves DEF IInv, AcquireLock, PCs, Inside
    <2>2. \A v \in Workers : worker[v].pc \notin Inside
      BY <1>3, LockAssumption DEF IInv, CyclesAreSerialised, AcquireLock
    <2>3. RecordsMove
      BY <1>3, SameRecords DEF IInv, AcquireLock
    <2>4. UNCHANGED <<report, checkpoint>> /\ holder' = w
      BY <1>3 DEF AcquireLock
    <2> QED
      BY <1>3, <2>1, <2>2, <2>3, <2>4, ThreadStep
  <1>4. CASE LockFails(w)
    <2>1. Moves(w, "final")
      BY <1>1, <1>4, GotoMoves DEF IInv, LockFails, PCs
    <2>2. rec' \in {[rec EXCEPT ![s].status = "FAILED"]}
      BY <1>4 DEF LockFails
    <2>3. UNCHANGED <<report, checkpoint, holder>>
      BY <1>4 DEF LockFails
    <2> QED
      <3>1. RecordsMove
        BY <1>2, <2>2, StatusStep DEF IInv, Statuses
      <3> QED
        BY <2>1, <2>3, <3>1, ThreadStep DEF IInv, TypeOK, Inside
  <1>5. CASE ReleaseLock(w)
    <2>1. Moves(w, "final")
      BY <1>1, <1>5, GotoMoves DEF IInv, ReleaseLock, PCs
    <2>2. rec' \in {rec, [rec EXCEPT ![s].status = "FAILED"]}
      BY <1>5 DEF ReleaseLock
    <2>3. \A v \in Workers \ {w} : worker[v].pc \notin Inside
      BY <1>5 DEF ReleaseLock, IInv, CyclesAreSerialised, Inside
    <2>4. UNCHANGED <<report, checkpoint>> /\ holder' = Free
      BY <1>5 DEF ReleaseLock
    <2> QED
      BY <1>2, <2>1, <2>2, <2>3, <2>4, StatusStep, SameRecords, ThreadStep
      DEF IInv, Inside, Statuses
  <1> QED
    BY <1>3, <1>4, <1>5

\* The steps of a thread that holds the lock, up to its report.
LEMMA InsideKeeps ==
  ASSUME IInv, NEW w \in Workers,
         \/ CheckPause(w) \/ MarkRunning(w) \/ LoopTop(w) \/ CycleReturns(w)
         \/ RunRaises(w) \/ NothingRemains(w) \/ AdvanceTime(w) \/ Complete(w)
  PROVE  IInv'
  <1> DEFINE s == worker[w].sim
  <1>1. worker[w].pc \in Inside /\ worker[w].pc # "off" /\ UNCHANGED <<report, holder>>
    BY DEF CheckPause, MarkRunning, LoopTop, CycleReturns, RunRaises, NothingRemains,
           AdvanceTime, Complete, Inside
  <1>2. s \in Sims /\ rec[s].status # "NONE"
    BY <1>1 DEF IInv, ThreadInv, FilesInv
  <1>3. holder = w
    BY <1>1 DEF IInv, CyclesAreSerialised
  <1>4. ASSUME NEW l \in Inside, Goto(w, l)
        PROVE  Moves(w, l)
    BY <1>1, <1>4, GotoMoves DEF IInv, PCs, Inside
  <1>5. ASSUME NEW l, Moves(w, l), RecordsMove,
               checkpoint' \in {checkpoint, [checkpoint EXCEPT ![s] = rec[s].time]}
        PROVE  IInv'
    BY <1>1, <1>3, <1>5, ThreadStep DEF RecordsMove, IInv, TypeOK
  <1> HIDE DEF s
  <1>6. CASE CheckPause(w)
    <2>1. \E l \in Inside : Goto(w, l)
      BY <1>6 DEF CheckPause, Inside
    <2>2. rec' = rec \/ rec' = [rec EXCEPT ![s].status = "PAUSED"]
      BY <1>6 DEF CheckPause, s
    <2>3. checkpoint' = checkpoint
      BY <1>6 DEF CheckPause
    <2> QED
      BY <1>2, <1>4, <1>5, <2>1, <2>2, <2>3, StatusStep, SameRecords DEF IInv, Statuses
  <1>7. CASE MarkRunning(w)
    <2>1. Moves(w, "loop")
      <3> DEFINE t == [worker[w] EXCEPT !.pc = "loop", !.left = MaxCycles]
      <3>0. MaxCycles \in 0..MaxCycles /\ "loop" \in PCs
        BY CycleAssumption DEF PCs, Inside
      <3>1. /\ t \in [pc : PCs, sim : Sims \cup {NoSim}, left : 0..MaxCycles]
            /\ t.pc = "loop" /\ t.sim = worker[w].sim
        BY <3>0 DEF IInv, TypeOK
      <3>2. worker' = [worker EXCEPT ![w] = t]
        BY <1>7 DEF MarkRunning, IInv, TypeOK
      <3> HIDE DEF t
      <3> QED
        BY <1>1, <3>1, <3>2 DEF Moves, IInv, TypeOK
    <2>2. rec' = [rec EXCEPT ![s].status = "RUNNING"]
      BY <1>7 DEF MarkRunning, s
    <2>3. checkpoint' = checkpoint
      BY <1>7 DEF MarkRunning
    <2> QED
      BY <1>2, <1>5, <2>1, <2>2, <2>3, StatusStep DEF IInv, Statuses
  <1>8. CASE LoopTop(w)
    <2>1. checkpoint' = checkpoint
      BY <1>8 DEF LoopTop
    <2>2. CASE worker' = [worker EXCEPT ![w].pc = "cycle", ![w].left = @ - 1]
               /\ UNCHANGED rec /\ worker[w].left > 0
      <3>1. worker[w].left - 1 \in 0..MaxCycles
        BY <2>2, Fields, CycleAssumption DEF IInv
      <3>2. Moves(w, "cycle")
        BY <1>1, <2>2, <3>1 DEF Moves, IInv, TypeOK, PCs, Inside
      <3> QED
        BY <1>5, <2>1, <2>2, <3>2, SameRecords DEF IInv
    <2>3. CASE (\E l \in Inside : Goto(w, l)) /\
               (rec' = rec \/ rec' = [rec EXCEPT ![s].status = "PAUSED"])
      BY <1>2, <1>4, <1>5, <2>1, <2>3, StatusStep, SameRecords DEF IInv, Statuses
    <2> QED
      BY <1>8, <2>2, <2>3 DEF LoopTop, Inside, s
  <1>9. CASE CycleReturns(w)
    <2>1. Goto(w, "next") /\ rec' = rec
      BY <1>9 DEF CycleReturns
    <2>2. checkpoint' \in {checkpoint, [checkpoint EXCEPT ![s] = rec[s].time]}
      BY <1>9 DEF CycleReturns, s
    <2> QED
      BY <1>4, <1>5, <2>1, <2>2, SameRecords DEF IInv, Inside
  <1>10. CASE RunRaises(w)
    <2>1. Goto(w, "leave") /\ rec' = [rec EXCEPT ![s].status = "FAILED"]
      BY <1>10 DEF RunRaises, s
    <2>2. checkpoint' \in {checkpoint, [checkpoint EXCEPT ![s] = rec[s].time]}
      BY <1>10 DEF RunRaises, s
    <2> QED
      BY <1>2, <1>4, <1>5, <2>1, <2>2, StatusStep DEF IInv, Inside, Statuses
  <1>11. CASE NothingRemains(w)
    <2>1. Goto(w, "complete") /\ rec' = rec /\ checkpoint' = checkpoint
      BY <1>11 DEF NothingRemains
    <2> QED
      BY <1>4, <1>5, <2>1, SameRecords DEF IInv, Inside
  <1>12. CASE AdvanceTime(w)
    <2>1. checkpoint' = checkpoint
      BY <1>12 DEF AdvanceTime
    <2>2. PICK next \in Times :
            \/ /\ rec' = [rec EXCEPT ![s].time = MaxOf(@, next)]
               /\ Goto(w, "loop")
            \/ /\ rec[s].duration # NoDuration
               /\ rec' = [rec EXCEPT ![s].time =
                            MaxOf(rec[s].time, MinOf(next, rec[s].time + rec[s].duration))]
               /\ \E l \in {"complete", "loop"} : Goto(w, l)
      BY <1>12 DEF AdvanceTime, s
    <2>3. \E l \in Inside : Goto(w, l)
      BY <2>2 DEF Inside
    <2>4. PICK t \in Times : t >= rec[s].time /\ rec' = [rec EXCEPT ![s].time = t]
      <3>1. rec[s].time \in Times
        BY <1>2, Fields DEF IInv
      <3>2. CASE rec' = [rec EXCEPT ![s].time = MaxOf(@, next)]
        BY <2>2, <3>1, <3>2, ClockType
      <3>3. CASE /\ rec[s].duration # NoDuration
                 /\ rec' = [rec EXCEPT ![s].time =
                              MaxOf(rec[s].time, MinOf(next, rec[s].time + rec[s].duration))]
        <4>1. rec[s].duration \in Nat
          BY <1>2, <3>3, Fields, TimeAssumption DEF IInv
        <4> QED
          BY <3>1, <3>3, <4>1, ClockType
      <3> QED
        BY <2>2, <3>2, <3>3
    <2> QED
      BY <1>2, <1>4, <1>5, <2>1, <2>3, <2>4, ClockStep DEF IInv
  <1>13. CASE Complete(w)
    <2>1. Goto(w, "leave") /\ rec' = [rec EXCEPT ![s].status = "COMPLETED"]
          /\ checkpoint' = checkpoint
      BY <1>13 DEF Complete, s
    <2> QED
      BY <1>2, <1>4, <1>5, <2>1, StatusStep DEF IInv, Inside, Statuses
  <1> QED
    BY <1>6, <1>7, <1>8, <1>9, <1>10, <1>11, <1>12, <1>13

\* The report of a run written while its thread is there, by LeaveLocked or Finish.
LEMMA ReportKeeps ==
  ASSUME IInv, NEW w \in Workers, LeaveLocked(w) \/ Finish(w)
  PROVE  IInv'
  <1> DEFINE s == worker[w].sim
  <1>1. worker[w].pc # "off" /\ UNCHANGED checkpoint /\ holder' = holder
    BY DEF LeaveLocked, Finish
  <1>2. s \in Sims /\ rec[s].status # "NONE" /\ rec[s] \in Record
    BY <1>1, Fields DEF IInv, ThreadInv, FilesInv
  <1>3. CASE LeaveLocked(w)
    <2>1. Moves(w, "unlock") /\ report' = Written(s, rec[s]) /\ rec' = rec
      BY <1>1, <1>3, GotoMoves DEF IInv, LeaveLocked, PCs, Inside
    <2>2. worker[w].pc \in Inside
      BY <1>3 DEF LeaveLocked, Inside
    <2>3. TypeOK'
      BY <1>1, <1>2, <2>1, WrittenType DEF IInv, TypeOK, Moves
    <2>4. ThreadInv'
      BY <2>1, SameThreads DEF IInv, Moves
    <2>5. CyclesAreSerialised'
      BY <1>1, <2>1, <2>2 DEF IInv, CyclesAreSerialised, Moves
    <2>6. FilesInv' /\ CheckpointNotAhead'
      BY <1>1, <1>2, <2>1 DEF IInv, FilesInv, CheckpointNotAhead, Written, TypeOK
    <2> QED
      BY <2>3, <2>4, <2>5, <2>6 DEF IInv
  <1>4. CASE Finish(w)
    <2> DEFINE r == [rec[s] EXCEPT !.active = FALSE]
    <2>1. /\ rec' = [rec EXCEPT ![s] = r] /\ report' = Written(s, r)
          /\ worker' = [worker EXCEPT ![w] = Idle]
      BY <1>4 DEF Finish
    <2>2. /\ r \in Record /\ ~r.active /\ r.status = rec[s].status /\ r.time = rec[s].time
      BY <1>2 DEF Record
    <2> HIDE DEF r
    <2>3. /\ rec'[s] = r /\ \A t \in Sims \ {s} : rec'[t] = rec[t]
          /\ report'[s].status = r.status /\ \A t \in Sims \ {s} : report'[t] = report[t]
          /\ worker'[w].pc = "off" /\ \A v \in Workers \ {w} : worker'[v] = worker[v]
      BY <1>2, <2>1 DEF IInv, TypeOK, Written, Idle
    <2>4. TypeOK'
      BY <1>1, <1>2, <2>1, <2>2, WrittenType, CycleAssumption DEF IInv, TypeOK, Idle, PCs
    <2>5. ThreadInv'
      BY <1>1, <1>2, <2>2, <2>3 DEF IInv, ThreadInv
    <2>6. CyclesAreSerialised'
      BY <1>1, <2>3 DEF IInv, CyclesAreSerialised, Inside
    <2>7. FilesInv' /\ CheckpointNotAhead'
      BY <1>1, <1>2, <2>2, <2>3 DEF IInv, FilesInv, CheckpointNotAhead
    <2> QED
      BY <2>4, <2>5, <2>6, <2>7 DEF IInv
  <1> QED
    BY <1>3, <1>4

\* The API process comes back with the runs its files describe.
LEMMA RestartKeeps ==
  ASSUME IInv, Restart
  PROVE  IInv'
  <1>1. /\ rec' = [s \in Sims |-> Restored(s)]
        /\ worker' = [w \in Workers |-> Idle]
        /\ holder' \in {Free, Other}
        /\ checkpoint' = checkpoint
    BY DEF Restart
  <1>2. ASSUME NEW s \in Sims
        PROVE  /\ Restored(s) \in Record /\ ~Restored(s).active
               /\ Restored(s).status = "NONE" <=> report[s].status = "NONE"
               /\ checkpoint[s] # NoTime => Restored(s).time = checkpoint[s]
    BY Fields DEF IInv, Restored, Record, Statuses
  <1>3. ASSUME NEW s \in Sims
        PROVE  /\ rec'[s] \in Record /\ ~rec'[s].active
               /\ rec'[s].status = "NONE" <=> rec[s].status = "NONE"
               /\ checkpoint[s] # NoTime => rec'[s].time = checkpoint[s]
               /\ report'[s] \in [status : Statuses, pause : BOOLEAN, time : Times]
               /\ report'[s].status = "NONE" <=> rec'[s].status = "NONE"
    <2>1. rec'[s] = Restored(s)
      BY <1>1
    <2>2. report'[s] = (IF report[s].status = "RUNNING"
                          THEN [status |-> rec'[s].status, pause |-> rec'[s].pause,
                                time |-> rec'[s].time]
                          ELSE report[s])
      BY DEF Restart
    <2>3. rec'[s].status \in Statuses /\ rec'[s].pause \in BOOLEAN /\ rec'[s].time \in Times
      BY <1>2, <2>1 DEF Record
    <2>4. rec[s].status = "NONE" <=> report[s].status = "NONE"
      BY DEF IInv, FilesInv
    <2>5. report[s] \in [status : Statuses, pause : BOOLEAN, time : Times]
      BY DEF IInv, TypeOK
    <2> QED
      BY <1>2, <2>1, <2>2, <2>3, <2>4, <2>5
  <1>4. TypeOK'
    <2>1. rec' \in [Sims -> Record]
      BY <1>1, <1>2
    <2>2. report' \in [Sims -> [status : Statuses, pause : BOOLEAN, time : Times]]
      BY <1>3 DEF Restart
    <2>3. worker' \in [Workers -> [pc : PCs, sim : Sims \cup {NoSim}, left : 0..MaxCycles]]
      BY <1>1, CycleAssumption DEF Idle, PCs
    <2> QED
      BY <1>1, <2>1, <2>2, <2>3 DEF IInv, TypeOK
  <1>5. ThreadInv'
    BY <1>1, <1>3 DEF ThreadInv, Idle
  <1>6. CyclesAreSerialised'
    BY <1>1 DEF CyclesAreSerialised, Idle, Inside
  <1>7. FilesInv'
    BY <1>1, <1>3 DEF IInv, FilesInv
  <1>8. CheckpointNotAhead'
    <2> SUFFICES ASSUME NEW s \in Sims, checkpoint[s] # NoTime
                 PROVE  checkpoint[s] <= rec'[s].time
      BY <1>1 DEF CheckpointNotAhead
    <2>1. checkpoint[s] \in Nat
      BY Fields, TimeAssumption DEF IInv, Times
    <2> QED
      BY <1>3, <2>1
  <1> QED
    BY <1>4, <1>5, <1>6, <1>7, <1>8 DEF IInv

\* The strengthened invariant holds initially and is kept by every step.
LEMMA Initially == Init => IInv
  <1> SUFFICES ASSUME Init
               PROVE  IInv
    OBVIOUS
  <1>1. TypeOK
    BY CycleAssumption, TimeAssumption
    DEF Init, TypeOK, Record, NoRun, Statuses, Times, Idle, PCs
  <1>2. ThreadInv /\ CyclesAreSerialised
    BY DEF Init, ThreadInv, CyclesAreSerialised, NoRun, Idle, Inside
  <1>3. FilesInv /\ CheckpointNotAhead
    BY DEF Init, FilesInv, CheckpointNotAhead, NoRun
  <1> QED
    BY <1>1, <1>2, <1>3 DEF IInv

LEMMA Inductive == IInv /\ [Next]_vars => IInv'
  <1> SUFFICES ASSUME IInv, [Next]_vars
               PROVE  IInv'
    OBVIOUS
  <1>1. ASSUME NEW s \in Sims, Start(s) \/ Pause(s) \/ Resume(s)
        PROVE  IInv'
    BY <1>1, CallKeeps
  <1>2. ASSUME NEW w \in Workers, AcquireLock(w) \/ LockFails(w) \/ Work(w)
        PROVE  IInv'
    BY <1>2, LockKeeps, InsideKeeps, ReportKeeps DEF Work
  <1>3. CASE OthersLock
    <2>1. \A w \in Workers : worker[w].pc \notin Inside
      BY <1>3, LockAssumption DEF OthersLock, IInv, CyclesAreSerialised
    <2> QED
      BY <1>3, <2>1
      DEF OthersLock, IInv, TypeOK, ThreadInv, CyclesAreSerialised, FilesInv, CheckpointNotAhead
  <1>4. CASE Restart
    BY <1>4, RestartKeeps
  <1>5. CASE UNCHANGED vars
    BY <1>5
    DEF vars, IInv, TypeOK, ThreadInv, CyclesAreSerialised, FilesInv, CheckpointNotAhead
  <1> QED
    BY <1>1, <1>2, <1>3, <1>4, <1>5 DEF Next

LEMMA Invariance == Spec => []IInv
  BY Initially, Inductive, PTL DEF Spec

-----------------------------------------------------------------------------
(* Theorems.                                                                *)

\* Records, files and threads keep their types, and a thread never counts more
\* cycles than it may execute.
THEOREM TypeCorrect == Spec => []TypeOK
  <1>1. IInv => TypeOK
    BY DEF IInv
  <1> QED
    BY <1>1, Invariance, PTL

\* However pauses, resumes and restarts race with a thread that is ending, a run
\* has one thread when worker_active says so and none otherwise.
THEOREM OneThread == Spec => []OneThreadPerRun
  <1>1. IInv => OneThreadPerRun
    <2> SUFFICES ASSUME IInv, NEW s \in Sims
                 PROVE  Cardinality({w \in Workers : worker[w].pc # "off" /\ worker[w].sim = s}) =
                          (IF rec[s].active THEN 1 ELSE 0)
      BY DEF OneThreadPerRun
    <2> DEFINE T == {w \in Workers : worker[w].pc # "off" /\ worker[w].sim = s}
    <2>1. CASE rec[s].active
      <3>1. PICK w \in T : TRUE
        BY <2>1 DEF IInv, ThreadInv
      <3>2. T = {w}
        BY <3>1 DEF IInv, ThreadInv
      <3> QED
        BY <2>1, <3>2, FS_Singleton
    <2>2. CASE ~rec[s].active
      <3>1. T = {}
        BY <2>2 DEF IInv, ThreadInv
      <3> QED
        BY <2>2, <3>1, FS_EmptySet
    <2> QED
      BY <2>1, <2>2
  <1> QED
    BY <1>1, Invariance, PTL

\* A thread that works inside the execution lock holds it, so cycles of two runs,
\* or of a run and an independent flow, never overlap.
THEOREM Serialised == Spec => []CyclesAreSerialised
  <1>1. IInv => CyclesAreSerialised
    BY DEF IInv
  <1> QED
    BY <1>1, Invariance, PTL

\* The clock a run goes on with, in a live process or after a restart, is never
\* behind the checkpoint its cycles have reached.
THEOREM ClockCoversCheckpoint == Spec => []CheckpointNotAhead
  <1>1. IInv => CheckpointNotAhead
    BY DEF IInv
  <1> QED
    BY <1>1, Invariance, PTL

=============================================================================

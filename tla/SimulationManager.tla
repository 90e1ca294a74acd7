------------------------- MODULE SimulationManager -------------------------
(***************************************************************************)
(* Scheduler runs started, paused and resumed over HTTP                    *)
(* (api/services/simulation_control.SimulationManager).                    *)
(*                                                                         *)
(* A run is a record guarded by the manager's RLock, a report file, a      *)
(* checkpoint file and a daemon thread.  API calls are atomic under the    *)
(* RLock; the thread takes the execution lock, and between its short       *)
(* critical sections runs simulation cycles and asks the outbox for the    *)
(* next scheduled event.  What a cycle does to the outbox is the subject   *)
(* of EventScheduler; here the outbox only answers which events remain.    *)
(***************************************************************************)
EXTENDS Naturals, FiniteSets

CONSTANTS
  Sims,         \* runs
  Workers,      \* threads a run may be given
  Horizon,      \* bound: the last simulated time
  Durations,    \* duration_hours a request may ask for
  NoDuration,   \* a request without duration_hours
  NoTime,       \* no checkpoint written yet
  MaxCycles     \* cycles one thread executes at most (100 in the code)

ASSUME CycleAssumption == MaxCycles \in Nat \ {0}
ASSUME TimeAssumption  == /\ Horizon \in Nat /\ NoTime \notin Nat
                          /\ Durations \subseteq Nat \ {0} /\ NoDuration \notin Nat

VARIABLES
  rec,          \* SimulationManager._runs
  report,       \* the report.json of each run
  checkpoint,   \* the checkpoint.json of each run
  worker,       \* the threads
  holder        \* holder of the execution lock

vars == <<rec, report, checkpoint, worker, holder>>

Free  == "free"
Other == "an independent flow or another process"

\* The two names of the lock's state are not threads.
ASSUME LockAssumption == Free \notin Workers /\ Other \notin Workers

Times    == 0..Horizon
Statuses == {"NONE", "RUNNING", "PAUSED", "COMPLETED", "FAILED"}

Record == [status : Statuses, pause : BOOLEAN, active : BOOLEAN,
           time : Times, duration : Durations \cup {NoDuration}]
NoRun(t) == [status |-> "NONE", pause |-> FALSE, active |-> FALSE,
             time |-> t, duration |-> NoDuration]

\* Program points of SimulationManager._run and _run_locked.
Inside == {"check", "mark", "loop", "cycle", "next", "complete", "leave", "unlock"}
PCs    == {"off", "lock", "final"} \cup Inside
NoSim  == "no run"
Idle   == [pc |-> "off", sim |-> NoSim, left |-> 0]

TypeOK ==
  /\ rec \in [Sims -> Record]
  /\ report \in [Sims -> [status : Statuses, pause : BOOLEAN, time : Times]]
  /\ checkpoint \in [Sims -> Times \cup {NoTime}]
  /\ worker \in [Workers -> [pc : PCs, sim : Sims \cup {NoSim}, left : 0..MaxCycles]]
  /\ holder \in Workers \cup {Free, Other}

Init ==
  /\ rec = [s \in Sims |-> NoRun(0)]
  /\ report = [s \in Sims |-> [status |-> "NONE", pause |-> FALSE, time |-> 0]]
  /\ checkpoint = [s \in Sims |-> NoTime]
  /\ worker = [w \in Workers |-> Idle]
  /\ holder = Free

\* _write_report: the report becomes a copy of the record r.
Written(s, r) == [report EXCEPT ![s] = [status |-> r.status, pause |-> r.pause, time |-> r.time]]

\* Thread w of its run moves to program point l.
Goto(w, l) == worker' = [worker EXCEPT ![w].pc = l]

-----------------------------------------------------------------------------
(* API calls.                                                               *)

\* _start_worker_locked, for the record r of run s: nothing if one is active.
StartWorker(s, r) ==
  LET started == [r EXCEPT !.active = TRUE, !.status = "RUNNING", !.pause = FALSE] IN
  \/ r.active /\ rec' = [rec EXCEPT ![s] = r] /\ UNCHANGED <<report, worker>>
  \/ /\ ~r.active
     /\ rec' = [rec EXCEPT ![s] = started]
     /\ report' = Written(s, started)
     /\ \E w \in {w \in Workers : worker[w].pc = "off"} :
          worker' = [worker EXCEPT ![w] = [pc |-> "lock", sim |-> s, left |-> 0]]

Start(s) ==
  /\ rec[s].status = "NONE"
  /\ \E t \in Times, d \in Durations \cup {NoDuration} :
       StartWorker(s, [NoRun(t) EXCEPT !.duration = d])
  /\ UNCHANGED <<checkpoint, holder>>

Pause(s) ==
  LET r == [rec[s] EXCEPT !.pause = TRUE,
                          !.status = IF @ = "RUNNING" THEN "PAUSED" ELSE @] IN
  /\ rec[s].status # "NONE"
  /\ rec' = [rec EXCEPT ![s] = r]
  /\ report' = Written(s, r)
  /\ UNCHANGED <<checkpoint, worker, holder>>

\* Mutant of Resume: a thread is started even if the old one is still there.
Resume_NewThread(s) ==
  LET r == [rec[s] EXCEPT !.pause = FALSE] IN
  /\ rec[s].status # "NONE"
  /\ \/ r.status = "PAUSED" /\ StartWorker(s, [r EXCEPT !.active = FALSE])
     \/ r.status # "PAUSED" /\ rec' = [rec EXCEPT ![s] = r] /\ UNCHANGED <<report, worker>>
  /\ UNCHANGED <<checkpoint, holder>>

\* A paused run whose thread is still there is only marked RUNNING again.
Resume(s) ==
  LET r == [rec[s] EXCEPT !.pause = FALSE] IN
  /\ rec[s].status # "NONE"
  /\ \/ /\ r.status = "PAUSED" /\ r.active
        /\ rec' = [rec EXCEPT ![s] = [r EXCEPT !.status = "RUNNING"]]
        /\ report' = Written(s, rec'[s])
        /\ UNCHANGED worker
     \/ r.status = "PAUSED" /\ ~r.active /\ StartWorker(s, r)
     \/ r.status # "PAUSED" /\ rec' = [rec EXCEPT ![s] = r] /\ UNCHANGED <<report, worker>>
  /\ UNCHANGED <<checkpoint, holder>>

-----------------------------------------------------------------------------
(* The thread.                                                              *)

\* Mutant of AcquireLock: the cycle runs without the execution lock.
AcquireLock_NotTaken(w) ==
  /\ worker[w].pc = "lock"
  /\ Goto(w, "check")
  /\ UNCHANGED <<rec, report, checkpoint, holder>>

AcquireLock(w) ==
  /\ worker[w].pc = "lock"
  /\ holder = Free
  /\ holder' = w
  /\ Goto(w, "check")
  /\ UNCHANGED <<rec, report, checkpoint>>

\* The first look at pause_requested.
CheckPause(w) ==
  LET s == worker[w].sim IN
  /\ worker[w].pc = "check"
  /\ \/ ~rec[s].pause /\ Goto(w, "mark") /\ UNCHANGED rec
     \/ /\ rec[s].pause
        /\ rec' = [rec EXCEPT ![s].status = "PAUSED"]
        /\ Goto(w, "leave")
  /\ UNCHANGED <<report, checkpoint, holder>>

\* Mutant of MarkRunning: one cycle too many.
MarkRunning_OneMore(w) ==
  /\ worker[w].pc = "mark"
  /\ rec' = [rec EXCEPT ![worker[w].sim].status = "RUNNING"]
  /\ worker' = [worker EXCEPT ![w].pc = "loop", ![w].left = MaxCycles + 1]
  /\ UNCHANGED <<report, checkpoint, holder>>

\* The status is set without a second look at pause_requested.
MarkRunning(w) ==
  /\ worker[w].pc = "mark"
  /\ rec' = [rec EXCEPT ![worker[w].sim].status = "RUNNING"]
  /\ worker' = [worker EXCEPT ![w].pc = "loop", ![w].left = MaxCycles]
  /\ UNCHANGED <<report, checkpoint, holder>>

\* Mutant of LoopTop: while True.
LoopTop_Forever(w) ==
  LET s == worker[w].sim IN
  /\ worker[w].pc = "loop"
  /\ \/ rec[s].pause /\ rec' = [rec EXCEPT ![s].status = "PAUSED"] /\ Goto(w, "leave")
     \/ ~rec[s].pause /\ Goto(w, "cycle") /\ UNCHANGED rec
  /\ UNCHANGED <<report, checkpoint, holder>>

\* for _ in range(100), with the second look at pause_requested.
LoopTop(w) ==
  LET s == worker[w].sim IN
  /\ worker[w].pc = "loop"
  /\ \/ worker[w].left = 0 /\ Goto(w, "complete") /\ UNCHANGED rec
     \/ /\ worker[w].left > 0 /\ rec[s].pause
        /\ rec' = [rec EXCEPT ![s].status = "PAUSED"]
        /\ Goto(w, "leave")
     \/ /\ worker[w].left > 0 /\ ~rec[s].pause
        /\ worker' = [worker EXCEPT ![w].pc = "cycle", ![w].left = @ - 1]
        /\ UNCHANGED rec
  /\ UNCHANGED <<report, checkpoint, holder>>

\* run_simulation_cycle returns; it advanced the checkpoint unless an event failed.
CycleReturns(w) ==
  LET s == worker[w].sim IN
  /\ worker[w].pc = "cycle"
  /\ \E failed \in BOOLEAN :
       checkpoint' = IF failed THEN checkpoint ELSE [checkpoint EXCEPT ![s] = rec[s].time]
  /\ Goto(w, "next")
  /\ UNCHANGED <<rec, report, holder>>

\* An exception inside _run_locked: a cycle aborts (before or after it advanced
\* the checkpoint), the outbox query fails, or only rows without a scheduled time
\* remain and max(time, NULL) raises.
RunRaises(w) ==
  LET s == worker[w].sim IN
  /\ worker[w].pc \in {"cycle", "next"}
  /\ rec' = [rec EXCEPT ![s].status = "FAILED"]
  /\ \/ UNCHANGED checkpoint
     \/ worker[w].pc = "cycle" /\ checkpoint' = [checkpoint EXCEPT ![s] = rec[s].time]
  /\ Goto(w, "leave")
  /\ UNCHANGED <<report, holder>>

MinOf(a, b) == IF a < b THEN a ELSE b
MaxOf(a, b) == IF a > b THEN a ELSE b

\* The outbox holds no pending event: leave the loop.
NothingRemains(w) ==
  /\ worker[w].pc = "next"
  /\ Goto(w, "complete")
  /\ UNCHANGED <<rec, report, checkpoint, holder>>

\* The next event is scheduled at next: move the clock there, at most one
\* duration ahead of the cycle just executed, and stop if that is reached.
AdvanceTime(w) ==
  LET s == worker[w].sim
      r == rec[s]
  IN
  /\ worker[w].pc = "next"
  /\ \E next \in Times :
       \/ /\ r.duration = NoDuration
          /\ rec' = [rec EXCEPT ![s].time = MaxOf(@, next)]
          /\ Goto(w, "loop")
       \/ /\ r.duration # NoDuration
          /\ LET now == MaxOf(r.time, MinOf(next, r.time + r.duration)) IN
               /\ rec' = [rec EXCEPT ![s].time = now]
               /\ Goto(w, IF now >= r.time + r.duration THEN "complete" ELSE "loop")
  /\ UNCHANGED <<report, checkpoint, holder>>

Complete(w) ==
  /\ worker[w].pc = "complete"
  /\ rec' = [rec EXCEPT ![worker[w].sim].status = "COMPLETED"]
  /\ Goto(w, "leave")
  /\ UNCHANGED <<report, checkpoint, holder>>

\* The finally clause of _run_locked.
LeaveLocked(w) ==
  LET s == worker[w].sim IN
  /\ worker[w].pc = "leave"
  /\ report' = Written(s, rec[s])
  /\ Goto(w, "unlock")
  /\ UNCHANGED <<rec, checkpoint, holder>>

\* Leaving the execution lock; a failing unlock makes the run FAILED.
ReleaseLock(w) ==
  LET s == worker[w].sim IN
  /\ worker[w].pc = "unlock"
  /\ holder' = Free
  /\ \E failed \in BOOLEAN :
       rec' = IF failed THEN [rec EXCEPT ![s].status = "FAILED"] ELSE rec
  /\ Goto(w, "final")
  /\ UNCHANGED <<report, checkpoint>>

\* The lock itself cannot be taken: the run fails without a cycle.
LockFails(w) ==
  /\ worker[w].pc = "lock"
  /\ rec' = [rec EXCEPT ![worker[w].sim].status = "FAILED"]
  /\ Goto(w, "final")
  /\ UNCHANGED <<report, checkpoint, holder>>

\* The finally clause of _run: the thread ends.
Finish(w) ==
  LET s == worker[w].sim
      r == [rec[s] EXCEPT !.active = FALSE]
  IN
  /\ worker[w].pc = "final"
  /\ rec' = [rec EXCEPT ![s] = r]
  /\ report' = Written(s, r)
  /\ worker' = [worker EXCEPT ![w] = Idle]
  /\ UNCHANGED <<checkpoint, holder>>

-----------------------------------------------------------------------------
(* The rest of the system.                                                  *)

OthersLock ==
  /\ holder \in {Free, Other}
  /\ holder' = IF holder = Free THEN Other ELSE Free
  /\ UNCHANGED <<rec, report, checkpoint, worker>>

\* Mutant of Restored: the time saved in the report wins over the checkpoint.
Restored_SavedTime(s) ==
  [rec[s] EXCEPT !.active = FALSE, !.time = report[s].time,
                 !.pause = report[s].pause /\ report[s].status # "RUNNING",
                 !.status = IF report[s].status = "RUNNING" THEN "PAUSED" ELSE report[s].status]

\* The record _restore_runs rebuilds from the files of run s.
Restored(s) ==
  [rec[s] EXCEPT !.active = FALSE,
                 !.pause = report[s].pause /\ report[s].status # "RUNNING",
                 !.status = IF report[s].status = "RUNNING" THEN "PAUSED" ELSE report[s].status,
                 !.time = IF checkpoint[s] # NoTime THEN checkpoint[s] ELSE report[s].time]

\* The API process dies with its threads and comes back.
Restart ==
  /\ \E s \in Sims : rec[s].status # "NONE"
  /\ rec' = [s \in Sims |-> Restored(s)]
  /\ report' = [s \in Sims |-> IF report[s].status = "RUNNING"
                                 THEN [status |-> rec'[s].status, pause |-> rec'[s].pause,
                                       time |-> rec'[s].time]
                                 ELSE report[s]]
  /\ worker' = [w \in Workers |-> Idle]
  /\ holder' \in {Free} \cup ({holder} \cap {Other})
  /\ UNCHANGED <<checkpoint>>

-----------------------------------------------------------------------------
\* What a thread does once it holds the execution lock, and its farewell.
Work(w) ==
  \/ CheckPause(w) \/ MarkRunning(w) \/ LoopTop(w) \/ CycleReturns(w) \/ RunRaises(w)
  \/ NothingRemains(w) \/ AdvanceTime(w) \/ Complete(w) \/ LeaveLocked(w)
  \/ ReleaseLock(w) \/ Finish(w)

Next ==
  \/ \E s \in Sims : Start(s) \/ Pause(s) \/ Resume(s)
  \/ \E w \in Workers : AcquireLock(w) \/ LockFails(w) \/ Work(w)
  \/ OthersLock
  \/ Restart

Spec == Init /\ [][Next]_vars

\* Threads run, and a cycle ends; waiting for the lock is not assumed to.
FairSpec == Spec /\ \A w \in Workers : WF_vars(Work(w))

-----------------------------------------------------------------------------
(* Properties.                                                              *)

\* However pauses, resumes and restarts race with a thread that is ending, a run
\* never has two threads (they would share its clock and its checkpoint), and
\* worker_active says exactly whether it has one: resume relies on it to decide
\* between waking the thread and starting one.
OneThreadPerRun ==
  \A s \in Sims :
    Cardinality({w \in Workers : worker[w].pc # "off" /\ worker[w].sim = s}) =
      (IF rec[s].active THEN 1 ELSE 0)

\* Cycles are serialised with each other and with the independent flows.
CyclesAreSerialised == \A w \in Workers : worker[w].pc \in Inside => holder = w

\* The clock of a run is never behind its checkpoint: list_ready_events would
\* drop the events scheduled in between.
CheckpointNotAhead ==
  \A s \in Sims : checkpoint[s] # NoTime /\ rec[s].status # "NONE" => checkpoint[s] <= rec[s].time

\* The execution lock is always given back: a thread does a bounded number of
\* cycles, whatever is paused or resumed meanwhile.
ExecutionLockIsReleased == \A w \in Workers : holder = w ~> holder # w

=============================================================================

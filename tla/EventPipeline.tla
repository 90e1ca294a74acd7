---------------------------- MODULE EventPipeline ----------------------------
(***************************************************************************)
(* The way of an event from the outbox to storage: the Airflow DAGs that   *)
(* call the API and clean up after failed runs (dags/simulation_inbound,   *)
(* dags/simulation_outbound), the Kafka producer that publishes the outbox *)
(* (dags/producer) and the consumer that stores the topics in the bucket   *)
(* (dags/consumer).                                                        *)
(*                                                                         *)
(* The API's side is what IndependentRuns shows of it: one run at a time,  *)
(* its rows written one by one while simulation_runs says RUNNING.  The    *)
(* broker and the bucket are external: a topic is a log of one partition,  *)
(* a stored message is the offset it is stored under.                      *)
(***************************************************************************)
EXTENDS Naturals, Sequences, FiniteSets, SequencesExt

CONSTANTS
  Dags,         \* "inbound" and "outbound"
  Client,       \* any other caller of the API
  Corrs,        \* correlation ids
  Schedule,     \* Schedule[d]: the calls of each DAG run, a sequence of sequences
  Length,       \* outbox rows a run writes
  Strays,       \* rows that belong to no run: the scheduler's, the CLI's
  Poison,       \* strays whose payload is no instance of the event's schema
  Topics,       \* Kafka topics
  NoTopic,      \* the event type is in none of the producer's lists
  TopicOf,      \* topic of each event
  None,         \* nobody holds the execution lock
  MaxBatch,     \* max_messages of one consumer run (50 in the code)
  MaxPosts,     \* bound: requests of other callers
  MaxFaults     \* bound: crashes, failed deliveries, lost acknowledgements

RunEvents == Corrs \X (1..Length)
Events == RunEvents \cup Strays
Owner(e) == e[1]

ASSUME PipelineAssumption ==
  /\ Client \notin Dags /\ None \notin (Dags \cup {Client}) \X Corrs
  /\ Schedule \in [Dags -> Seq(Seq(Corrs))]
  /\ Poison \subseteq Strays /\ Strays \cap RunEvents = {}
  /\ NoTopic \notin Topics
  /\ TopicOf \in [Events -> Topics \cup {NoTopic}]
  /\ Length \in Nat \ {0} /\ MaxBatch \in Nat \ {0}
  /\ MaxPosts \in Nat /\ MaxFaults \in Nat /\ Topics # {}

\* A call's correlation id is the uuid5 of its DAG, DAG run, flow and call_number.
ASSUME CallsAreDistinct ==
  \A d1, d2 \in Dags :
    \A k1 \in DOMAIN Schedule[d1], k2 \in DOMAIN Schedule[d2] :
      \A j1 \in DOMAIN Schedule[d1][k1], j2 \in DOMAIN Schedule[d2][k2] :
        Schedule[d1][k1][j1] = Schedule[d2][k2][j2] => d1 = d2 /\ k1 = k2 /\ j1 = j2

VARIABLES
  run,          \* simulation_runs: status of each correlation id
  outbox,       \* event_outbox in created_at order, deleted rows included
  status,       \* status of each row
  requests,     \* requests waiting for the execution lock
  active,       \* the request that holds it
  dagPc,        \* task each DAG run is in
  dagRun,       \* runs of each DAG so far
  call,         \* call_number of each DAG run
  targets,      \* failed_correlation_ids its cleanup has read
  publisher,    \* the producer task and whether a run of it is queued
  batch,        \* rows the producer still has to send
  delivery,     \* what the producer knows of the messages it has sent
  log,          \* the topics
  reader,       \* the consumer task, its queued run, messages it committed
  position,     \* next offset the consumer fetches of each topic
  committed,    \* next offset of each topic the group has committed
  raw, parsed,  \* offsets stored in the bucket
  posts, faults

apiVars == <<run, requests, active>>
rowVars == <<outbox, status>>
dagVars == <<dagPc, dagRun, call, targets>>
producerVars == <<publisher, batch, delivery>>
consumerVars == <<reader, position, committed, raw, parsed>>
vars == <<apiVars, rowVars, dagVars, producerVars, log, consumerVars, posts, faults>>

Callers == Dags \cup {Client}
Offsets == Topics \X Nat

TypeOK ==
  /\ run \in [Corrs -> {"NONE", "RUNNING", "RETRYABLE", "FAILED", "SUCCESS"}]
  /\ outbox \in Seq(Events) /\ IsInjective(outbox)
  /\ status \in [Events -> {"ABSENT", "PENDING", "COMPLETED", "DELETED"}]
  /\ requests \subseteq Callers \X Corrs
  /\ active \in (Callers \X Corrs) \cup {None}
  /\ dagPc \in [Dags -> {"idle", "call", "wait", "select", "delete", "trigger"}]
  /\ dagRun \in [Dags -> Nat] /\ call \in [Dags -> Nat]
  /\ targets \in [Dags -> SUBSET Corrs]
  /\ publisher \in [running : BOOLEAN, queued : BOOLEAN]
  /\ batch \subseteq Events
  /\ delivery \in [Events -> {"none", "sent", "acked", "failed"}]
  /\ log \in [Topics -> Seq(Events)]
  /\ reader \in [pc : {"idle", "poll", "raw", "parse", "commit"}, queued : BOOLEAN,
                 topic : Topics, processed : 0..MaxBatch]
  /\ position \in [Topics -> Nat] /\ committed \in [Topics -> Nat]
  /\ raw \subseteq Offsets /\ parsed \subseteq Offsets
  /\ posts \in 0..MaxPosts /\ faults \in 0..MaxFaults

Init ==
  /\ run = [c \in Corrs |-> "NONE"]
  /\ outbox = <<>> /\ status = [e \in Events |-> "ABSENT"]
  /\ requests = {} /\ active = None
  /\ dagPc = [d \in Dags |-> "idle"] /\ dagRun = [d \in Dags |-> 0]
  /\ call = [d \in Dags |-> 1] /\ targets = [d \in Dags |-> {}]
  /\ publisher = [running |-> FALSE, queued |-> FALSE]
  /\ batch = {} /\ delivery = [e \in Events |-> "none"]
  /\ log = [t \in Topics |-> <<>>]
  /\ reader = [pc |-> "idle", queued |-> FALSE,
               topic |-> CHOOSE t \in Topics : TRUE, processed |-> 0]
  /\ position = [t \in Topics |-> 0] /\ committed = [t \in Topics |-> 0]
  /\ raw = {} /\ parsed = {}
  /\ posts = 0 /\ faults = 0

Fault == faults < MaxFaults /\ faults' = faults + 1

-----------------------------------------------------------------------------
(* The API: the requests, the run that holds the lock and its rows.         *)

\* Calls of the DAG run; runs past the schedule's end call nothing new.
Calls(d) == IF dagRun[d] \in DOMAIN Schedule[d] THEN Schedule[d][dagRun[d]] ELSE <<>>

Awaits(d, c) == dagPc[d] = "wait" /\ Calls(d)[call[d]] = c

\* The response reaches its caller, unless it has stopped waiting.  A status
\* other than SUCCESS is only printed.
Reply(who, c) ==
  IF who \in Dags /\ Awaits(who, c)
  THEN /\ dagPc' = [dagPc EXCEPT ![who] = "call"]
       /\ call' = [call EXCEPT ![who] = @ + 1]
  ELSE UNCHANGED <<dagPc, call>>

HasRoot(c) == \E e \in RunEvents : Owner(e) = c /\ status[e] # "ABSENT"

\* IndependentSimulationService.run with the lock: start, or settle, or replay.
Serve(who, c) ==
  /\ active = None /\ <<who, c>> \in requests
  /\ requests' = requests \ {<<who, c>>}
  /\ \/ /\ run[c] \in {"NONE", "RETRYABLE", "RUNNING"} /\ ~HasRoot(c)
        /\ run' = [run EXCEPT ![c] = "RUNNING"]
        /\ active' = <<who, c>>
        /\ UNCHANGED <<dagPc, call>>
     \/ /\ run[c] = "RUNNING" /\ HasRoot(c)
        /\ run' = [run EXCEPT ![c] = "FAILED"]
        /\ Reply(who, c) /\ UNCHANGED active
     \/ /\ run[c] \in {"SUCCESS", "FAILED"}
        /\ Reply(who, c) /\ UNCHANGED <<run, active>>
  /\ UNCHANGED <<rowVars, dagRun, targets, producerVars, log, consumerVars, posts, faults>>

\* Mutant of Insert: without the ON CONFLICT clause.
Insert_Again(e) ==
  /\ status' = [status EXCEPT ![e] = "PENDING"]
  /\ outbox' = Append(outbox, e)

Insert(e) ==
  /\ status[e] = "ABSENT"
  /\ status' = [status EXCEPT ![e] = "PENDING"]
  /\ outbox' = Append(outbox, e)

\* publish_event, in the transaction of the generator's business write.
Emit ==
  /\ active # None
  /\ \E n \in 1..Length : LET c == active[2] IN
       /\ \A m \in 1..(n - 1) : status[<<c, m>>] # "ABSENT"
       /\ Insert(<<c, n>>)
  /\ UNCHANGED <<apiVars, dagVars, producerVars, log, consumerVars, posts, faults>>

\* The run ends: with all its rows it may have succeeded; it may fail at any point.
EndRun ==
  /\ active # None
  /\ LET c == active[2] IN
       /\ \E outcome \in {"SUCCESS", "FAILED", "RETRYABLE"} :
            /\ outcome = "SUCCESS" => \A n \in 1..Length : status[<<c, n>>] # "ABSENT"
            /\ outcome = "RETRYABLE" => ~HasRoot(c)
            /\ outcome = "FAILED" => HasRoot(c)
            /\ run' = [run EXCEPT ![c] = outcome]
       /\ Reply(active[1], c)
  /\ active' = None
  /\ UNCHANGED <<requests, rowVars, dagRun, targets, producerVars, log, consumerVars,
                 posts, faults>>

\* The API process dies: the callers that wait get an error, the run stays RUNNING.
ApiDies ==
  /\ Fault
  /\ active # None
  /\ active' = None /\ requests' = {}
  /\ dagPc' = [d \in Dags |-> IF dagPc[d] = "wait" THEN "select" ELSE dagPc[d]]
  /\ UNCHANGED <<run, rowVars, dagRun, call, targets, producerVars, log, consumerVars, posts>>

\* Another caller posts a correlation id again.
ClientPosts(c) ==
  /\ posts < MaxPosts /\ posts' = posts + 1
  /\ requests' = requests \cup {<<Client, c>>}
  /\ UNCHANGED <<run, active, rowVars, dagVars, producerVars, log, consumerVars, faults>>

\* The scheduler or a flow started by hand writes a row no run stands for.
InsertStray(e) ==
  /\ e \in Strays
  /\ Insert(e)
  /\ UNCHANGED <<apiVars, dagVars, producerVars, log, consumerVars, posts, faults>>

ApiNext ==
  \/ \E who \in Callers, c \in Corrs : Serve(who, c)
  \/ Emit \/ EndRun \/ ApiDies
  \/ \E c \in Corrs : ClientPosts(c)
  \/ \E e \in Strays : InsertStray(e)

-----------------------------------------------------------------------------
(* The simulation DAGs.                                                     *)

\* A DAG run starts; when a status check fails its calls are skipped and the
\* cleanup, whose trigger rule is all_done, runs all the same.
StartDag(d) ==
  /\ dagPc[d] = "idle"
  /\ dagRun' = [dagRun EXCEPT ![d] = IF @ > Len(Schedule[d]) THEN @ ELSE @ + 1]
  /\ call' = [call EXCEPT ![d] = 1]
  /\ dagPc' = [dagPc EXCEPT ![d] = "call"]
  /\ UNCHANGED <<apiVars, rowVars, targets, producerVars, log, consumerVars, posts, faults>>

ChecksFail(d) ==
  /\ Fault
  /\ dagPc[d] = "call" /\ call[d] = 1
  /\ dagPc' = [dagPc EXCEPT ![d] = "select"]
  /\ UNCHANGED <<apiVars, rowVars, dagRun, call, targets, producerVars, log,
                 consumerVars, posts>>

Post(d) ==
  /\ dagPc[d] = "call" /\ call[d] <= Len(Calls(d))
  /\ requests' = requests \cup {<<d, Calls(d)[call[d]]>>}
  /\ dagPc' = [dagPc EXCEPT ![d] = "wait"]
  /\ UNCHANGED <<run, active, rowVars, dagRun, call, targets, producerVars, log,
                 consumerVars, posts, faults>>

\* The read timeout of 300 s: the task fails while the API goes on with the run.
Timeout(d) ==
  /\ dagPc[d] = "wait"
  /\ dagPc' = [dagPc EXCEPT ![d] = "select"]
  /\ UNCHANGED <<apiVars, rowVars, dagRun, call, targets, producerVars, log,
                 consumerVars, posts, faults>>

CallsDone(d) ==
  /\ dagPc[d] = "call" /\ call[d] > Len(Calls(d))
  /\ dagPc' = [dagPc EXCEPT ![d] = "select"]
  /\ UNCHANGED <<apiVars, rowVars, dagRun, call, targets, producerVars, log,
                 consumerVars, posts, faults>>

Failed(c) == run[c] \in {"FAILED", "RETRYABLE"}

\* removing_invalid_*_cycles: the first statement reads the failed runs ...
SelectFailed(d) ==
  /\ dagPc[d] = "select"
  /\ LET found == {c \in ToSet(Calls(d)) : Failed(c)} IN
       /\ targets' = [targets EXCEPT ![d] = found]
       /\ dagPc' = [dagPc EXCEPT ![d] = IF found = {} THEN "trigger" ELSE "delete"]
  /\ UNCHANGED <<apiVars, rowVars, dagRun, call, producerVars, log, consumerVars,
                 posts, faults>>

Unpublished(c) == {e \in RunEvents : Owner(e) = c /\ status[e] = "PENDING"}

Removed(d) == UNION {Unpublished(c) : c \in targets[d]}

\* ... and the second one deletes their unpublished rows as they are by then.
DeleteRows(d) ==
  /\ dagPc[d] = "delete"
  /\ status' = [e \in Events |-> IF e \in Removed(d) THEN "DELETED" ELSE status[e]]
  /\ targets' = [targets EXCEPT ![d] = {}]
  /\ dagPc' = [dagPc EXCEPT ![d] = "trigger"]
  /\ UNCHANGED <<apiVars, outbox, dagRun, call, producerVars, log, consumerVars,
                 posts, faults>>

\* The cleanup loses its database: the DAG run ends without the trigger.
CleanupFails(d) ==
  /\ Fault
  /\ dagPc[d] \in {"select", "delete"}
  /\ targets' = [targets EXCEPT ![d] = {}]
  /\ dagPc' = [dagPc EXCEPT ![d] = "idle"]
  /\ UNCHANGED <<apiVars, rowVars, dagRun, call, producerVars, log, consumerVars, posts>>

\* Only the outbound DAG has a task after the cleanup, TriggerDagRunOperator.
\* Queued runs of the producer beyond the first are left out.
Trigger(d) ==
  /\ dagPc[d] = "trigger"
  /\ publisher' = [publisher EXCEPT !.queued = @ \/ d = "outbound"]
  /\ dagPc' = [dagPc EXCEPT ![d] = "idle"]
  /\ UNCHANGED <<apiVars, rowVars, dagRun, call, targets, batch, delivery, log,
                 consumerVars, posts, faults>>

DagStep(d) ==
  \/ StartDag(d) \/ Post(d) \/ CallsDone(d)
  \/ SelectFailed(d) \/ DeleteRows(d) \/ Trigger(d)
DagNext == \E d \in Dags : DagStep(d) \/ ChecksFail(d) \/ Timeout(d) \/ CleanupFails(d)

-----------------------------------------------------------------------------
(* The producer.                                                            *)

\* Mutant of Publishable: the runs that failed are left out, not those that run.
Publishable_NotFailed(e) ==
  status[e] = "PENDING" /\ (e \in RunEvents => ~Failed(Owner(e)))

\* PENDING, and no run of its correlation id is other than a SUCCESS.
Publishable(e) == status[e] = "PENDING" /\ (e \in RunEvents => run[Owner(e)] = "SUCCESS")

StartProducer ==
  /\ publisher.queued /\ ~publisher.running
  /\ publisher' = [running |-> TRUE, queued |-> FALSE]
  /\ batch' = {e \in ToSet(outbox) : Publishable(e)}
  /\ UNCHANGED <<apiVars, rowVars, dagVars, delivery, log, consumerVars, posts, faults>>

Place(e) == CHOOSE i \in DOMAIN outbox : outbox[i] = e

\* produce: the oldest row of the batch is handed to the client library; a type
\* without a topic is skipped.
Produce ==
  /\ \E e \in batch :
       /\ \A f \in batch : Place(e) <= Place(f)
       /\ batch' = batch \ {e}
       /\ delivery' = [delivery EXCEPT ![e] = IF TopicOf[e] = NoTopic THEN @ ELSE "sent"]
  /\ UNCHANGED <<apiVars, rowVars, dagVars, publisher, log, consumerVars, posts, faults>>

\* The library sends the messages of a topic in the order they were produced.
NextInTopic(e) ==
  /\ delivery[e] = "sent"
  /\ \A f \in Events : delivery[f] = "sent" /\ TopicOf[f] = TopicOf[e] => Place(e) <= Place(f)

Written(e) == log' = [log EXCEPT ![TopicOf[e]] = Append(@, e)]

Deliver(e) ==
  /\ NextInTopic(e) /\ Written(e)
  /\ delivery' = [delivery EXCEPT ![e] = "acked"]
  /\ UNCHANGED <<apiVars, rowVars, dagVars, publisher, batch, consumerVars, posts, faults>>

\* The acknowledgement is lost; without enable.idempotence the retry writes again.
DeliverUnacked(e) ==
  /\ Fault
  /\ NextInTopic(e) /\ Written(e)
  /\ UNCHANGED <<apiVars, rowVars, dagVars, producerVars, consumerVars, posts>>

\* The message times out in the library.
GiveUp(e) ==
  /\ Fault
  /\ delivery[e] = "sent"
  /\ delivery' = [delivery EXCEPT ![e] = "failed"]
  /\ UNCHANGED <<apiVars, rowVars, dagVars, publisher, batch, log, consumerVars, posts>>

\* Mutant of Confirmed: the error of the delivery report is not looked at.
Confirmed_Ignored(e) == delivery[e] \in {"acked", "failed"}

Confirmed(e) == delivery[e] = "acked"

\* onMsgSuccess, called from poll or flush.
OnMsgSuccess(e) ==
  /\ delivery[e] \in {"acked", "failed"}
  /\ status' = [status EXCEPT ![e] = IF Confirmed(e) /\ @ # "DELETED" THEN "COMPLETED" ELSE @]
  /\ delivery' = [delivery EXCEPT ![e] = "none"]
  /\ UNCHANGED <<apiVars, outbox, dagVars, publisher, batch, log, consumerVars, posts, faults>>

\* flush returns, the task succeeds, the consumer is triggered.
EndProducer ==
  /\ publisher.running /\ batch = {}
  /\ \A e \in Events : delivery[e] = "none"
  /\ publisher' = [publisher EXCEPT !.running = FALSE]
  /\ reader' = [reader EXCEPT !.queued = TRUE]
  /\ UNCHANGED <<apiVars, rowVars, dagVars, batch, delivery, log, position, committed,
                 raw, parsed, posts, faults>>

\* The producer dies, or a callback loses the database.
ProducerDies ==
  /\ Fault
  /\ publisher.running
  /\ publisher' = [publisher EXCEPT !.running = FALSE]
  /\ batch' = {} /\ delivery' = [e \in Events |-> "none"]
  /\ UNCHANGED <<apiVars, rowVars, dagVars, log, consumerVars, posts>>

ProducerStep ==
  \/ StartProducer \/ Produce \/ EndProducer
  \/ \E e \in Events : Deliver(e) \/ OnMsgSuccess(e)
ProducerNext ==
  \/ ProducerStep \/ ProducerDies
  \/ \E e \in Events : DeliverUnacked(e) \/ GiveUp(e)

-----------------------------------------------------------------------------
(* The consumer.                                                            *)

At(t) == <<t, position[t] - 1>>
Current == log[reader.topic][position[reader.topic]]

StartConsumer ==
  /\ reader.queued /\ reader.pc = "idle"
  /\ reader' = [reader EXCEPT !.pc = "poll", !.queued = FALSE, !.processed = 0]
  /\ position' = committed
  /\ UNCHANGED <<apiVars, rowVars, dagVars, producerVars, log, committed, raw, parsed,
                 posts, faults>>

Poll(t) ==
  /\ reader.pc = "poll" /\ reader.processed < MaxBatch
  /\ position[t] < Len(log[t])
  /\ position' = [position EXCEPT ![t] = @ + 1]
  /\ reader' = [reader EXCEPT !.pc = "raw", !.topic = t]
  /\ UNCHANGED <<apiVars, rowVars, dagVars, producerVars, log, committed, raw, parsed,
                 posts, faults>>

\* place_it_in_GCS: the path ends in the offset, so a second upload overwrites.
StoreRaw ==
  /\ reader.pc = "raw"
  /\ raw' = raw \cup {At(reader.topic)}
  /\ reader' = [reader EXCEPT !.pc = "parse"]
  /\ UNCHANGED <<apiVars, rowVars, dagVars, producerVars, log, position, committed,
                 parsed, posts, faults>>

\* Mutant of StoreParsed: what cannot be parsed is passed over.
StoreParsed_Skip ==
  /\ reader.pc = "parse"
  /\ parsed' = IF Current \in Poison THEN parsed ELSE parsed \cup {At(reader.topic)}
  /\ reader' = [reader EXCEPT !.pc = "commit"]
  /\ UNCHANGED <<apiVars, rowVars, dagVars, producerVars, log, position, committed, raw,
                 posts, faults>>

\* place_it_in_GCS_parse: a payload outside the schema raises, and the task ends
\* with the message uncommitted.
StoreParsed ==
  /\ reader.pc = "parse"
  /\ \/ /\ Current \in Poison
        /\ reader' = [reader EXCEPT !.pc = "idle"]
        /\ UNCHANGED parsed
     \/ /\ Current \notin Poison
        /\ parsed' = parsed \cup {At(reader.topic)}
        /\ reader' = [reader EXCEPT !.pc = "commit"]
  /\ UNCHANGED <<apiVars, rowVars, dagVars, producerVars, log, position, committed, raw,
                 posts, faults>>

Commit ==
  /\ reader.pc = "commit"
  /\ committed' = [committed EXCEPT ![reader.topic] = position[reader.topic]]
  /\ reader' = [reader EXCEPT !.pc = "poll", !.processed = @ + 1]
  /\ UNCHANGED <<apiVars, rowVars, dagVars, producerVars, log, position, raw, parsed,
                 posts, faults>>

\* max_messages, or ten seconds without a message.
EndConsumer ==
  /\ reader.pc = "poll"
  /\ reader.processed = MaxBatch \/ \A t \in Topics : position[t] = Len(log[t])
  /\ reader' = [reader EXCEPT !.pc = "idle"]
  /\ UNCHANGED <<apiVars, rowVars, dagVars, producerVars, log, position, committed, raw,
                 parsed, posts, faults>>

\* The task dies: an upload fails, the broker is gone, the worker is killed.
ConsumerDies ==
  /\ Fault
  /\ reader.pc # "idle"
  /\ reader' = [reader EXCEPT !.pc = "idle"]
  /\ UNCHANGED <<apiVars, rowVars, dagVars, producerVars, log, position, committed, raw,
                 parsed, posts>>

ConsumerStep ==
  \/ StartConsumer \/ StoreRaw \/ StoreParsed \/ Commit \/ EndConsumer
  \/ \E t \in Topics : Poll(t)

Next == ApiNext \/ DagNext \/ ProducerNext \/ ConsumerStep \/ ConsumerDies
Spec == Init /\ [][Next]_vars

\* The API serves who waits and its runs end; Airflow's scheduler keeps starting
\* the DAGs and their tasks go on; so do the producer's client library and the
\* consumer's loop.  No fault is fair, and neither is a timeout.
Fairness ==
  /\ WF_vars(Emit \/ EndRun \/ \E who \in Callers, c \in Corrs : Serve(who, c))
  /\ \A d \in Dags : WF_vars(DagStep(d))
  /\ WF_vars(StartProducer) /\ WF_vars(Produce) /\ WF_vars(EndProducer)
  /\ \A e \in Events : WF_vars(Deliver(e)) /\ WF_vars(OnMsgSuccess(e))
  /\ WF_vars(ConsumerStep)
  /\ \A t \in Topics : SF_vars(Poll(t))
FairSpec == Spec /\ Fairness

-----------------------------------------------------------------------------
(* Properties.                                                              *)

Published(e) == \E t \in Topics : e \in ToSet(log[t])
Stored(e) == \E t \in Topics : \E i \in DOMAIN log[t] : log[t][i] = e /\ <<t, i - 1>> \in parsed

\* No event of a run that failed, was cut off, or still runs ever reaches Kafka,
\* however cleanups, retries and the producer's snapshot overlap; and as long as
\* nobody repeats a call of the DAG, the cleanup deletes no row whose message is
\* or will be published.
OnlySuccessIsPublished ==
  \A e \in RunEvents : Published(e) => /\ run[Owner(e)] = "SUCCESS"
                                       /\ posts = 0 => status[e] # "DELETED"

\* A row is COMPLETED only when its message is in the topic: delivery errors and
\* a producer that dies between the send and the callback lose nothing.
CompletedIsPublished == \A e \in Events : status[e] = "COMPLETED" => Published(e)

\* What the consumer group has committed is in the bucket twice, raw and parsed,
\* whatever kills the task and wherever the next one starts.
CommittedIsStored ==
  \A t \in Topics : \A i \in 0..(committed[t] - 1) : <<t, i>> \in raw \cap parsed

\* Every event of a successful run reaches the bucket, through failed deliveries
\* and dead tasks, as long as no message is poison.
SuccessIsStored ==
  \A e \in RunEvents : (status[e] = "PENDING" /\ run[Owner(e)] = "SUCCESS") ~> Stored(e)
=============================================================================

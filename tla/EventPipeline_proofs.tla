------------------------- MODULE EventPipeline_proofs -------------------------
(***************************************************************************)
(* Proofs about EventPipeline, for any DAG schedules, runs, rows, topics   *)
(* and faults: only events of successful runs reach Kafka, a row is marked *)
(* only when its message is there, and what the consumer has committed is  *)
(* in the bucket.                                                          *)
(***************************************************************************)
EXTENDS EventPipeline, SequenceTheorems, TLAPS

\* A row's identity is in the outbox once: only an absent one is inserted.
OutboxInv == \A e \in Events : status[e] = "ABSENT" => e \notin ToSet(outbox)

\* A run that holds the execution lock is RUNNING.
ActiveInv == active # None => run[active[2]] = "RUNNING"

\* The message the consumer works on is the last one it has fetched, all before it
\* are stored, and so is its part the task has passed.
Behind(t) == 0..(position[t] - 1)
InHand(t, i) == reader.pc \in {"raw", "parse", "commit"} /\ t = reader.topic /\ i = position[t] - 1
ReaderInv ==
  /\ reader.pc \in {"raw", "parse", "commit"} =>
       reader.processed < MaxBatch /\ position[reader.topic] > 0
  /\ reader.pc # "idle" =>
       \A t \in Topics : \A i \in Behind(t) : InHand(t, i) \/ <<t, i>> \in raw \cap parsed
  /\ reader.pc \in {"parse", "commit"} => At(reader.topic) \in raw
  /\ reader.pc = "commit" => At(reader.topic) \in parsed

\* What the producer has in hand or has published.
Taken(e) == e \in batch \/ delivery[e] # "none" \/ Published(e)
ProducerInv ==
  /\ \A e \in Events : delivery[e] # "none" => TopicOf[e] # NoTopic
  /\ \A e \in Events : delivery[e] = "acked" => Published(e)
  /\ \A e \in RunEvents : Taken(e) => run[Owner(e)] = "SUCCESS"

\* Calls a DAG has still to make.
Ahead(d, k, j) ==
  \/ k > dagRun[d]
  \/ k = dagRun[d] /\ dagPc[d] = "call" /\ j >= call[d]
  \/ k = dagRun[d] /\ dagPc[d] = "wait" /\ j > call[d]
Due(c) ==
  \E d \in Dags : \E k \in DOMAIN Schedule[d] : \E j \in DOMAIN Schedule[d][k] :
    Schedule[d][k][j] = c /\ Ahead(d, k, j)

\* While no other caller repeats a call, a run is requested once, before it exists;
\* so a failed run stays failed.
OnceInv ==
  posts = 0 =>
    /\ \A c \in Corrs : Due(c) => run[c] = "NONE" /\ \A w \in Callers : <<w, c>> \notin requests
    /\ \A c \in Corrs, w \in Callers : <<w, c>> \in requests => run[c] = "NONE"
    /\ \A c \in Corrs, v, w \in Callers : <<v, c>> \in requests /\ <<w, c>> \in requests => v = w
    /\ \A d \in Dags : \A c \in targets[d] : Failed(c)
    /\ \A e \in RunEvents : status[e] = "DELETED" => Failed(Owner(e))

\* Calls are numbered from one.
CallInv == \A d \in Dags : call[d] > 0

IInv ==
  /\ TypeOK /\ CallInv /\ OutboxInv /\ ActiveInv /\ ReaderInv /\ ProducerInv /\ OnceInv
  /\ CommittedIsStored /\ CompletedIsPublished

USE DEF Callers

-----------------------------------------------------------------------------
(* What each part of the system leaves alone.                               *)

LEMMA ApiFrame ==
  ASSUME ApiNext
  PROVE  UNCHANGED <<dagRun, targets, producerVars, log, consumerVars>>
  BY DEF ApiNext, Serve, Emit, EndRun, ApiDies, ClientPosts, InsertStray, producerVars,
         consumerVars, dagVars

LEMMA DagFrame ==
  ASSUME DagNext
  PROVE  UNCHANGED <<run, active, outbox, batch, delivery, log, consumerVars, posts>>
  BY DEF DagNext, DagStep, StartDag, ChecksFail, Post, Timeout, CallsDone, SelectFailed,
         DeleteRows, CleanupFails, Trigger, apiVars, rowVars, producerVars, consumerVars

LEMMA ProducerFrame ==
  ASSUME ProducerNext, TypeOK
  PROVE  /\ UNCHANGED <<apiVars, outbox, dagVars, position, committed, raw, parsed, posts>>
         /\ reader' \in {reader, [reader EXCEPT !.queued = TRUE]}
  BY DEF ProducerNext, ProducerStep, StartProducer, Produce, EndProducer, Deliver, OnMsgSuccess,
         ProducerDies, DeliverUnacked, GiveUp, apiVars, rowVars, dagVars, producerVars, consumerVars

LEMMA ConsumerFrame ==
  ASSUME ConsumerStep \/ ConsumerDies
  PROVE  UNCHANGED <<apiVars, rowVars, dagVars, producerVars, log, posts>>
  BY DEF ConsumerStep, StartConsumer, StoreRaw, StoreParsed, Commit, EndConsumer, ConsumerDies,
         Poll, producerVars

-----------------------------------------------------------------------------
(* The consumer.                                                            *)

LEMMA ReaderType ==
  ASSUME TypeOK
  PROVE  /\ reader = [pc |-> reader.pc, queued |-> reader.queued, topic |-> reader.topic,
                      processed |-> reader.processed]
         /\ reader.pc \in {"idle", "poll", "raw", "parse", "commit"}
         /\ reader.queued \in BOOLEAN /\ reader.topic \in Topics
         /\ reader.processed \in 0..MaxBatch /\ reader.processed \in Nat
         /\ \A t \in Topics : position[t] \in Nat /\ committed[t] \in Nat
         /\ MaxBatch \in Nat \ {0}
  BY PipelineAssumption DEF TypeOK

LEMMA ReaderStep ==
  ASSUME TypeOK, ReaderInv, CommittedIsStored, ConsumerStep \/ ConsumerDies
  PROVE  ReaderInv' /\ CommittedIsStored'
  <1> USE ReaderType DEF InHand, Behind, At
  <1>1. CASE StartConsumer
    <2>1. reader' = [reader EXCEPT !.pc = "poll", !.queued = FALSE, !.processed = 0]
          /\ position' = committed /\ UNCHANGED <<committed, raw, parsed>>
      BY <1>1 DEF StartConsumer
    <2>2. reader'.pc = "poll"
      BY <2>1
    <2> QED
      BY <2>1, <2>2 DEF ReaderInv, CommittedIsStored
  <1>2. ASSUME NEW t \in Topics, Poll(t)
        PROVE  ReaderInv' /\ CommittedIsStored'
    <2>1. /\ reader.pc = "poll" /\ reader.processed < MaxBatch
          /\ position' = [position EXCEPT ![t] = @ + 1]
          /\ reader' = [reader EXCEPT !.pc = "raw", !.topic = t]
          /\ UNCHANGED <<committed, raw, parsed>>
      BY <1>2 DEF Poll
    <2>2. reader'.pc = "raw" /\ reader'.topic = t /\ reader'.processed = reader.processed
      BY <2>1
    <2>3. /\ position'[t] = position[t] + 1
          /\ \A u \in Topics \ {t} : position'[u] = position[u]
      BY <2>1 DEF TypeOK
    <2>4. ReaderInv'
      <3>1. ASSUME NEW u \in Topics, NEW i \in Behind(u)'
            PROVE  InHand(u, i)' \/ <<u, i>> \in raw' \cap parsed'
        <4>1. CASE u = t /\ i = position[t]
          BY <4>1, <2>2, <2>3
        <4>2. CASE ~(u = t /\ i = position[t])
          <5>1. i \in Behind(u)
            BY <4>2, <2>3
          <5> QED
            BY <5>1, <2>1 DEF ReaderInv
        <4> QED
          BY <4>1, <4>2
      <3> QED
        BY <3>1, <2>1, <2>2, <2>3 DEF ReaderInv
    <2> QED
      BY <2>4, <2>1 DEF CommittedIsStored
  <1>3. CASE StoreRaw
    <2>1. /\ reader.pc = "raw" /\ raw' = raw \cup {At(reader.topic)}
          /\ reader' = [reader EXCEPT !.pc = "parse"]
          /\ UNCHANGED <<position, committed, parsed>>
      BY <1>3 DEF StoreRaw
    <2>2. reader'.pc = "parse" /\ reader'.topic = reader.topic
          /\ reader'.processed = reader.processed
      BY <2>1
    <2> QED
      BY <2>1, <2>2 DEF ReaderInv, CommittedIsStored
  <1>4. CASE StoreParsed
    <2>1. /\ reader.pc = "parse" /\ UNCHANGED <<position, committed, raw>>
          /\ \/ parsed' = parsed /\ reader' = [reader EXCEPT !.pc = "idle"]
             \/ /\ parsed' = parsed \cup {At(reader.topic)}
                /\ reader' = [reader EXCEPT !.pc = "commit"]
      BY <1>4 DEF StoreParsed
    <2>2. /\ reader'.topic = reader.topic /\ reader'.processed = reader.processed
          /\ \/ reader'.pc = "idle" /\ parsed' = parsed
             \/ reader'.pc = "commit" /\ parsed' = parsed \cup {At(reader.topic)}
      BY <2>1
    <2> QED
      BY <2>1, <2>2 DEF ReaderInv, CommittedIsStored
  <1>5. CASE Commit
    <2>1. /\ reader.pc = "commit" /\ UNCHANGED <<position, raw, parsed>>
          /\ committed' = [committed EXCEPT ![reader.topic] = position[reader.topic]]
          /\ reader' = [reader EXCEPT !.pc = "poll", !.processed = @ + 1]
      BY <1>5 DEF Commit
    <2>2. reader'.pc = "poll"
      BY <2>1
    <2>3. \A t \in Topics : \A i \in 0..(position[t] - 1) : <<t, i>> \in raw \cap parsed
      BY <2>1 DEF ReaderInv
    <2>4. CommittedIsStored'
      BY <2>1, <2>3 DEF CommittedIsStored, TypeOK
    <2> QED
      BY <2>1, <2>2, <2>3, <2>4 DEF ReaderInv
  <1>6. CASE EndConsumer \/ ConsumerDies
    <2>1. reader' = [reader EXCEPT !.pc = "idle"] /\ UNCHANGED <<position, committed, raw, parsed>>
      BY <1>6 DEF EndConsumer, ConsumerDies
    <2>2. reader'.pc = "idle"
      BY <2>1
    <2> QED
      BY <2>1, <2>2 DEF ReaderInv, CommittedIsStored
  <1> QED
    BY <1>1, <1>2, <1>3, <1>4, <1>5, <1>6 DEF ConsumerStep

-----------------------------------------------------------------------------
(* The producer.                                                            *)

\* The topics only grow, by the message that is written.
LEMMA Growth ==
  ASSUME TypeOK, NEW e \in Events, TopicOf[e] # NoTopic, Written(e)
  PROVE  /\ log' \in [Topics -> Seq(Events)]
         /\ \A f \in Events : Published(f)' <=> Published(f) \/ f = e
  <1> DEFINE u == TopicOf[e]
  <1>1. u \in Topics /\ log \in [Topics -> Seq(Events)]
    BY PipelineAssumption DEF TypeOK
  <1>2. log' = [log EXCEPT ![u] = Append(@, e)]
    BY DEF Written
  <1>3. /\ Append(log[u], e) \in Seq(Events)
        /\ Len(Append(log[u], e)) = Len(log[u]) + 1
        /\ \A i \in 1..Len(log[u]) : Append(log[u], e)[i] = log[u][i]
        /\ Append(log[u], e)[Len(log[u]) + 1] = e
    BY <1>1, AppendProperties
  <1>4. ToSet(Append(log[u], e)) = ToSet(log[u]) \cup {e}
    <2> DEFINE n == Len(log[u])
    <2>1. n \in Nat /\ DOMAIN log[u] = 1..n /\ DOMAIN Append(log[u], e) = 1..(n + 1)
      BY <1>1, <1>3, LenProperties
    <2> QED
      BY <2>1, <1>3 DEF ToSet
  <1>5. \A t \in Topics : ToSet(log'[t]) = IF t = u THEN ToSet(log[t]) \cup {e} ELSE ToSet(log[t])
    BY <1>1, <1>2, <1>4
  <1>6. log' \in [Topics -> Seq(Events)]
    BY <1>1, <1>2, <1>3
  <1> HIDE DEF u
  <1> QED
    BY <1>1, <1>5, <1>6 DEF Published

LEMMA SamePublished ==
  ASSUME UNCHANGED log
  PROVE  \A e \in Events : Published(e)' = Published(e)
  BY DEF Published

\* Runs that have succeeded stay so.
LEMMA SuccessStays ==
  ASSUME TypeOK, ActiveInv, ApiNext
  PROVE  /\ ActiveInv'
         /\ \A c \in Corrs : run[c] = "SUCCESS" => run'[c] = "SUCCESS"
  <1> USE PipelineAssumption DEF TypeOK, ActiveInv
  <1>1. ASSUME NEW who \in Callers, NEW c \in Corrs, Serve(who, c)
        PROVE  ActiveInv' /\ \A d \in Corrs : run[d] = "SUCCESS" => run'[d] = "SUCCESS"
    BY <1>1 DEF Serve
  <1>2. CASE EndRun
    BY <1>2 DEF EndRun
  <1>3. CASE ApiDies
    BY <1>3 DEF ApiDies
  <1>4. CASE UNCHANGED <<run, active>>
    BY <1>4
  <1> QED
    BY <1>1, <1>2, <1>3, <1>4
    DEF ApiNext, Emit, ClientPosts, InsertStray, apiVars

LEMMA ProducerInvStep ==
  ASSUME IInv, ProducerNext
  PROVE  ProducerInv' /\ CompletedIsPublished' /\ OutboxInv'
  <1> USE DEF IInv
  <1>1. UNCHANGED <<run, outbox>>
    BY ProducerFrame DEF apiVars
  <1>2. /\ \A e \in RunEvents : e \in Events /\ Owner(e) \in Corrs
        /\ delivery \in [Events -> {"none", "sent", "acked", "failed"}]
        /\ status \in [Events -> {"ABSENT", "PENDING", "COMPLETED", "DELETED"}]
        /\ batch \subseteq Events
    BY DEF Events, RunEvents, Owner, TypeOK
  <1>3. CASE StartProducer
    <2>1. UNCHANGED <<log, delivery, status>>
          /\ batch' = {e \in ToSet(outbox) : Publishable(e)}
      BY <1>3 DEF StartProducer, rowVars
    <2> QED
      BY <1>1, <1>2, <2>1, SamePublished
      DEF ProducerInv, CompletedIsPublished, OutboxInv, Taken, Publishable
  <1>4. CASE Produce
    <2>1. PICK e \in batch : /\ batch' = batch \ {e}
                             /\ delivery' = [delivery EXCEPT ![e] =
                                               IF TopicOf[e] = NoTopic THEN @ ELSE "sent"]
      BY <1>4 DEF Produce
    <2>2. UNCHANGED <<log, status>>
      BY <1>4 DEF Produce, rowVars
    <2> QED
      BY <1>1, <1>2, <2>1, <2>2, SamePublished
      DEF ProducerInv, CompletedIsPublished, OutboxInv, Taken
  <1>5. ASSUME NEW e \in Events, Deliver(e) \/ DeliverUnacked(e)
        PROVE  ProducerInv' /\ CompletedIsPublished' /\ OutboxInv'
    <2>1. /\ delivery[e] = "sent" /\ Written(e) /\ UNCHANGED <<status, batch>>
          /\ delivery' \in {delivery, [delivery EXCEPT ![e] = "acked"]}
      BY <1>5 DEF Deliver, DeliverUnacked, NextInTopic, rowVars, producerVars
    <2>2. TopicOf[e] # NoTopic
      BY <2>1 DEF ProducerInv
    <2>3. \A f \in Events : Published(f)' <=> Published(f) \/ f = e
      BY <2>1, <2>2, Growth
    <2> QED
      BY <1>1, <1>2, <2>1, <2>2, <2>3 DEF ProducerInv, CompletedIsPublished, OutboxInv, Taken
  <1>6. ASSUME NEW e \in Events, GiveUp(e)
        PROVE  ProducerInv' /\ CompletedIsPublished' /\ OutboxInv'
    <2>1. /\ delivery[e] = "sent" /\ UNCHANGED <<status, batch, log>>
          /\ delivery' = [delivery EXCEPT ![e] = "failed"]
      BY <1>6 DEF GiveUp, rowVars
    <2> QED
      BY <1>1, <1>2, <2>1, SamePublished DEF ProducerInv, CompletedIsPublished, OutboxInv, Taken
  <1>7. ASSUME NEW e \in Events, OnMsgSuccess(e)
        PROVE  ProducerInv' /\ CompletedIsPublished' /\ OutboxInv'
    <2>1. /\ status' = [status EXCEPT ![e] =
                          IF delivery[e] = "acked" /\ @ # "DELETED" THEN "COMPLETED" ELSE @]
          /\ delivery' = [delivery EXCEPT ![e] = "none"] /\ UNCHANGED <<batch, log>>
      BY <1>7 DEF OnMsgSuccess, Confirmed
    <2>2. \A f \in Events : status'[f] = "COMPLETED" => status[f] = "COMPLETED" \/ delivery[f] = "acked"
      BY <1>2, <2>1
    <2>3. \A f \in Events : status'[f] = "ABSENT" => status[f] = "ABSENT"
      BY <1>2, <2>1
    <2>4. \A f \in Events : delivery'[f] # "none" => delivery'[f] = delivery[f]
      BY <1>2, <2>1
    <2> QED
      BY <1>1, <1>2, <2>1, <2>2, <2>3, <2>4, SamePublished
      DEF ProducerInv, CompletedIsPublished, OutboxInv, Taken
  <1>8. CASE EndProducer
    <2>1. UNCHANGED <<status, batch, log, delivery>>
      BY <1>8 DEF EndProducer, rowVars
    <2> QED
      BY <1>1, <1>2, <2>1, SamePublished DEF ProducerInv, CompletedIsPublished, OutboxInv, Taken
  <1>9. CASE ProducerDies
    <2>1. UNCHANGED <<status, log>> /\ batch' = {} /\ delivery' = [e \in Events |-> "none"]
      BY <1>9 DEF ProducerDies, rowVars
    <2> QED
      BY <1>1, <1>2, <2>1, SamePublished DEF ProducerInv, CompletedIsPublished, OutboxInv, Taken
  <1> QED
    BY <1>3, <1>4, <1>5, <1>6, <1>7, <1>8, <1>9 DEF ProducerNext, ProducerStep

-----------------------------------------------------------------------------
(* The rows, as the API inserts them and the cleanup deletes them.          *)

LEMMA Inserted ==
  ASSUME TypeOK, OutboxInv, NEW e \in Events, Insert(e)
  PROVE  /\ outbox' \in Seq(Events) /\ IsInjective(outbox')
         /\ status' \in [Events -> {"ABSENT", "PENDING", "COMPLETED", "DELETED"}]
         /\ OutboxInv'
         /\ \A f \in Events : status'[f] # status[f] => status[f] = "ABSENT" /\ status'[f] = "PENDING"
  <1> DEFINE n == Len(outbox)
  <1>1. /\ outbox \in Seq(Events) /\ IsInjective(outbox) /\ n \in Nat /\ DOMAIN outbox = 1..n
        /\ status \in [Events -> {"ABSENT", "PENDING", "COMPLETED", "DELETED"}]
    BY LenProperties DEF TypeOK
  <1>2. /\ status[e] = "ABSENT" /\ outbox' = Append(outbox, e)
        /\ status' = [status EXCEPT ![e] = "PENDING"]
    BY DEF Insert
  <1>3. /\ outbox' \in Seq(Events) /\ DOMAIN outbox' = 1..(n + 1)
        /\ \A i \in 1..n : outbox'[i] = outbox[i]
        /\ outbox'[n + 1] = e
    BY <1>1, <1>2, AppendProperties, LenProperties
  <1>4. \A i \in 1..n : outbox[i] # e
    BY <1>1, <1>2 DEF OutboxInv, ToSet
  <1>5. IsInjective(outbox')
    BY <1>1, <1>3, <1>4 DEF IsInjective
  <1>6. ToSet(outbox') = ToSet(outbox) \cup {e}
    BY <1>1, <1>3 DEF ToSet
  <1>7. OutboxInv'
    BY <1>1, <1>2, <1>6 DEF OutboxInv
  <1> QED
    BY <1>1, <1>2, <1>3, <1>5, <1>7

\* What the API does to the rows: nothing, or one insertion.
LEMMA ApiRows ==
  ASSUME TypeOK, ActiveInv, ApiNext
  PROVE  \/ UNCHANGED rowVars
         \/ /\ \E e \in Events : Insert(e)
            /\ UNCHANGED <<apiVars, call, dagPc, posts>>
  <1>1. CASE Emit
    <2>1. PICK m \in 1..Length : Insert(<<active[2], m>>)
      BY <1>1 DEF Emit
    <2>2. active[2] \in Corrs
      BY <1>1, PipelineAssumption DEF Emit, TypeOK
    <2>3. <<active[2], m>> \in Events
      BY <2>2 DEF Events, RunEvents
    <2>4. UNCHANGED <<apiVars, call, dagPc, posts>>
      BY <1>1 DEF Emit, dagVars
    <2> QED
      BY <2>1, <2>3, <2>4
  <1>2. ASSUME NEW e \in Strays, InsertStray(e)
        PROVE  (\E f \in Events : Insert(f)) /\ UNCHANGED <<apiVars, call, dagPc, posts>>
    BY <1>2 DEF InsertStray, Events, dagVars
  <1>3. CASE EndRun \/ ApiDies \/ \E c \in Corrs : ClientPosts(c) \/ \E who \in Callers : Serve(who, c)
    BY <1>3 DEF EndRun, ApiDies, ClientPosts, Serve
  <1> QED
    BY <1>1, <1>2, <1>3 DEF ApiNext

LEMMA DagRows ==
  ASSUME TypeOK, DagNext
  PROVE  /\ status' \in [Events -> {"ABSENT", "PENDING", "COMPLETED", "DELETED"}]
         /\ \A e \in Events : status'[e] # status[e] =>
              status[e] = "PENDING" /\ status'[e] = "DELETED"
  <1>1. status \in [Events -> {"ABSENT", "PENDING", "COMPLETED", "DELETED"}]
    BY DEF TypeOK
  <1>2. ASSUME NEW d \in Dags, DeleteRows(d)
        PROVE  /\ status' \in [Events -> {"ABSENT", "PENDING", "COMPLETED", "DELETED"}]
               /\ \A e \in Events : status'[e] # status[e] =>
                    status[e] = "PENDING" /\ status'[e] = "DELETED"
    <2>1. status' = [e \in Events |-> IF e \in Removed(d) THEN "DELETED" ELSE status[e]]
      BY <1>2 DEF DeleteRows
    <2>2. \A e \in Removed(d) : status[e] = "PENDING"
      BY DEF Removed, Unpublished
    <2> QED
      BY <1>1, <2>1, <2>2
  <1>3. CASE UNCHANGED status
    BY <1>1, <1>3
  <1> QED
    BY <1>2, <1>3 DEF DagNext, DagStep, StartDag, ChecksFail, Post, Timeout, CallsDone,
                      SelectFailed, CleanupFails, Trigger, rowVars

\* The producer's invariants hold while it stands still.
LEMMA ProducerRests ==
  ASSUME IInv, UNCHANGED <<batch, delivery, log>>,
         \A c \in Corrs : run[c] = "SUCCESS" => run'[c] = "SUCCESS",
         \A e \in Events : status'[e] = "COMPLETED" => status[e] = "COMPLETED"
  PROVE  ProducerInv' /\ CompletedIsPublished'
  <1>1. \A e \in RunEvents : e \in Events /\ Owner(e) \in Corrs
    BY DEF Events, RunEvents, Owner
  <1> QED
    BY <1>1, SamePublished DEF IInv, ProducerInv, CompletedIsPublished, Taken

LEMMA RowsStep ==
  ASSUME IInv, Next
  PROVE  ProducerInv' /\ CompletedIsPublished' /\ OutboxInv' /\ ActiveInv'
  <1> USE DEF IInv
  <1>1. CASE ApiNext
    <2>1. UNCHANGED <<batch, delivery, log>>
      BY <1>1, ApiFrame DEF producerVars
    <2>2. /\ OutboxInv'
          /\ \A e \in Events : status'[e] = "COMPLETED" => status[e] = "COMPLETED"
      <3>1. CASE UNCHANGED rowVars
        BY <3>1 DEF rowVars, OutboxInv
      <3>2. ASSUME NEW e \in Events, Insert(e)
            PROVE  /\ OutboxInv'
                   /\ \A f \in Events : status'[f] = "COMPLETED" => status[f] = "COMPLETED"
        BY <3>2, Inserted
      <3> QED
        BY <1>1, <3>1, <3>2, ApiRows
    <2> QED
      BY <1>1, <2>1, <2>2, SuccessStays, ProducerRests
  <1>2. CASE DagNext
    <2>1. UNCHANGED <<run, active, outbox, batch, delivery, log>>
      BY <1>2, DagFrame
    <2> QED
      BY <1>2, <2>1, DagRows, ProducerRests DEF OutboxInv, ActiveInv
  <1>3. CASE ProducerNext
    BY <1>3, ProducerInvStep, ProducerFrame DEF ActiveInv, apiVars
  <1>4. CASE ConsumerStep \/ ConsumerDies
    <2>1. UNCHANGED <<run, active, outbox, status, batch, delivery, log>>
      BY <1>4, ConsumerFrame DEF apiVars, rowVars, producerVars
    <2> QED
      BY <2>1, ProducerRests DEF OutboxInv, ActiveInv
  <1> QED
    BY <1>1, <1>2, <1>3, <1>4 DEF Next

LEMMA StorageStep ==
  ASSUME IInv, Next
  PROVE  ReaderInv' /\ CommittedIsStored'
  <1> USE DEF IInv
  <1>1. CASE UNCHANGED <<position, committed, raw, parsed>>
             /\ reader' \in {reader, [reader EXCEPT !.queued = TRUE]}
    <2>1. reader'.pc = reader.pc /\ reader'.topic = reader.topic
          /\ reader'.processed = reader.processed
      BY <1>1, ReaderType
    <2> QED
      BY <1>1, <2>1 DEF ReaderInv, CommittedIsStored, InHand, Behind, At
  <1>2. CASE ConsumerStep \/ ConsumerDies
    BY <1>2, ReaderStep
  <1>3. CASE ApiNext \/ DagNext
    BY <1>1, <1>3, ApiFrame, DagFrame DEF consumerVars
  <1>4. CASE ProducerNext
    BY <1>1, <1>4, ProducerFrame
  <1> QED
    BY <1>2, <1>3, <1>4 DEF Next

-----------------------------------------------------------------------------
(* Requests.                                                                *)

LEMMA Positions ==
  ASSUME NEW d \in Dags, NEW k \in DOMAIN Schedule[d]
  PROVE  /\ k \in 1..Len(Schedule[d]) /\ k \in Nat \ {0}
         /\ Len(Schedule[d]) \in Nat
         /\ Schedule[d][k] \in Seq(Corrs)
         /\ Len(Schedule[d][k]) \in Nat /\ DOMAIN Schedule[d][k] = 1..Len(Schedule[d][k])
         /\ \A j \in DOMAIN Schedule[d][k] : j \in Nat \ {0} /\ Schedule[d][k][j] \in Corrs
  <1>1. Schedule[d] \in Seq(Seq(Corrs))
    BY PipelineAssumption
  <1>2. Schedule[d][k] \in Seq(Corrs) /\ k \in 1..Len(Schedule[d]) /\ Len(Schedule[d]) \in Nat
    BY <1>1, LenProperties, ElementOfSeq
  <1>3. Len(Schedule[d][k]) \in Nat /\ DOMAIN Schedule[d][k] = 1..Len(Schedule[d][k])
    BY <1>2, LenProperties
  <1>4. \A j \in DOMAIN Schedule[d][k] : Schedule[d][k][j] \in Corrs
    BY <1>2, <1>3, ElementOfSeq
  <1> QED
    BY <1>2, <1>3, <1>4

LEMMA DueShrinks ==
  ASSUME \A d \in Dags : \A k, j \in Nat \ {0} : Ahead(d, k, j)' => Ahead(d, k, j)
  PROVE  \A c : Due(c)' => Due(c)
  BY Positions DEF Due

LEMMA DagFields ==
  ASSUME TypeOK, CallInv
  PROVE  /\ dagPc \in [Dags -> {"idle", "call", "wait", "select", "delete", "trigger"}]
         /\ dagRun \in [Dags -> Nat] /\ call \in [Dags -> Nat]
         /\ targets \in [Dags -> SUBSET Corrs]
         /\ \A d \in Dags : call[d] \in Nat \ {0} /\ dagRun[d] \in Nat
  BY DEF TypeOK, CallInv

\* The answer to a call takes the DAG on to the next one: nothing is due anew.
LEMMA Replied ==
  ASSUME TypeOK, CallInv, NEW who, NEW c, Reply(who, c), UNCHANGED dagRun
  PROVE  /\ \A x : Due(x)' => Due(x)
         /\ dagPc' \in [Dags -> {"idle", "call", "wait", "select", "delete", "trigger"}]
         /\ call' \in [Dags -> Nat] /\ CallInv'
  <1> USE DagFields
  <1>1. CASE who \in Dags /\ Awaits(who, c)
    <2>1. /\ dagPc[who] = "wait" /\ who \in Dags
          /\ dagPc' = [dagPc EXCEPT ![who] = "call"]
          /\ call' = [call EXCEPT ![who] = @ + 1]
      BY <1>1 DEF Reply, Awaits
    <2>2. \A d \in Dags : \A k, j \in Nat \ {0} : Ahead(d, k, j)' => Ahead(d, k, j)
      BY <2>1 DEF Ahead
    <2> QED
      BY <2>1, <2>2, DueShrinks DEF CallInv
  <1>2. CASE UNCHANGED <<dagPc, call>>
    <2>1. \A d \in Dags : \A k, j \in Nat \ {0} : Ahead(d, k, j)' => Ahead(d, k, j)
      BY <1>2 DEF Ahead
    <2> QED
      BY <1>2, <2>1, DueShrinks DEF CallInv
  <1> QED
    BY <1>1, <1>2 DEF Reply

\* Steps that start and end no run and post nothing.
LEMMA OnceKeeps ==
  ASSUME OnceInv, posts' = 0 => posts = 0, requests' \subseteq requests, UNCHANGED run,
         \A c : Due(c)' => Due(c),
         \A d \in Dags : \A c \in targets'[d] : c \in targets[d] \/ Failed(c),
         \A e \in RunEvents : status'[e] = "DELETED" /\ posts = 0 =>
            status[e] = "DELETED" \/ Failed(Owner(e))
  PROVE  OnceInv'
  BY DEF OnceInv, Failed, Owner

LEMMA ServeOnce ==
  ASSUME IInv, NEW who \in Callers, NEW c \in Corrs, Serve(who, c)
  PROVE  OnceInv' /\ CallInv'
  <1> USE DEF IInv
  <1>1. /\ <<who, c>> \in requests /\ requests' = requests \ {<<who, c>>}
        /\ UNCHANGED <<status, dagRun, targets, posts>>
    BY DEF Serve, rowVars
  <1>2. CASE /\ run' = [run EXCEPT ![c] = "RUNNING"] /\ UNCHANGED <<dagPc, call>>
             /\ run[c] \in {"NONE", "RETRYABLE", "RUNNING"}
    <2>1. run \in [Corrs -> {"NONE", "RUNNING", "RETRYABLE", "FAILED", "SUCCESS"}]
      BY DEF TypeOK
    <2>2. \A x : Due(x)' => Due(x)
      BY <1>1, <1>2 DEF Due, Ahead
    <2>3. \A d \in Corrs : d # c => run'[d] = run[d]
      BY <1>2, <2>1
    <2>4. ASSUME posts = 0
          PROVE  /\ run[c] = "NONE" /\ ~Due(c) /\ \A w \in Callers : <<w, c>> \notin requests'
                 /\ \A d \in Corrs : Failed(d) => d # c /\ Failed(d)'
      BY <1>1, <2>3, <2>4 DEF OnceInv, Failed
    <2>5. \A d \in Dags : targets[d] \subseteq Corrs
      BY DagFields
    <2>6. \A e \in RunEvents : Owner(e) \in Corrs
      BY DEF RunEvents, Owner
    <2> QED
      BY <1>1, <1>2, <2>2, <2>3, <2>4, <2>5, <2>6 DEF OnceInv, CallInv, Owner
  <1>3. CASE Reply(who, c) /\ run[c] \in {"RUNNING", "SUCCESS", "FAILED"}
    <2>1. posts # 0
      BY <1>1, <1>3 DEF OnceInv
    <2> QED
      BY <1>1, <1>3, <2>1, Replied DEF OnceInv
  <1> QED
    BY <1>2, <1>3 DEF Serve

LEMMA EndRunOnce ==
  ASSUME IInv, EndRun
  PROVE  OnceInv' /\ CallInv'
  <1> DEFINE c == active[2]
  <1> USE DEF IInv
  <1>1. /\ active # None /\ c \in Corrs /\ run[c] = "RUNNING"
        /\ run \in [Corrs -> {"NONE", "RUNNING", "RETRYABLE", "FAILED", "SUCCESS"}]
    BY PipelineAssumption DEF EndRun, TypeOK, ActiveInv
  <1>2. PICK o \in {"SUCCESS", "FAILED", "RETRYABLE"} : run' = [run EXCEPT ![c] = o]
    BY DEF EndRun
  <1>3. Reply(active[1], c) /\ UNCHANGED <<requests, status, dagRun, targets, posts>>
    BY DEF EndRun, rowVars
  <1>4. (\A x : Due(x)' => Due(x)) /\ CallInv'
    BY <1>3, Replied
  <1> HIDE DEF c
  <1>5. \A d \in Corrs : d # c => run'[d] = run[d]
    BY <1>1, <1>2
  <1>6. ASSUME posts = 0
        PROVE  /\ ~Due(c) /\ \A w \in Callers : <<w, c>> \notin requests
               /\ \A d \in Corrs : Failed(d) => d # c /\ Failed(d)'
    BY <1>1, <1>5, <1>6 DEF OnceInv, Failed
  <1>7. (\A d \in Dags : targets[d] \subseteq Corrs) /\ \A e \in RunEvents : Owner(e) \in Corrs
    BY DagFields DEF RunEvents, Owner
  <1> QED
    BY <1>3, <1>4, <1>5, <1>6, <1>7 DEF OnceInv, Owner

LEMMA ApiOnce ==
  ASSUME IInv, ApiNext
  PROVE  OnceInv' /\ CallInv'
  <1> USE DEF IInv
  <1>1. UNCHANGED <<dagRun, targets>>
    BY ApiFrame
  <1>2. CASE ApiDies
    <2>1. /\ requests' = {} /\ UNCHANGED <<run, call, status, posts>>
          /\ dagPc' = [d \in Dags |-> IF dagPc[d] = "wait" THEN "select" ELSE dagPc[d]]
      BY <1>2 DEF ApiDies, rowVars
    <2>2. \A d \in Dags : \A k, j \in Nat \ {0} : Ahead(d, k, j)' => Ahead(d, k, j)
      BY <1>1, <2>1 DEF Ahead
    <2> QED
      BY <1>1, <2>1, <2>2, DueShrinks, OnceKeeps DEF CallInv
  <1>3. ASSUME NEW c \in Corrs, ClientPosts(c)
        PROVE  OnceInv' /\ CallInv'
    <2>1. posts' = posts + 1 /\ UNCHANGED call /\ posts \in Nat
      BY <1>3, PipelineAssumption DEF ClientPosts, dagVars, TypeOK
    <2> QED
      BY <2>1 DEF OnceInv, CallInv
  <1>4. CASE Emit \/ \E e \in Strays : InsertStray(e)
    <2>1. UNCHANGED <<run, active, requests, dagPc, call, posts>>
      BY <1>4 DEF Emit, InsertStray, apiVars, dagVars
    <2>2. \A e \in Events : status'[e] = "DELETED" => status[e] = "DELETED"
      <3>1. CASE UNCHANGED rowVars
        BY <3>1 DEF rowVars
      <3>2. ASSUME NEW e \in Events, Insert(e)
            PROVE  \A f \in Events : status'[f] = "DELETED" => status[f] = "DELETED"
        BY <3>2, Inserted
      <3> QED
        BY <3>1, <3>2, ApiRows
    <2>3. \A x : Due(x)' => Due(x)
      BY <1>1, <2>1 DEF Due, Ahead
    <2>4. RunEvents \subseteq Events
      BY DEF Events
    <2> QED
      BY <1>1, <2>1, <2>2, <2>3, <2>4, OnceKeeps DEF CallInv
  <1> QED
    BY <1>2, <1>3, <1>4, ServeOnce, EndRunOnce DEF ApiNext

\* The one step that asks for a run: its call is no longer due, and no other call
\* of any DAG run has its correlation id.
LEMMA PostOnce ==
  ASSUME IInv, NEW d \in Dags, Post(d)
  PROVE  OnceInv'
  <1> USE DEF IInv
  <1>1. /\ dagPc[d] = "call" /\ call[d] <= Len(Calls(d)) /\ dagPc' = [dagPc EXCEPT ![d] = "wait"]
        /\ requests' = requests \cup {<<d, Calls(d)[call[d]]>>}
        /\ UNCHANGED <<run, status, dagRun, call, targets, posts>>
    BY DEF Post, rowVars
  <1>2. dagRun[d] \in DOMAIN Schedule[d]
    <2>1. CASE dagRun[d] \notin DOMAIN Schedule[d]
      <3>1. Len(Calls(d)) = 0
        BY <2>1, EmptySeq DEF Calls
      <3> QED
        BY <3>1, <1>1, DagFields
    <2> QED
      BY <2>1
  <1>3. PICK k \in DOMAIN Schedule[d] : k = dagRun[d]
    BY <1>2
  <1>4. Calls(d) = Schedule[d][k]
    BY <1>3 DEF Calls
  <1>5. PICK j \in DOMAIN Schedule[d][k] : j = call[d]
    BY <1>1, <1>4, Positions, DagFields
  <1>6. PICK c \in Corrs : c = Schedule[d][k][j]
    BY Positions
  <1>7. Calls(d)[call[d]] = c
    BY <1>4, <1>5, <1>6
  <1>8. Ahead(d, k, j) /\ Due(c)
    BY <1>1, <1>3, <1>5, <1>6, Positions, DagFields DEF Due, Ahead
  <1>9. \A x \in Dags : \A y, z \in Nat \ {0} : Ahead(x, y, z)' => Ahead(x, y, z)
    BY <1>1, DagFields DEF Ahead
  <1>10. ~Ahead(d, k, j)'
    BY <1>1, <1>3, <1>5, Positions, DagFields DEF Ahead
  <1>11. ~Due(c)'
    <2>1. SUFFICES ASSUME Due(c)' PROVE FALSE
      OBVIOUS
    <2>2. PICK x \in Dags : \E y \in DOMAIN Schedule[x] : \E z \in DOMAIN Schedule[x][y] :
            Schedule[x][y][z] = c /\ Ahead(x, y, z)'
      BY <2>1 DEF Due
    <2>3. PICK y \in DOMAIN Schedule[x] : \E z \in DOMAIN Schedule[x][y] :
            Schedule[x][y][z] = c /\ Ahead(x, y, z)'
      BY <2>2
    <2>4. PICK z \in DOMAIN Schedule[x][y] : Schedule[x][y][z] = c /\ Ahead(x, y, z)'
      BY <2>3
    <2>5. x = d /\ y = k /\ z = j
      BY <1>6, <2>4, CallsAreDistinct
    <2> QED
      BY <1>10, <2>4, <2>5
  <1>12. \A x : Due(x)' => Due(x)
    BY <1>9, DueShrinks
  <1>13. requests' = requests \cup {<<d, c>>}
    BY <1>1, <1>7
  <1>14. ASSUME posts = 0
        PROVE  run[c] = "NONE" /\ \A w \in Callers : <<w, c>> \notin requests
    BY <1>8, <1>14 DEF OnceInv
  <1>15. (\A x \in Dags : \A y \in targets[x] : Failed(y)' = Failed(y))
         /\ \A e \in RunEvents : Failed(Owner(e))' = Failed(Owner(e))
    BY <1>1 DEF Failed, Owner
  <1>16. ASSUME posts = 0, NEW x \in Corrs, NEW w \in Callers, <<w, x>> \in requests'
         PROVE  /\ run'[x] = "NONE" /\ ~Due(x)'
                /\ \A v \in Callers : <<v, x>> \in requests' => v = w
    <2>1. CASE x = c
      <3>1. w = d
        BY <1>13, <1>14, <1>16, <2>1
      <3> QED
        BY <1>1, <1>11, <1>13, <1>14, <1>16, <2>1, <3>1
    <2>2. CASE x # c
      <3>1. \A v \in Callers : <<v, x>> \in requests' => <<v, x>> \in requests
        BY <1>13, <2>2
      <3>2. ~Due(x)
        BY <3>1, <1>16 DEF OnceInv
      <3> QED
        BY <3>1, <3>2, <1>1, <1>12, <1>16 DEF OnceInv
    <2> QED
      BY <2>1, <2>2
  <1> QED
    <2> SUFFICES ASSUME posts' = 0 PROVE OnceInv'
      BY DEF OnceInv
    <2>1. posts = 0
      BY <1>1
    <2>2. \A x \in Corrs : Due(x)' => run'[x] = "NONE"
      BY <1>1, <1>12, <2>1 DEF OnceInv
    <2>3. \A x \in Dags : \A y \in targets'[x] : Failed(y)'
      BY <1>1, <1>15, <2>1 DEF OnceInv
    <2>4. \A e \in RunEvents : status'[e] = "DELETED" => Failed(Owner(e))'
      BY <1>1, <1>15, <2>1 DEF OnceInv
    <2> QED
      BY <2>1, <2>2, <2>3, <2>4, <1>16 DEF OnceInv

LEMMA DagOnce ==
  ASSUME IInv, DagNext
  PROVE  OnceInv' /\ CallInv'
  <1> USE DagFields DEF IInv
  <1>1. UNCHANGED <<run, active, posts>>
    BY DagFrame
  <1>2. RunEvents \subseteq Events
    BY DEF Events
  <1>3. ASSUME NEW d \in Dags, StartDag(d)
        PROVE  OnceInv' /\ CallInv'
    <2>1. /\ dagRun' = [dagRun EXCEPT ![d] = IF @ > Len(Schedule[d]) THEN @ ELSE @ + 1]
          /\ call' = [call EXCEPT ![d] = 1] /\ dagPc' = [dagPc EXCEPT ![d] = "call"]
          /\ UNCHANGED <<requests, status, targets>>
      BY <1>3 DEF StartDag, apiVars, rowVars
    <2>2. ASSUME NEW x \in Dags, NEW k \in DOMAIN Schedule[x], NEW j \in Nat \ {0}, Ahead(x, k, j)'
          PROVE  Ahead(x, k, j)
      <3>1. CASE x = d
        BY <2>1, <2>2, <3>1, Positions DEF Ahead
      <3>2. CASE x # d
        BY <2>1, <2>2, <3>2 DEF Ahead
      <3> QED
        BY <3>1, <3>2
    <2>3. \A x : Due(x)' => Due(x)
      BY <2>2, Positions DEF Due
    <2>4. CallInv'
      BY <2>1 DEF CallInv
    <2> QED
      BY <1>1, <2>1, <2>3, <2>4, OnceKeeps
  <1>4. ASSUME NEW d \in Dags, NEW l \in {"select", "delete", "trigger", "idle"},
               dagPc' = [dagPc EXCEPT ![d] = l], UNCHANGED <<dagRun, call, requests>>,
               \A x \in Dags : \A c \in targets'[x] : c \in targets[x] \/ Failed(c),
               \A e \in RunEvents : status'[e] = "DELETED" /\ posts = 0 =>
                 status[e] = "DELETED" \/ Failed(Owner(e))
        PROVE  OnceInv' /\ CallInv'
    <2>1. \A x \in Dags : \A k, j \in Nat \ {0} : Ahead(x, k, j)' => Ahead(x, k, j)
      BY <1>4 DEF Ahead
    <2>2. CallInv'
      BY <1>4 DEF CallInv
    <2> QED
      BY <1>1, <1>4, <2>1, <2>2, DueShrinks, OnceKeeps
  <1>5. ASSUME NEW d \in Dags, ChecksFail(d) \/ Timeout(d) \/ CallsDone(d)
        PROVE  OnceInv' /\ CallInv'
    BY <1>4, <1>5 DEF ChecksFail, Timeout, CallsDone, apiVars, rowVars
  <1>6. ASSUME NEW d \in Dags, SelectFailed(d)
        PROVE  OnceInv' /\ CallInv'
    <2> DEFINE found == {c \in ToSet(Calls(d)) : Failed(c)}
    <2>1. /\ targets' = [targets EXCEPT ![d] = found]
          /\ dagPc' = [dagPc EXCEPT ![d] = IF found = {} THEN "trigger" ELSE "delete"]
          /\ UNCHANGED <<dagRun, call, requests, status>>
      BY <1>6 DEF SelectFailed, apiVars, rowVars
    <2>2. \A c \in found : Failed(c)
      OBVIOUS
    <2> HIDE DEF found
    <2>3. \A x \in Dags : \A c \in targets'[x] : c \in targets[x] \/ Failed(c)
      BY <2>1, <2>2
    <2> QED
      BY <1>4, <2>1, <2>3
  <1>7. ASSUME NEW d \in Dags, DeleteRows(d)
        PROVE  OnceInv' /\ CallInv'
    <2>1. /\ targets' = [targets EXCEPT ![d] = {}] /\ dagPc' = [dagPc EXCEPT ![d] = "trigger"]
          /\ status' = [e \in Events |-> IF e \in Removed(d) THEN "DELETED" ELSE status[e]]
          /\ UNCHANGED <<dagRun, call, requests>>
      BY <1>7 DEF DeleteRows, apiVars
    <2>2. \A e \in Removed(d) : Owner(e) \in targets[d]
      BY DEF Removed, Unpublished
    <2>3. \A e \in RunEvents : status'[e] = "DELETED" /\ posts = 0 =>
            status[e] = "DELETED" \/ Failed(Owner(e))
      BY <1>2, <2>1, <2>2 DEF OnceInv
    <2>4. \A x \in Dags : \A c \in targets'[x] : c \in targets[x]
      BY <2>1
    <2> QED
      BY <1>4, <2>1, <2>3, <2>4
  <1>8. ASSUME NEW d \in Dags, CleanupFails(d) \/ Trigger(d)
        PROVE  OnceInv' /\ CallInv'
    <2>1. /\ dagPc' = [dagPc EXCEPT ![d] = "idle"] /\ UNCHANGED <<dagRun, call, requests, status>>
          /\ targets' \in {targets, [targets EXCEPT ![d] = {}]}
      BY <1>8 DEF CleanupFails, Trigger, apiVars, rowVars
    <2>2. \A x \in Dags : \A c \in targets'[x] : c \in targets[x]
      BY <2>1
    <2> QED
      BY <1>4, <2>1, <2>2
  <1>9. ASSUME NEW d \in Dags, Post(d)
        PROVE  OnceInv' /\ CallInv'
    BY <1>9, PostOnce DEF Post, CallInv
  <1> QED
    BY <1>3, <1>5, <1>6, <1>7, <1>8, <1>9 DEF DagNext, DagStep

LEMMA OnceStep ==
  ASSUME IInv, Next
  PROVE  OnceInv' /\ CallInv'
  <1> USE DEF IInv
  <1>1. ASSUME UNCHANGED <<run, requests, dagVars, posts>>,
               \A e \in RunEvents : status'[e] = "DELETED" => status[e] = "DELETED"
        PROVE  OnceInv' /\ CallInv'
    <2>1. \A x : Due(x)' => Due(x)
      BY <1>1 DEF dagVars, Due, Ahead
    <2> QED
      BY <1>1, <2>1, OnceKeeps DEF dagVars, CallInv
  <1>2. CASE ProducerNext
    <2>1. \A e \in Events : status'[e] = "DELETED" => status[e] = "DELETED"
      <3>1. ASSUME NEW f \in Events, OnMsgSuccess(f)
            PROVE  \A e \in Events : status'[e] = "DELETED" => status[e] = "DELETED"
        BY <3>1 DEF OnMsgSuccess, TypeOK
      <3>2. CASE UNCHANGED status
        BY <3>2
      <3> QED
        BY <1>2, <3>1, <3>2
        DEF ProducerNext, ProducerStep, StartProducer, Produce, EndProducer, Deliver,
            ProducerDies, DeliverUnacked, GiveUp, rowVars
    <2>2. RunEvents \subseteq Events
      BY DEF Events
    <2> QED
      BY <1>1, <1>2, <2>1, <2>2, ProducerFrame DEF apiVars
  <1>3. CASE ConsumerStep \/ ConsumerDies
    BY <1>1, <1>3, ConsumerFrame DEF apiVars, rowVars
  <1> QED
    BY <1>2, <1>3, ApiOnce, DagOnce DEF Next

-----------------------------------------------------------------------------
(* Types.                                                                   *)

ApiTypes ==
  /\ run \in [Corrs -> {"NONE", "RUNNING", "RETRYABLE", "FAILED", "SUCCESS"}]
  /\ requests \subseteq Callers \X Corrs
  /\ active \in (Callers \X Corrs) \cup {None}
RowTypes ==
  /\ outbox \in Seq(Events) /\ IsInjective(outbox)
  /\ status \in [Events -> {"ABSENT", "PENDING", "COMPLETED", "DELETED"}]
DagTypes ==
  /\ dagPc \in [Dags -> {"idle", "call", "wait", "select", "delete", "trigger"}]
  /\ dagRun \in [Dags -> Nat] /\ call \in [Dags -> Nat]
  /\ targets \in [Dags -> SUBSET Corrs]
PublisherType == publisher \in [running : BOOLEAN, queued : BOOLEAN]
ProducerTypes ==
  /\ batch \subseteq Events
  /\ delivery \in [Events -> {"none", "sent", "acked", "failed"}]
  /\ log \in [Topics -> Seq(Events)]
ConsumerTypes ==
  /\ reader \in [pc : {"idle", "poll", "raw", "parse", "commit"}, queued : BOOLEAN,
                 topic : Topics, processed : 0..MaxBatch]
  /\ position \in [Topics -> Nat] /\ committed \in [Topics -> Nat]
  /\ raw \subseteq Offsets /\ parsed \subseteq Offsets
BoundTypes == posts \in 0..MaxPosts /\ faults \in 0..MaxFaults

LEMMA TypeParts ==
  /\ TypeOK <=> /\ ApiTypes /\ RowTypes /\ DagTypes /\ PublisherType /\ ProducerTypes
                /\ ConsumerTypes /\ BoundTypes
  /\ TypeOK' <=> /\ ApiTypes' /\ RowTypes' /\ DagTypes' /\ PublisherType' /\ ProducerTypes'
                 /\ ConsumerTypes' /\ BoundTypes'
  BY DEF TypeOK, ApiTypes, RowTypes, DagTypes, PublisherType, ProducerTypes, ConsumerTypes, BoundTypes

\* The bounded counters, in every step.
LEMMA BoundStep ==
  ASSUME TypeOK, Next
  PROVE  BoundTypes'
  <1> USE PipelineAssumption
  <1>1. BoundTypes
    BY TypeParts
  <1>2. UNCHANGED faults \/ Fault
    BY DEF Next, ApiNext, Serve, Emit, EndRun, ApiDies, ClientPosts, InsertStray,
           DagNext, DagStep, StartDag, ChecksFail, Post, Timeout, CallsDone, SelectFailed,
           DeleteRows, CleanupFails, Trigger,
           ProducerNext, ProducerStep, StartProducer, Produce, EndProducer, Deliver,
           OnMsgSuccess, ProducerDies, DeliverUnacked, GiveUp,
           ConsumerStep, StartConsumer, StoreRaw, StoreParsed, Commit, EndConsumer, Poll,
           ConsumerDies
  <1>3. UNCHANGED posts \/ (posts < MaxPosts /\ posts' = posts + 1)
    <2>1. CASE ApiNext
      BY <2>1 DEF ApiNext, Serve, Emit, EndRun, ApiDies, ClientPosts, InsertStray
    <2> QED
      BY <2>1, DagFrame, ProducerFrame, ConsumerFrame DEF Next
  <1> QED
    BY <1>1, <1>2, <1>3 DEF BoundTypes, Fault

LEMMA ApiTypeStep ==
  ASSUME IInv, ApiNext
  PROVE  ApiTypes' /\ RowTypes' /\ DagTypes'
  <1> USE DEF IInv
  <1>1. /\ ApiTypes /\ RowTypes /\ DagTypes /\ UNCHANGED <<dagRun, targets>>
    BY TypeParts, ApiFrame
  <1>2. ASSUME NEW who \in Callers, NEW c \in Corrs, Serve(who, c)
        PROVE  ApiTypes' /\ RowTypes' /\ DagTypes'
    <2>1. ApiTypes' /\ RowTypes'
      BY <1>1, <1>2 DEF Serve, ApiTypes, RowTypes, rowVars
    <2>2. DagTypes'
      BY <1>1, <1>2, Replied DEF Serve, DagTypes
    <2> QED
      BY <2>1, <2>2
  <1>3. CASE EndRun
    <2>1. active[2] \in Corrs
      BY <1>3, PipelineAssumption DEF EndRun, TypeOK
    <2>2. ApiTypes' /\ RowTypes'
      BY <1>1, <1>3, <2>1 DEF EndRun, ApiTypes, RowTypes, rowVars
    <2>3. DagTypes'
      BY <1>1, <1>3, Replied DEF EndRun, DagTypes
    <2> QED
      BY <2>2, <2>3
  <1>4. CASE ApiDies
    <2>1. ApiTypes' /\ RowTypes'
      BY <1>1, <1>4 DEF ApiDies, ApiTypes, RowTypes, rowVars
    <2>2. DagTypes'
      BY <1>1, <1>4 DEF ApiDies, DagTypes
    <2> QED
      BY <2>1, <2>2
  <1>5. ASSUME NEW c \in Corrs, ClientPosts(c)
        PROVE  ApiTypes' /\ RowTypes' /\ DagTypes'
    BY <1>1, <1>5 DEF ClientPosts, ApiTypes, RowTypes, DagTypes, rowVars, dagVars
  <1>6. CASE Emit \/ \E e \in Strays : InsertStray(e)
    <2>1. UNCHANGED <<apiVars, dagPc, call>>
      BY <1>6 DEF Emit, InsertStray, dagVars
    <2>2. RowTypes'
      <3>1. CASE UNCHANGED rowVars
        BY <1>1, <3>1 DEF rowVars, RowTypes
      <3>2. ASSUME NEW e \in Events, Insert(e)
            PROVE  RowTypes'
        BY <3>2, Inserted DEF RowTypes
      <3> QED
        BY <3>1, <3>2, ApiRows
    <2> QED
      BY <1>1, <2>1, <2>2 DEF apiVars, ApiTypes, DagTypes
  <1> QED
    BY <1>2, <1>3, <1>4, <1>5, <1>6 DEF ApiNext

LEMMA DagTypeStep ==
  ASSUME IInv, DagNext
  PROVE  ApiTypes' /\ RowTypes' /\ DagTypes' /\ PublisherType'
  <1> USE DEF IInv
  <1>1. /\ ApiTypes /\ RowTypes /\ DagTypes /\ PublisherType
        /\ UNCHANGED <<run, active, outbox>>
    BY TypeParts, DagFrame
  <1>2. RowTypes'
    BY <1>1, DagRows DEF RowTypes
  <1>3. ASSUME NEW d \in Dags, Post(d)
        PROVE  ApiTypes' /\ DagTypes' /\ PublisherType'
    <2>1. /\ dagPc' = [dagPc EXCEPT ![d] = "wait"]
          /\ requests' = requests \cup {<<d, Calls(d)[call[d]]>>}
          /\ UNCHANGED <<dagRun, call, targets, publisher>>
      BY <1>3 DEF Post, producerVars
    <2>2. Calls(d)[call[d]] \in Corrs
      <3>1. dagRun[d] \in DOMAIN Schedule[d]
        <4>1. CASE dagRun[d] \notin DOMAIN Schedule[d]
          BY <4>1, <1>3, EmptySeq, DagFields DEF Calls, Post
        <4> QED
          BY <4>1
      <3> QED
        BY <3>1, <1>3, Positions, DagFields DEF Calls, Post
    <2> QED
      BY <1>1, <2>1, <2>2 DEF ApiTypes, DagTypes, PublisherType
  <1>4. ASSUME NEW d \in Dags, SelectFailed(d)
        PROVE  ApiTypes' /\ DagTypes' /\ PublisherType'
    <2> DEFINE found == {c \in ToSet(Calls(d)) : Failed(c)}
    <2>1. /\ targets' = [targets EXCEPT ![d] = found]
          /\ dagPc' = [dagPc EXCEPT ![d] = IF found = {} THEN "trigger" ELSE "delete"]
          /\ UNCHANGED <<requests, dagRun, call, publisher>>
      BY <1>4 DEF SelectFailed, apiVars, producerVars
    <2>2. found \subseteq Corrs
      <3>1. CASE dagRun[d] \in DOMAIN Schedule[d]
        BY <3>1, Positions DEF Calls, ToSet
      <3>2. CASE dagRun[d] \notin DOMAIN Schedule[d]
        BY <3>2, EmptySeq DEF Calls, ToSet
      <3> QED
        BY <3>1, <3>2
    <2> HIDE DEF found
    <2> QED
      BY <1>1, <2>1, <2>2 DEF ApiTypes, DagTypes, PublisherType
  <1>5. ASSUME NEW d \in Dags,
               StartDag(d) \/ ChecksFail(d) \/ Timeout(d) \/ CallsDone(d)
                 \/ DeleteRows(d) \/ CleanupFails(d)
        PROVE  ApiTypes' /\ DagTypes' /\ PublisherType'
    <2>1. UNCHANGED <<requests, publisher>>
      BY <1>5 DEF StartDag, ChecksFail, Timeout, CallsDone, DeleteRows, CleanupFails,
                  apiVars, producerVars
    <2>2. DagTypes'
      <3>1. dagRun' \in [Dags -> Nat] /\ call' \in [Dags -> Nat]
        <4>1. CASE UNCHANGED <<dagRun, call>>
          BY <1>1, <4>1 DEF DagTypes
        <4>2. CASE StartDag(d)
          BY <1>1, <4>2 DEF StartDag, DagTypes
        <4> QED
          BY <1>5, <4>1, <4>2 DEF ChecksFail, Timeout, CallsDone, DeleteRows, CleanupFails
      <3>2. targets' \in {targets, [targets EXCEPT ![d] = {}]}
        BY <1>5 DEF StartDag, ChecksFail, Timeout, CallsDone, DeleteRows, CleanupFails
      <3>3. \E l \in {"idle", "call", "select", "trigger"} : dagPc' = [dagPc EXCEPT ![d] = l]
        BY <1>5 DEF StartDag, ChecksFail, Timeout, CallsDone, DeleteRows, CleanupFails
      <3> QED
        BY <1>1, <3>1, <3>2, <3>3 DEF DagTypes
    <2> QED
      BY <1>1, <2>1, <2>2 DEF ApiTypes, PublisherType
  <1>6. ASSUME NEW d \in Dags, Trigger(d)
        PROVE  ApiTypes' /\ DagTypes' /\ PublisherType'
    BY <1>1, <1>6 DEF Trigger, apiVars, ApiTypes, DagTypes, PublisherType
  <1> QED
    BY <1>2, <1>3, <1>4, <1>5, <1>6 DEF DagNext, DagStep

LEMMA ProducerTypeStep ==
  ASSUME IInv, ProducerNext
  PROVE  PublisherType' /\ ProducerTypes' /\ RowTypes'
  <1> USE DEF IInv
  <1>1. PublisherType /\ ProducerTypes /\ RowTypes /\ UNCHANGED outbox
    BY TypeParts, ProducerFrame
  <1>2. CASE StartProducer
    <2>1. /\ publisher' = [running |-> TRUE, queued |-> FALSE]
          /\ batch' = {e \in ToSet(outbox) : Publishable(e)}
          /\ UNCHANGED <<status, delivery, log>>
      BY <1>2 DEF StartProducer, rowVars
    <2>2. ToSet(outbox) \subseteq Events
      BY <1>1, LenProperties, ElementOfSeq DEF RowTypes, ToSet
    <2> QED
      BY <1>1, <2>1, <2>2 DEF PublisherType, ProducerTypes, RowTypes
  <1>3. CASE Produce
    <2>1. PICK e \in batch : /\ batch' = batch \ {e}
                             /\ delivery' = [delivery EXCEPT ![e] =
                                               IF TopicOf[e] = NoTopic THEN @ ELSE "sent"]
      BY <1>3 DEF Produce
    <2>2. UNCHANGED <<publisher, log, status>>
      BY <1>3 DEF Produce, rowVars
    <2> QED
      BY <1>1, <2>1, <2>2 DEF PublisherType, ProducerTypes, RowTypes
  <1>4. ASSUME NEW e \in Events, Deliver(e) \/ DeliverUnacked(e)
        PROVE  PublisherType' /\ ProducerTypes' /\ RowTypes'
    <2>1. /\ delivery[e] = "sent" /\ Written(e) /\ UNCHANGED <<status, batch, publisher>>
          /\ delivery' \in {delivery, [delivery EXCEPT ![e] = "acked"]}
      BY <1>4 DEF Deliver, DeliverUnacked, NextInTopic, rowVars, producerVars
    <2>2. log' \in [Topics -> Seq(Events)]
      BY <2>1, Growth DEF ProducerInv
    <2> QED
      BY <1>1, <2>1, <2>2 DEF PublisherType, ProducerTypes, RowTypes
  <1>5. ASSUME NEW e \in Events, GiveUp(e) \/ OnMsgSuccess(e)
        PROVE  PublisherType' /\ ProducerTypes' /\ RowTypes'
    <2>1. /\ UNCHANGED <<batch, publisher, log>>
          /\ \E x \in {"failed", "none"} : delivery' = [delivery EXCEPT ![e] = x]
          /\ status' = status \/ status' = [status EXCEPT ![e] = "COMPLETED"]
      BY <1>1, <1>5 DEF GiveUp, OnMsgSuccess, rowVars, RowTypes
    <2> QED
      BY <1>1, <2>1 DEF PublisherType, ProducerTypes, RowTypes
  <1>6. CASE EndProducer \/ ProducerDies
    <2>1. /\ publisher' = [publisher EXCEPT !.running = FALSE] /\ UNCHANGED <<status, log>>
          /\ batch' \in {batch, {}} /\ delivery' \in {delivery, [e \in Events |-> "none"]}
      BY <1>6 DEF EndProducer, ProducerDies, rowVars
    <2> QED
      BY <1>1, <2>1 DEF PublisherType, ProducerTypes, RowTypes
  <1> QED
    BY <1>2, <1>3, <1>4, <1>5, <1>6 DEF ProducerNext, ProducerStep

LEMMA ConsumerTypeStep ==
  ASSUME IInv, ConsumerStep \/ ConsumerDies
  PROVE  ConsumerTypes'
  <1> USE ReaderType DEF IInv
  <1>1. ConsumerTypes
    BY TypeParts
  <1>2. ASSUME NEW pc \in {"idle", "poll", "raw", "parse", "commit"}, NEW q \in BOOLEAN,
               NEW t \in Topics, NEW n \in 0..MaxBatch,
               reader' = [pc |-> pc, queued |-> q, topic |-> t, processed |-> n],
               position' \in [Topics -> Nat], committed' \in [Topics -> Nat],
               raw' \subseteq Offsets, parsed' \subseteq Offsets
        PROVE  ConsumerTypes'
    BY <1>2 DEF ConsumerTypes
  <1>3. reader.pc \in {"raw", "parse", "commit"} =>
          position[reader.topic] \in Nat \ {0} /\ At(reader.topic) \in Offsets
    BY DEF ReaderInv, At, Offsets
  <1>4. 0 \in 0..MaxBatch
    OBVIOUS
  <1>5. CASE StartConsumer
    <2>1. reader' = [pc |-> "poll", queued |-> FALSE, topic |-> reader.topic, processed |-> 0]
      BY <1>5 DEF StartConsumer
    <2>2. position' = committed /\ UNCHANGED <<committed, raw, parsed>>
      BY <1>5 DEF StartConsumer
    <2>3. FALSE \in BOOLEAN
      OBVIOUS
    <2> QED
      BY <1>1, <1>2, <1>4, <2>1, <2>2, <2>3 DEF ConsumerTypes
  <1>6. ASSUME NEW t \in Topics, Poll(t)
        PROVE  ConsumerTypes'
    <2>1. reader' = [pc |-> "raw", queued |-> reader.queued, topic |-> t,
                     processed |-> reader.processed]
      BY <1>6 DEF Poll
    <2>2. position' = [position EXCEPT ![t] = @ + 1] /\ UNCHANGED <<committed, raw, parsed>>
      BY <1>6 DEF Poll
    <2> QED
      BY <1>1, <1>2, <2>1, <2>2 DEF ConsumerTypes
  <1>7. CASE StoreRaw \/ StoreParsed
    <2>1. \E x \in {"idle", "parse", "commit"} :
            reader' = [pc |-> x, queued |-> reader.queued, topic |-> reader.topic,
                       processed |-> reader.processed]
      BY <1>7 DEF StoreRaw, StoreParsed
    <2>2. /\ UNCHANGED <<position, committed>>
          /\ raw' \subseteq Offsets /\ parsed' \subseteq Offsets
      BY <1>1, <1>3, <1>7 DEF StoreRaw, StoreParsed, ConsumerTypes
    <2> QED
      BY <1>1, <1>2, <2>1, <2>2 DEF ConsumerTypes
  <1>8. CASE Commit
    <2>1. reader' = [pc |-> "poll", queued |-> reader.queued, topic |-> reader.topic,
                     processed |-> reader.processed + 1]
      BY <1>8 DEF Commit
    <2>2. reader.processed + 1 \in 0..MaxBatch
      BY <1>8 DEF Commit, ReaderInv
    <2>3. committed' = [committed EXCEPT ![reader.topic] = position[reader.topic]]
          /\ UNCHANGED <<position, raw, parsed>>
      BY <1>8 DEF Commit
    <2>4. committed' \in [Topics -> Nat]
      BY <1>1, <2>3 DEF ConsumerTypes
    <2> QED
      BY <1>1, <1>2, <2>1, <2>2, <2>3, <2>4 DEF ConsumerTypes
  <1>9. CASE EndConsumer \/ ConsumerDies
    <2>1. reader' = [pc |-> "idle", queued |-> reader.queued, topic |-> reader.topic,
                     processed |-> reader.processed]
      BY <1>9 DEF EndConsumer, ConsumerDies
    <2>2. UNCHANGED <<position, committed, raw, parsed>>
      BY <1>9 DEF EndConsumer, ConsumerDies
    <2> QED
      BY <1>1, <1>2, <2>1, <2>2 DEF ConsumerTypes
  <1> QED
    BY <1>5, <1>6, <1>7, <1>8, <1>9 DEF ConsumerStep

LEMMA TypeStep ==
  ASSUME IInv, Next
  PROVE  TypeOK'
  <1> USE DEF IInv
  <1>1. /\ ApiTypes /\ RowTypes /\ DagTypes /\ PublisherType /\ ProducerTypes /\ ConsumerTypes
        /\ BoundTypes'
    BY TypeParts, BoundStep
  <1>2. CASE ApiNext
    <2>1. UNCHANGED <<producerVars, log, consumerVars>>
      BY <1>2, ApiFrame
    <2>2. PublisherType' /\ ProducerTypes' /\ ConsumerTypes'
      BY <1>1, <2>1 DEF producerVars, consumerVars, PublisherType, ProducerTypes, ConsumerTypes
    <2> QED
      BY <1>1, <1>2, <2>2, ApiTypeStep, TypeParts
  <1>3. CASE DagNext
    <2>1. UNCHANGED <<batch, delivery, log, consumerVars>>
      BY <1>3, DagFrame
    <2>2. ProducerTypes' /\ ConsumerTypes'
      BY <1>1, <2>1 DEF consumerVars, ProducerTypes, ConsumerTypes
    <2> QED
      BY <1>1, <1>3, <2>2, DagTypeStep, TypeParts
  <1>4. CASE ProducerNext
    <2>1. /\ UNCHANGED <<apiVars, dagVars, position, committed, raw, parsed>>
          /\ reader' \in {reader, [reader EXCEPT !.queued = TRUE]}
      BY <1>4, ProducerFrame
    <2>2. ApiTypes' /\ DagTypes' /\ ConsumerTypes'
      BY <1>1, <2>1 DEF apiVars, dagVars, ApiTypes, DagTypes, ConsumerTypes
    <2> QED
      BY <1>1, <1>4, <2>2, ProducerTypeStep, TypeParts
  <1>5. CASE ConsumerStep \/ ConsumerDies
    <2>1. UNCHANGED <<apiVars, rowVars, dagVars, producerVars, log>>
      BY <1>5, ConsumerFrame
    <2>2. ApiTypes' /\ RowTypes' /\ DagTypes' /\ PublisherType' /\ ProducerTypes'
      BY <1>1, <2>1 DEF apiVars, rowVars, dagVars, producerVars, ApiTypes, RowTypes, DagTypes,
                        PublisherType, ProducerTypes
    <2> QED
      BY <1>1, <1>5, <2>2, ConsumerTypeStep, TypeParts
  <1> QED
    BY <1>2, <1>3, <1>4, <1>5 DEF Next

-----------------------------------------------------------------------------
(* The theorems.                                                            *)

LEMMA Initially ==
  ASSUME Init
  PROVE  IInv
  <1> USE PipelineAssumption
  <1>1. (CHOOSE t \in Topics : TRUE) \in Topics
    OBVIOUS
  <1>2. log = [t \in Topics |-> <<>>] /\ \A t \in Topics : ToSet(log[t]) = {}
    BY EmptySeq DEF Init, ToSet
  <1>3. outbox = <<>> /\ ToSet(outbox) = {} /\ IsInjective(outbox) /\ outbox \in Seq(Events)
    BY EmptySeq DEF Init, ToSet, IsInjective
  <1>4. \A e \in Events : ~Published(e)
    BY <1>2 DEF Published
  <1>5. RunEvents \subseteq Events
    BY DEF Events
  <1>6. TypeOK
    <2>1. ApiTypes /\ RowTypes /\ DagTypes
      BY <1>3 DEF Init, ApiTypes, RowTypes, DagTypes
    <2>2. PublisherType /\ ProducerTypes
      BY <1>2, EmptySeq DEF Init, PublisherType, ProducerTypes
    <2>3. reader = [pc |-> "idle", queued |-> FALSE,
                    topic |-> CHOOSE t \in Topics : TRUE, processed |-> 0]
      BY DEF Init
    <2>4. 0 \in 0..MaxBatch
      OBVIOUS
    <2>5. ConsumerTypes
      BY <1>1, <2>3, <2>4 DEF Init, ConsumerTypes
    <2>6. BoundTypes
      BY DEF Init, BoundTypes
    <2> QED
      BY <2>1, <2>2, <2>5, <2>6, TypeParts
  <1>7. CallInv /\ OutboxInv /\ ActiveInv
    BY <1>3 DEF Init, CallInv, OutboxInv, ActiveInv
  <1>8. reader.pc = "idle"
    BY DEF Init
  <1>9. ReaderInv /\ CommittedIsStored
    BY <1>8 DEF Init, ReaderInv, CommittedIsStored
  <1>10. ProducerInv /\ CompletedIsPublished
    BY <1>4, <1>5 DEF Init, ProducerInv, CompletedIsPublished, Taken
  <1>11. OnceInv
    BY <1>5 DEF Init, OnceInv
  <1> QED
    BY <1>6, <1>7, <1>9, <1>10, <1>11 DEF IInv

LEMMA Invariance == Spec => []IInv
  <1>1. IInv /\ [Next]_vars => IInv'
    <2> SUFFICES ASSUME IInv, [Next]_vars PROVE IInv'
      OBVIOUS
    <2>1. CASE Next
      BY <2>1, TypeStep, RowsStep, StorageStep, OnceStep DEF IInv
    <2>2. CASE UNCHANGED vars
      BY <2>2 DEF vars, apiVars, rowVars, dagVars, producerVars, consumerVars, IInv, TypeOK,
                  CallInv, OutboxInv, ActiveInv, ReaderInv, InHand, Behind, At, ProducerInv, Taken,
                  Published, OnceInv, Due, Ahead, Failed, Owner, CommittedIsStored,
                  CompletedIsPublished
    <2> QED
      BY <2>1, <2>2
  <1> QED
    BY Initially, <1>1, PTL DEF Spec

\* Every variable keeps its type; a row is in the outbox at most once.
THEOREM TypeCorrect == Spec => []TypeOK
  <1>1. IInv => TypeOK
    BY DEF IInv
  <1> QED
    BY <1>1, Invariance, PTL

\* Only events of runs that have succeeded reach Kafka, and while nobody repeats a
\* DAG's call the cleanup deletes none of their rows: the snapshot of the producer
\* and the one of the cleanup never overlap in a row, whatever the schedules.
THEOREM OnlySuccesses == Spec => []OnlySuccessIsPublished
  <1>1. IInv => OnlySuccessIsPublished
    <2> SUFFICES ASSUME IInv, NEW e \in RunEvents, Published(e)
                 PROVE  run[Owner(e)] = "SUCCESS" /\ (posts = 0 => status[e] # "DELETED")
      BY DEF OnlySuccessIsPublished
    <2>1. run[Owner(e)] = "SUCCESS"
      BY DEF IInv, ProducerInv, Taken
    <2>2. posts = 0 => status[e] # "DELETED"
      BY <2>1 DEF IInv, OnceInv, Failed
    <2> QED
      BY <2>1, <2>2
  <1> QED
    BY <1>1, Invariance, PTL

\* A row is COMPLETED only when its message is in its topic, for any number of
\* failed deliveries, lost acknowledgements and dead producers.
THEOREM NothingIsLostUnsent == Spec => []CompletedIsPublished
  <1>1. IInv => CompletedIsPublished
    BY DEF IInv
  <1> QED
    BY <1>1, Invariance, PTL

\* Everything the consumer group has committed is in the bucket, raw and parsed,
\* for any number of consumer runs, messages and crashes.
THEOREM CommittedMessagesAreStored == Spec => []CommittedIsStored
  <1>1. IInv => CommittedIsStored
    BY DEF IInv
  <1> QED
    BY <1>1, Invariance, PTL
=============================================================================

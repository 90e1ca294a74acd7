-------------------------- MODULE MCEventPipeline --------------------------
(* Small instances of EventPipeline: a DAG run of one call, one or two rows  *)
(* a run, at most one row of the scheduler's.                                *)
EXTENDS EventPipeline, TLC

CONSTANTS c1, c2, s1, t1, t2

BothDags == {"inbound", "outbound"}
OutboundDag == {"outbound"}
OneCallEach == [d \in Dags |-> IF d = "inbound" THEN << <<c1>> >> ELSE << <<c2>> >>]
OneInbound == [d \in Dags |-> IF d = "inbound" THEN << <<c1>> >> ELSE <<>>]
OneTopic == [e \in Events |-> t1]
TopicPerRow == [e \in Events |-> IF e \in RunEvents /\ e[2] = 1 THEN t2 ELSE t1]
=============================================================================

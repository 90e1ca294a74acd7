------------------------ MODULE EventScheduler_proofs ------------------------
(***************************************************************************)
(* Proofs about EventScheduler, for any event types, chains, windows,      *)
(* delays and numbers of rows, retries and crashes: no handler that does   *)
(* not refuse repeated work commits twice, no due event falls behind the   *)
(* checkpoint, and no chain loses its next event.                          *)
(***************************************************************************)
EXTENDS EventScheduler, FiniteSetTheorems, SequenceTheorems, TLAPS

Middle == pc \in {"rename", "mark", "child"}

\* Rows that keep others of their type, correlation or aggregate out.
Live(i) == Active(i) \/ rows[i].status = "COMPLETED"

Listed(i) == \E n \in 1..Len(queue) : queue[n] = i

\* What the run's checkpoint vouches for.
Due(i) == /\ Active(i) /\ InScope(i) /\ Scheduled(i)
          /\ rows[i].type \in Allowed[run.window]

RunInv ==
  /\ pc = "off" => run = NoRun /\ checkpoint = NoTime
  /\ pc # "off" => run \in Run
  /\ checkpoint # NoTime => checkpoint <= clock

\* The queue lists each row once, and only rows that may still be executed.
QueueInv ==
  /\ \A m, n \in 1..Len(queue) : queue[m] = queue[n] => m = n
  /\ \A i \in Rows : Listed(i) =>
       Live(i) /\ Scheduled(i) /\ rows[i].type \in Allowed[run.window]
  /\ queue # <<>> => pc = "execute" \/ Middle
  /\ pc = "child" => rows[This].status = "COMPLETED"
  /\ \A i \in Rows : Live(i) => rows[i].retries <= MaxRetry

\* In a cycle without a failure, what is due is in the queue.
DrainInv ==
  (pc = "execute" \/ Middle) /\ ~failed => \A i \in Rows : Due(i) /\ rows[i].due <= clock => Listed(i)

\* Live rows with a time that are of one type differ in correlation and in aggregate.
UniqueInv ==
  \A i, j \in Rows : /\ i # j /\ rows[i].type = rows[j].type
                     /\ Scheduled(i) /\ Scheduled(j) /\ Live(i) /\ Live(j)
    => rows[i].corr # rows[j].corr /\ rows[i].agg # rows[j].agg

\* Without a crash a row whose handler has committed is completed, or about to be.
CommitInv ==
  faults = 0 =>
    /\ Middle => rows[This].commits = 1
    /\ \A i \in Rows :
         /\ rows[i].commits <= 1
         /\ (Listed(i) /\ ~(Middle /\ i = This)) => rows[i].commits = 0
         /\ rows[i].commits > 0 =>
              Scheduled(i) /\ (rows[i].status = "COMPLETED" \/ (Middle /\ i = This))

\* k is executed and is what scheduled j, for the aggregate j has until it is renamed.
Parent(k, j) ==
  /\ Successor[rows[k].type] = rows[j].type /\ rows[k].corr = rows[j].corr
  /\ rows[k].status = "COMPLETED" /\ rows[k].commits > 0 /\ ~(Middle /\ k = This)
  /\ (rows[j].commits = 0 \/ (pc = "rename" /\ j = This)) => rows[k].agg = rows[j].agg

ParentInv ==
  faults = 0 =>
    \A j \in Rows : Scheduled(j) /\ rows[j].type \notin Roots => \E k \in Rows : Parent(k, j)

IInv == /\ TypeOK /\ RunInv /\ QueueInv /\ DrainInv /\ CheckpointIsProcessed /\ UniqueInv
        /\ CommitInv /\ ParentInv /\ ChainContinues

-----------------------------------------------------------------------------
(* Numbers, rows and sequences of them.                                     *)

\* A power of two counts the subsets of a set.
LEMMA PowerOfTwo == ASSUME NEW n \in Nat PROVE 2^n \in Nat
  <1>1. IsFiniteSet(1..n) /\ Cardinality(1..n) = n
    BY FS_Interval
  <1>2. IsFiniteSet(SUBSET (1..n)) /\ Cardinality(SUBSET (1..n)) = 2^Cardinality(1..n)
    BY <1>1, FS_SUBSET
  <1>3. Cardinality(SUBSET (1..n)) \in Nat
    BY <1>2, FS_CardinalityType
  <1> QED
    BY <1>1, <1>2, <1>3

LEMMA IntervalType == ASSUME NEW n \in Nat \ {0} PROVE Interval(n) \in Nat
  <1>1. PICK k \in Nat : k = n - 1
    OBVIOUS
  <1>2. PICK power \in Nat : power = 2^k
    BY PowerOfTwo
  <1>3. 2^(n - 1) = power
    BY <1>1, <1>2
  <1>4. RetryBase * power \in Nat /\ RetryCap \in Nat
    BY TimeAssumption
  <1> QED
    BY <1>3, <1>4 DEF Interval

\* What the columns of a row hold.
LEMMA RowFields ==
  ASSUME NEW row \in Row
  PROVE  /\ row.type \in Types /\ row.corr \in Corrs /\ row.agg \in Aggs
         /\ row.status \in Status /\ row.due \in Nat \cup {NoTime}
         /\ row.retries \in 0..(MaxRetry + 1) /\ row.commits \in Nat
  BY DEF Row

LEMMA NewRowType ==
  ASSUME NEW type \in Types, NEW corr \in Corrs, NEW agg \in Aggs, NEW due \in Nat \cup {NoTime}
  PROVE  /\ NewRow(type, corr, agg, due) \in Row
         /\ NewRow(type, corr, agg, due).type = type
         /\ NewRow(type, corr, agg, due).corr = corr
         /\ NewRow(type, corr, agg, due).agg = agg
         /\ NewRow(type, corr, agg, due).due = due
         /\ NewRow(type, corr, agg, due).status = "PENDING"
         /\ NewRow(type, corr, agg, due).retries = 0
         /\ NewRow(type, corr, agg, due).commits = 0
  BY TimeAssumption DEF NewRow, Row, Status

LEMMA RowsType ==
  ASSUME TypeOK
  PROVE  /\ Len(rows) \in Nat /\ Rows \subseteq Nat /\ \A i \in Rows : rows[i] \in Row
         /\ Len(queue) \in Nat /\ \A n \in 1..Len(queue) : queue[n] \in Rows
         /\ \A i : Listed(i) => i \in Rows
         /\ queue # <<>> <=> Len(queue) # 0
         /\ queue # <<>> => This = queue[1] /\ This \in Rows /\ Listed(This)
  <1>1. Len(rows) \in Nat /\ \A i \in Rows : rows[i] \in Row
    BY LenProperties, ElementOfSeq DEF TypeOK, Rows
  <1>2. Len(queue) \in Nat /\ \A n \in 1..Len(queue) : queue[n] \in Rows
    BY LenProperties, ElementOfSeq DEF TypeOK, Rows
  <1>3. queue # <<>> <=> Len(queue) # 0
    BY EmptySeq DEF TypeOK
  <1>4. queue # <<>> => This = queue[1] /\ 1 \in 1..Len(queue)
    BY <1>2, <1>3 DEF This, TypeOK
  <1> QED
    BY <1>1, <1>2, <1>3, <1>4 DEF Rows, Listed

\* Row i gets new values in these columns; all other rows stay.
Becomes(i, agg, status, due, retries, commits) ==
  /\ rows' \in Seq(Row) /\ Len(rows') = Len(rows)
  /\ \A j \in Rows : j # i => rows'[j] = rows[j]
  /\ rows'[i].type = rows[i].type /\ rows'[i].corr = rows[i].corr
  /\ rows'[i].agg = agg /\ rows'[i].status = status /\ rows'[i].due = due
  /\ rows'[i].retries = retries /\ rows'[i].commits = commits

\* One row is added.
Grows(type, corr, agg, due) ==
  /\ rows' \in Seq(Row) /\ Len(rows') = Len(rows) + 1
  /\ \A j \in Rows : rows'[j] = rows[j]
  /\ rows'[Len(rows) + 1] = NewRow(type, corr, agg, due)

LEMMA Grown ==
  ASSUME NEW type, NEW corr, NEW agg, NEW due, Grows(type, corr, agg, due)
  PROVE  /\ Len(rows') = Len(rows) + 1 /\ \A j \in Rows : rows'[j] = rows[j]
         /\ rows'[Len(rows) + 1].type = type /\ rows'[Len(rows) + 1].corr = corr
         /\ rows'[Len(rows) + 1].agg = agg /\ rows'[Len(rows) + 1].due = due
         /\ rows'[Len(rows) + 1].status = "PENDING" /\ rows'[Len(rows) + 1].commits = 0
  <1>1. PICK new : new = NewRow(type, corr, agg, due)
    OBVIOUS
  <1>2. /\ new.type = type /\ new.corr = corr /\ new.agg = agg /\ new.due = due
        /\ new.status = "PENDING" /\ new.commits = 0
    BY <1>1 DEF NewRow
  <1>3. rows'[Len(rows) + 1] = new
    BY <1>1 DEF Grows
  <1> QED
    BY <1>2, <1>3 DEF Grows

LEMMA RowWritten ==
  ASSUME TypeOK, NEW i \in Rows, NEW row \in Row, rows' = [rows EXCEPT ![i] = row],
         row.type = rows[i].type, row.corr = rows[i].corr
  PROVE  Becomes(i, row.agg, row.status, row.due, row.retries, row.commits)
  <1>1. rows \in Seq(Row) /\ i \in 1..Len(rows)
    BY DEF TypeOK, Rows
  <1>2. /\ rows' \in Seq(Row) /\ Len(rows') = Len(rows)
        /\ \A j \in 1..Len(rows) : rows'[j] = IF j = i THEN row ELSE rows[j]
    BY <1>1, ExceptSeq
  <1> QED
    BY <1>1, <1>2 DEF Becomes, Rows

LEMMA RowAdded ==
  ASSUME TypeOK, NEW type \in Types, NEW corr \in Corrs, NEW agg \in Aggs,
         NEW due \in Nat \cup {NoTime},
         rows' = Append(rows, NewRow(type, corr, agg, due))
  PROVE  Grows(type, corr, agg, due)
  <1>1. PICK row \in Row : row = NewRow(type, corr, agg, due)
    BY NewRowType
  <1>2. /\ rows' \in Seq(Row) /\ Len(rows') = Len(rows) + 1
        /\ \A j \in 1..Len(rows) : rows'[j] = rows[j]
        /\ rows'[Len(rows) + 1] = row
    BY <1>1, LenProperties DEF TypeOK
  <1> QED
    BY <1>1, <1>2 DEF Grows, Rows

\* Done with the first row of the queue.
LEMMA QueueTail ==
  ASSUME TypeOK, QueueInv, queue # <<>>, queue' = Tail(queue)
  PROVE  /\ queue' \in Seq(Rows)
         /\ \A i : Listed(i)' <=> Listed(i) /\ i # This
         /\ \A m, n \in 1..Len(queue') : queue'[m] = queue'[n] => m = n
  <1>1. /\ queue' \in Seq(1..Len(rows)) /\ Len(queue') = Len(queue) - 1
        /\ \A n \in 1..Len(queue') : queue'[n] = queue[n + 1]
    BY HeadTailProperties DEF TypeOK
  <1>2. Len(queue) \in Nat \ {0} /\ This = queue[1]
    BY RowsType
  <1>3. \A m, n \in 1..Len(queue) : queue[m] = queue[n] => m = n
    BY DEF QueueInv
  <1>4. ASSUME NEW i
        PROVE  Listed(i)' <=> Listed(i) /\ i # This
    <2>1. ASSUME NEW n \in 1..Len(queue'), queue'[n] = i
          PROVE  Listed(i) /\ i # This
      <3>1. n + 1 \in 1..Len(queue) /\ 1 \in 1..Len(queue) /\ n + 1 # 1 /\ queue[n + 1] = i
        BY <1>1, <1>2, <2>1
      <3> QED
        BY <1>2, <1>3, <3>1 DEF Listed
    <2>2. ASSUME NEW n \in 1..Len(queue), queue[n] = i, i # This
          PROVE  Listed(i)'
      <3>1. n # 1 /\ n - 1 \in 1..Len(queue') /\ (n - 1) + 1 = n
        BY <1>1, <1>2, <2>2
      <3>2. queue'[n - 1] = i
        BY <1>1, <2>2, <3>1
      <3> QED
        BY <3>1, <3>2 DEF Listed
    <2> QED
      BY <2>1, <2>2 DEF Listed
  <1>5. \A m, n \in 1..Len(queue') : queue'[m] = queue'[n] => m = n
    <2> SUFFICES ASSUME NEW m \in 1..Len(queue'), NEW n \in 1..Len(queue'), queue'[m] = queue'[n]
                 PROVE  m = n
      OBVIOUS
    <2>1. m + 1 \in 1..Len(queue) /\ n + 1 \in 1..Len(queue) /\ queue[m + 1] = queue[n + 1]
      BY <1>1, <1>2
    <2>2. m + 1 = n + 1
      BY <1>3, <2>1
    <2> QED
      BY <2>2
  <1> QED
    BY <1>1, <1>4, <1>5 DEF Rows

-----------------------------------------------------------------------------
(* What the actions do to the rows.                                         *)

\* What a row becomes when some of its columns get new values.
LEMMA StatusSet ==
  ASSUME NEW row \in Row, NEW status \in Status,
         NEW new, new = [row EXCEPT !.status = status]
  PROVE  /\ new \in Row /\ new.type = row.type /\ new.corr = row.corr
         /\ new.agg = row.agg /\ new.status = status /\ new.due = row.due
         /\ new.retries = row.retries /\ new.commits = row.commits
  BY DEF Row

LEMMA AggSet ==
  ASSUME NEW row \in Row, NEW agg \in Aggs,
         NEW new, new = [row EXCEPT !.agg = agg]
  PROVE  /\ new \in Row /\ new.type = row.type /\ new.corr = row.corr
         /\ new.agg = agg /\ new.status = row.status /\ new.due = row.due
         /\ new.retries = row.retries /\ new.commits = row.commits
  BY DEF Row

LEMMA CommitsSet ==
  ASSUME NEW row \in Row, NEW commits \in Nat,
         NEW new, new = [row EXCEPT !.commits = commits]
  PROVE  /\ new \in Row /\ new.type = row.type /\ new.corr = row.corr
         /\ new.agg = row.agg /\ new.status = row.status /\ new.due = row.due
         /\ new.retries = row.retries /\ new.commits = commits
  BY DEF Row

\* The rows are one sequence, in which no action but these changes anything.
LEMMA SeedEffect ==
  ASSUME TypeOK, NEW type \in Roots, NEW corr \in Corrs, NEW agg \in Aggs, NEW due \in StartTimes,
         Seed(type, corr, agg, due)
  PROVE  /\ Grows(type, corr, agg, due) /\ type \in Types /\ due \in Nat
         /\ ~Duplicate(type, corr, agg)
         /\ pc # "off" => due > clock
         /\ UNCHANGED <<runVars, cycleVars, envVars>>
  <1>1. type \in Types /\ due \in Nat
    BY TypeAssumption, TimeAssumption
  <1>2. rows' = Append(rows, NewRow(type, corr, agg, due))
    BY DEF Seed, Inserted
  <1>3. Grows(type, corr, agg, due)
    BY <1>1, <1>2, RowAdded
  <1> QED
    BY <1>1, <1>3 DEF Seed

LEMMA PublishEffect ==
  ASSUME TypeOK, NEW i \in Rows, Publish(i)
  PROVE  /\ rows[i].status = "PENDING"
         /\ Becomes(i, rows[i].agg, "COMPLETED", rows[i].due, rows[i].retries, rows[i].commits)
         /\ UNCHANGED <<runVars, cycleVars, faults>>
         /\ published < MaxPublished /\ published' = published + 1
  <1>1. rows[i] \in Row /\ "COMPLETED" \in Status
    BY RowsType DEF Status
  <1>2. PICK row : row = [rows[i] EXCEPT !.status = "COMPLETED"]
    OBVIOUS
  <1>3. /\ row \in Row /\ row.type = rows[i].type /\ row.corr = rows[i].corr
        /\ row.agg = rows[i].agg /\ row.status = "COMPLETED" /\ row.due = rows[i].due
        /\ row.retries = rows[i].retries /\ row.commits = rows[i].commits
    BY <1>1, <1>2, StatusSet
  <1>4. rows' = [rows EXCEPT ![i] = row]
    BY <1>2 DEF Publish
  <1>5. Becomes(i, row.agg, row.status, row.due, row.retries, row.commits)
    BY <1>3, <1>4, RowWritten
  <1> QED
    BY <1>3, <1>5 DEF Publish

\* The executor leaves a row in one of four ways.
LEMMA LeaveEffect ==
  ASSUME TypeOK, QueueInv, SkipCompleted \/ HandlerRefuses \/ HandlerFails
  PROVE  /\ pc = "execute" /\ pc' = "execute" /\ queue # <<>> /\ This \in Rows
         /\ queue' = Tail(queue) /\ UNCHANGED <<runVars, envVars>>
         /\ \E status \in {"SKIPPED", "RETRY_SCHEDULED", "FAILED"}, due \in Nat,
               retries \in 0..(MaxRetry + 1) :
              /\ Becomes(This, rows[This].agg, status, due, retries, rows[This].commits)
              /\ due >= rows[This].due
              /\ status = "RETRY_SCHEDULED" => ~Done /\ retries <= MaxRetry
              /\ ~Done \/ status = "SKIPPED"
              /\ failed' = (failed \/ status # "SKIPPED")
  <1>1. pc = "execute" /\ queue # <<>>
    BY DEF SkipCompleted, HandlerRefuses, HandlerFails, Executing
  <1>2. This \in Rows /\ Listed(This)
    BY <1>1, RowsType
  <1>3. /\ rows[This] \in Row /\ rows[This].due \in Nat /\ rows[This].retries \in 0..MaxRetry
        /\ rows[This].agg \in Aggs /\ rows[This].commits \in Nat
        /\ MaxRetry \in Nat
    <2>1. rows[This] \in Row
      BY <1>2, RowsType
    <2>2. /\ rows[This].due \in Nat \cup {NoTime} /\ rows[This].retries \in 0..(MaxRetry + 1)
          /\ rows[This].agg \in Aggs /\ rows[This].commits \in Nat
      BY <2>1, RowFields
    <2>3. Scheduled(This) /\ rows[This].retries <= MaxRetry
      BY <1>2 DEF QueueInv
    <2> QED
      BY <2>1, <2>2, <2>3, TimeAssumption DEF Scheduled
  <1>4. PICK old \in Row, now \in Rows : old = rows[This] /\ now = This
    BY <1>2, <1>3
  <1>5. {"SKIPPED", "RETRY_SCHEDULED", "FAILED"} \subseteq Status
    BY DEF Status
  <1>6. ASSUME NEW row \in Row, NEW failure, Leave(row, failure),
               row.type = old.type, row.corr = old.corr
        PROVE  /\ Becomes(This, row.agg, row.status, row.due, row.retries, row.commits)
               /\ queue' = Tail(queue) /\ UNCHANGED <<pc, runVars, envVars>>
               /\ failed' = (failed \/ failure)
    <2>1. rows' = [rows EXCEPT ![now] = row]
      BY <1>4, <1>6 DEF Leave
    <2>2. Becomes(now, row.agg, row.status, row.due, row.retries, row.commits)
      BY <1>4, <1>6, <2>1, RowWritten
    <2> QED
      BY <1>4, <1>6, <2>2 DEF Leave
  <1>7. CASE SkipCompleted
    <2>1. PICK row : row = [old EXCEPT !.status = "SKIPPED"]
      OBVIOUS
    <2>2. /\ row \in Row /\ row.type = old.type /\ row.corr = old.corr /\ row.agg = old.agg
          /\ row.status = "SKIPPED" /\ row.due = old.due /\ row.retries = old.retries
          /\ row.commits = old.commits
      BY <1>3, <1>4, <1>5, <2>1, StatusSet
    <2>3. Leave(row, FALSE)
      BY <1>4, <1>7, <2>1 DEF SkipCompleted
    <2>4. /\ Becomes(This, row.agg, row.status, row.due, row.retries, row.commits)
          /\ queue' = Tail(queue) /\ UNCHANGED <<pc, runVars, envVars>>
          /\ failed' = (failed \/ FALSE)
      BY <1>6, <2>2, <2>3
    <2>5. old.retries \in 0..(MaxRetry + 1) /\ old.due >= old.due
      BY <1>3, <1>4
    <2>6. Becomes(This, old.agg, "SKIPPED", old.due, old.retries, old.commits)
      BY <2>2, <2>4
    <2> QED
      BY <1>1, <1>2, <1>3, <1>4, <2>4, <2>5, <2>6
  <1>8. CASE HandlerRefuses
    <2>1. PICK n \in 0..(MaxRetry + 1) : n = old.retries + 1
      BY <1>3, <1>4
    <2>2. PICK row, skipped : /\ skipped = [old EXCEPT !.status = "SKIPPED"]
                              /\ row = [skipped EXCEPT !.retries = n]
      OBVIOUS
    <2>3. /\ row \in Row /\ row.type = old.type /\ row.corr = old.corr /\ row.agg = old.agg
          /\ row.status = "SKIPPED" /\ row.due = old.due /\ row.retries = n
          /\ row.commits = old.commits
      <3>1. /\ skipped \in Row /\ skipped.type = old.type /\ skipped.corr = old.corr
            /\ skipped.agg = old.agg /\ skipped.status = "SKIPPED" /\ skipped.due = old.due
            /\ skipped.commits = old.commits
        BY <1>5, <2>2, StatusSet
      <3> QED
        BY <2>2, <3>1 DEF Row
    <2>4. [rows[This] EXCEPT !.status = "SKIPPED", !.retries = @ + 1] = row
      BY <1>4, <2>1, <2>2 DEF Row
    <2>5. Leave(row, FALSE)
      BY <1>8, <2>4 DEF HandlerRefuses
    <2>6. /\ Becomes(This, row.agg, row.status, row.due, row.retries, row.commits)
          /\ queue' = Tail(queue) /\ UNCHANGED <<pc, runVars, envVars>>
          /\ failed' = (failed \/ FALSE)
      BY <1>6, <2>3, <2>5
    <2>7. Becomes(This, old.agg, "SKIPPED", old.due, n, old.commits) /\ old.due >= old.due
      BY <1>3, <1>4, <2>3, <2>6
    <2> QED
      BY <1>1, <1>2, <1>3, <1>4, <2>6, <2>7
  <1>9. CASE HandlerFails
    <2>1. PICK n \in 0..(MaxRetry + 1) : n = old.retries + 1
      BY <1>3, <1>4
    <2>2. Interval(n) \in Nat
      BY <1>3, <1>4, <2>1, IntervalType
    <2>3. PICK later \in Nat : later = old.due + Interval(n)
      BY <1>3, <1>4, <2>2
    <2>4. later >= old.due
      BY <1>3, <1>4, <2>2, <2>3
    <2>5. ~Done
      BY <1>9 DEF HandlerFails
    <2>6. CASE n <= MaxRetry
      <3>1. PICK row, counted, marked : /\ marked = [old EXCEPT !.status = "RETRY_SCHEDULED"]
                                        /\ counted = [marked EXCEPT !.retries = n]
                                        /\ row = [counted EXCEPT !.due = later]
        OBVIOUS
      <3>2. /\ row \in Row /\ row.type = old.type /\ row.corr = old.corr /\ row.agg = old.agg
            /\ row.status = "RETRY_SCHEDULED" /\ row.due = later /\ row.retries = n
            /\ row.commits = old.commits
        <4>1. /\ marked \in Row /\ marked.type = old.type /\ marked.corr = old.corr
              /\ marked.agg = old.agg /\ marked.status = "RETRY_SCHEDULED"
              /\ marked.commits = old.commits
          BY <1>5, <3>1, StatusSet
        <4>2. /\ counted \in Row /\ counted.type = old.type /\ counted.corr = old.corr
              /\ counted.agg = old.agg /\ counted.status = "RETRY_SCHEDULED"
              /\ counted.retries = n /\ counted.commits = old.commits
          BY <3>1, <4>1 DEF Row
        <4>3. later \in Nat \cup {NoTime}
          OBVIOUS
        <4> QED
          BY <3>1, <4>2, <4>3 DEF Row
      <3>3. Leave(row, TRUE)
        <4>1. Leave([rows[This] EXCEPT !.status = "RETRY_SCHEDULED", !.retries = n,
                                       !.due = @ + Interval(n)], TRUE)
          BY <1>4, <1>9, <2>1, <2>6 DEF HandlerFails
        <4>2. [rows[This] EXCEPT !.status = "RETRY_SCHEDULED", !.retries = n,
                                 !.due = @ + Interval(n)] = row
          BY <1>4, <2>3, <3>1 DEF Row
        <4> QED
          BY <4>1, <4>2
      <3>4. /\ Becomes(This, row.agg, row.status, row.due, row.retries, row.commits)
            /\ queue' = Tail(queue) /\ UNCHANGED <<pc, runVars, envVars>>
            /\ failed' = (failed \/ TRUE)
        BY <1>6, <3>2, <3>3
      <3>5. Becomes(This, old.agg, "RETRY_SCHEDULED", later, n, old.commits)
        BY <3>2, <3>4
      <3> QED
        BY <1>1, <1>2, <1>4, <2>4, <2>5, <2>6, <3>4, <3>5
    <2>7. CASE ~(n <= MaxRetry)
      <3>1. PICK row, marked : /\ marked = [old EXCEPT !.status = "FAILED"]
                               /\ row = [marked EXCEPT !.retries = n]
        OBVIOUS
      <3>2. /\ row \in Row /\ row.type = old.type /\ row.corr = old.corr /\ row.agg = old.agg
            /\ row.status = "FAILED" /\ row.due = old.due /\ row.retries = n
            /\ row.commits = old.commits
        <4>1. /\ marked \in Row /\ marked.type = old.type /\ marked.corr = old.corr
              /\ marked.agg = old.agg /\ marked.status = "FAILED" /\ marked.due = old.due
              /\ marked.commits = old.commits
          BY <1>5, <3>1, StatusSet
        <4> QED
          BY <3>1, <4>1 DEF Row
      <3>3. Leave(row, TRUE)
        BY <1>4, <1>9, <2>1, <2>7, <3>1 DEF HandlerFails
      <3>4. /\ Becomes(This, row.agg, row.status, row.due, row.retries, row.commits)
            /\ queue' = Tail(queue) /\ UNCHANGED <<pc, runVars, envVars>>
            /\ failed' = (failed \/ TRUE)
        BY <1>6, <3>2, <3>3
      <3>5. Becomes(This, old.agg, "FAILED", old.due, n, old.commits) /\ old.due >= old.due
        BY <1>3, <1>4, <3>2, <3>4
      <3> QED
        BY <1>1, <1>2, <1>3, <1>4, <2>5, <3>4, <3>5
    <2> QED
      BY <2>6, <2>7
  <1> QED
    BY <1>7, <1>8, <1>9

LEMMA CommitEffect ==
  ASSUME TypeOK, QueueInv, NEW publishes \in BOOLEAN, HandlerCommits(publishes)
  PROVE  /\ pc = "execute" /\ pc' = "rename" /\ queue # <<>> /\ This \in Rows /\ ~Done
         /\ UNCHANGED <<runVars, queue, failed, envVars>>
         /\ rows' \in Seq(Row) /\ Len(rows') \in {Len(rows), Len(rows) + 1}
         /\ \A j \in Rows : j # This => rows'[j] = rows[j]
         /\ rows'[This].type = rows[This].type /\ rows'[This].corr = rows[This].corr
         /\ rows'[This].agg = rows[This].agg /\ rows'[This].status = rows[This].status
         /\ rows'[This].due = rows[This].due /\ rows'[This].retries = rows[This].retries
         /\ rows'[This].commits = rows[This].commits + 1
         /\ Len(rows') = Len(rows) + 1 =>
              \E type \in Types, corr \in Corrs, agg \in Aggs :
                rows'[Len(rows) + 1] = NewRow(type, corr, agg, NoTime)
  <1>1. pc = "execute" /\ queue # <<>>
    BY DEF HandlerCommits, Executing
  <1>2. This \in Rows /\ rows[This] \in Row
    BY <1>1, RowsType
  <1>3. PICK old \in Row, now \in Rows : old = rows[This] /\ now = This
    BY <1>2
  <1>4. PICK n \in Nat : n = old.commits + 1
    BY <1>3, RowFields
  <1>5. PICK row : row = [old EXCEPT !.commits = n]
    OBVIOUS
  <1>6. /\ row \in Row /\ row.type = old.type /\ row.corr = old.corr /\ row.agg = old.agg
        /\ row.status = old.status /\ row.due = old.due /\ row.retries = old.retries
        /\ row.commits = n
    BY <1>5, CommitsSet
  <1>7. PICK committed : committed = [rows EXCEPT ![now] = row]
    OBVIOUS
  <1>8. [rows EXCEPT ![This].commits = @ + 1] = committed
    BY <1>2, <1>3, <1>4, <1>5, <1>7 DEF TypeOK, Row
  <1>9. /\ committed \in Seq(Row) /\ Len(committed) = Len(rows)
        /\ \A j \in Rows : committed[j] = IF j = now THEN row ELSE rows[j]
    BY <1>3, <1>6, <1>7, ExceptSeq DEF TypeOK, Rows
  <1>10. PICK fresh \in Row : fresh = NewRow(old.type, old.corr, AggAfter[old.type][old.agg], NoTime)
    <2>1. AggAfter[old.type][old.agg] \in Aggs
      BY <1>3, RowFields, TypeAssumption
    <2> QED
      BY <1>3, <2>1, RowFields, NewRowType
  <1>11. rows' = committed \/ rows' = Append(committed, fresh)
    BY <1>3, <1>8, <1>10 DEF HandlerCommits
  <1>12. /\ rows' \in Seq(Row) /\ Len(rows') \in {Len(rows), Len(rows) + 1}
         /\ \A j \in Rows : rows'[j] = IF j = now THEN row ELSE rows[j]
         /\ Len(rows') = Len(rows) + 1 => rows'[Len(rows) + 1] = fresh
    <2>1. Len(rows) \in Nat /\ Rows = 1..Len(rows)
      BY RowsType DEF Rows
    <2>2. CASE rows' = committed
      BY <1>9, <2>1, <2>2
    <2>3. CASE rows' = Append(committed, fresh)
      BY <1>9, <2>1, <2>3
    <2> QED
      BY <1>11, <2>2, <2>3
  <1>13. /\ old.type \in Types /\ old.corr \in Corrs /\ AggAfter[old.type][old.agg] \in Aggs
    BY <1>3, RowFields, TypeAssumption
  <1>14. Len(rows') = Len(rows) + 1 =>
           \E type \in Types, corr \in Corrs, agg \in Aggs :
             rows'[Len(rows) + 1] = NewRow(type, corr, agg, NoTime)
    BY <1>10, <1>12, <1>13
  <1>15. rows'[This] = row
    BY <1>3, <1>12
  <1>16. UNCHANGED <<runVars, queue, failed, envVars>> /\ pc' = "rename" /\ ~Done
    BY DEF HandlerCommits
  <1> QED
    BY <1>1, <1>2, <1>3, <1>4, <1>6, <1>12, <1>14, <1>15, <1>16

LEMMA RenameEffect ==
  ASSUME TypeOK, Rename
  PROVE  /\ pc = "rename" /\ pc' = "mark" /\ queue # <<>> /\ This \in Rows
         /\ UNCHANGED <<runVars, queue, failed, envVars>>
         /\ \/ rows' = rows
            \/ \E agg \in Aggs :
                 /\ \A i \in Rows : i # This /\ rows[i].type = rows[This].type => rows[i].agg # agg
                 /\ Becomes(This, agg, rows[This].status, rows[This].due, rows[This].retries,
                            rows[This].commits)
  <1>1. pc = "rename" /\ queue # <<>>
    BY DEF Rename, TypeOK
  <1>2. This \in Rows /\ rows[This] \in Row
    BY <1>1, RowsType
  <1>3. PICK old \in Row, now \in Rows : old = rows[This] /\ now = This
    BY <1>2
  <1>4. PICK agg \in Aggs : agg = AggAfter[old.type][old.agg]
    BY RowFields, TypeAssumption
  <1>5. \/ rows' = rows
        \/ /\ rows' = [rows EXCEPT ![now].agg = agg]
           /\ \A i \in Rows : i # now /\ rows[i].type = old.type => rows[i].agg # agg
    BY <1>3, <1>4 DEF Rename
  <1>6. ASSUME rows' = [rows EXCEPT ![now].agg = agg]
        PROVE  Becomes(now, agg, old.status, old.due, old.retries, old.commits)
    <2>1. PICK row : row = [old EXCEPT !.agg = agg]
      OBVIOUS
    <2>2. /\ row \in Row /\ row.type = old.type /\ row.corr = old.corr /\ row.agg = agg
          /\ row.status = old.status /\ row.due = old.due /\ row.retries = old.retries
          /\ row.commits = old.commits
      BY <2>1, AggSet
    <2>3. rows' = [rows EXCEPT ![now] = row]
      BY <1>3, <1>6, <2>1
    <2>4. Becomes(now, row.agg, row.status, row.due, row.retries, row.commits)
      BY <1>3, <2>2, <2>3, RowWritten
    <2> QED
      BY <2>2, <2>4
  <1>7. pc' = "mark" /\ UNCHANGED <<runVars, queue, failed, envVars>>
    BY DEF Rename
  <1> QED
    BY <1>1, <1>2, <1>3, <1>5, <1>6, <1>7

LEMMA MarkEffect ==
  ASSUME TypeOK, Mark
  PROVE  /\ pc = "mark" /\ pc' = "child" /\ queue # <<>> /\ This \in Rows
         /\ UNCHANGED <<runVars, queue, failed, envVars>>
         /\ Becomes(This, rows[This].agg, "COMPLETED", rows[This].due, rows[This].retries,
                    rows[This].commits)
  <1>1. pc = "mark" /\ queue # <<>>
    BY DEF Mark, TypeOK
  <1>2. This \in Rows /\ rows[This] \in Row
    BY <1>1, RowsType
  <1>3. PICK old \in Row, now \in Rows : old = rows[This] /\ now = This
    BY <1>2
  <1>4. PICK row : row = [old EXCEPT !.status = "COMPLETED"]
    OBVIOUS
  <1>5. /\ row \in Row /\ row.type = old.type /\ row.corr = old.corr /\ row.agg = old.agg
        /\ row.status = "COMPLETED" /\ row.due = old.due /\ row.retries = old.retries
        /\ row.commits = old.commits
    <2>1. "COMPLETED" \in Status
      BY DEF Status
    <2> QED
      BY <1>4, <2>1, StatusSet
  <1>6. rows' = [rows EXCEPT ![now] = row]
    BY <1>3, <1>4 DEF Mark
  <1>7. Becomes(now, row.agg, row.status, row.due, row.retries, row.commits)
    BY <1>3, <1>5, <1>6, RowWritten
  <1>8. pc' = "child" /\ UNCHANGED <<runVars, queue, failed, envVars>>
    BY DEF Mark
  <1> QED
    BY <1>1, <1>2, <1>3, <1>5, <1>7, <1>8

LEMMA ChildEffect ==
  ASSUME TypeOK, QueueInv, NEW delay \in Delays, NEW again \in Delays, ScheduleChild(delay, again)
  PROVE  LET row == rows[This]
             next == Successor[row.type]
         IN  /\ pc = "child" /\ pc' = "execute" /\ queue # <<>> /\ This \in Rows
             /\ queue' = Tail(queue) /\ UNCHANGED <<runVars, failed, envVars>>
             /\ \/ /\ rows' = rows
                   /\ \/ next = NoType \/ next \notin Allowed[run.window]
                      \/ Blocked(next, row.agg) \/ Duplicate(next, row.corr, row.agg)
                \/ \E due \in Nat :
                     /\ next \in Types /\ ~Duplicate(next, row.corr, row.agg)
                     /\ due > clock /\ Grows(next, row.corr, row.agg, due)
  <1>1. pc = "child" /\ queue # <<>>
    BY DEF ScheduleChild, TypeOK
  <1>2. This \in Rows /\ rows[This] \in Row /\ Listed(This)
    BY <1>1, RowsType
  <1>3. PICK old \in Row : old = rows[This]
    BY <1>2
  <1>4. old.due \in Nat
    BY <1>2, <1>3, RowFields DEF QueueInv, Scheduled
  <1>5. PICK due \in Nat : due = ChildDue(old, delay, again) /\ due > clock
    <2>1. delay \in Nat \ {0} /\ again \in Nat \ {0} /\ clock \in Nat
      BY TimeAssumption DEF TypeOK
    <2>2. ChildDue(old, delay, again) \in Nat /\ ChildDue(old, delay, again) > clock
      BY <1>4, <2>1 DEF ChildDue
    <2> QED
      BY <2>2
  <1>6. PICK next : next = Successor[old.type]
    OBVIOUS
  <1>7. rows' = IF next = NoType \/ next \notin Allowed[run.window] THEN rows
                ELSE Inserted(next, old.corr, old.agg, due)
    BY <1>3, <1>5, <1>6 DEF ScheduleChild
  <1>8. /\ pc' = "execute" /\ queue' = Tail(queue) /\ UNCHANGED <<runVars, failed, envVars>>
    BY DEF ScheduleChild
  <1>9. CASE next = NoType \/ next \notin Allowed[run.window]
    BY <1>1, <1>2, <1>3, <1>6, <1>7, <1>8, <1>9
  <1>10. CASE /\ next # NoType /\ next \in Allowed[run.window]
              /\ Blocked(next, old.agg) \/ Duplicate(next, old.corr, old.agg)
    <2>1. rows' = rows
      BY <1>7, <1>10 DEF Inserted
    <2> QED
      BY <1>1, <1>2, <1>3, <1>6, <1>8, <1>10, <2>1
  <1>11. CASE /\ next # NoType /\ next \in Allowed[run.window]
              /\ ~Blocked(next, old.agg) /\ ~Duplicate(next, old.corr, old.agg)
    <2>1. rows' = Append(rows, NewRow(next, old.corr, old.agg, due))
      BY <1>7, <1>11 DEF Inserted
    <2>2. next \in Types
      BY <1>6, <1>11, RowFields, TypeAssumption
    <2>3. Grows(next, old.corr, old.agg, due)
      BY <2>1, <2>2, RowFields, RowAdded
    <2> QED
      BY <1>1, <1>2, <1>3, <1>5, <1>6, <1>8, <1>11, <2>2, <2>3
  <1> QED
    BY <1>9, <1>10, <1>11

-----------------------------------------------------------------------------
(* The listing.                                                             *)

\* The ready rows that go before row i.
Below(i) == {j \in Ready : Before(j, i)}

LEMMA ReadyRows ==
  ASSUME TypeOK
  PROVE  /\ IsFiniteSet(Ready) /\ Ready \subseteq Rows /\ Cardinality(Ready) \in Nat
         /\ \A i \in Ready : /\ rows[i].due \in Nat /\ Rank[rows[i].type] \in Nat /\ i \in Nat
                             /\ IsFiniteSet(Below(i)) /\ Cardinality(Below(i)) \in Nat
                             /\ Below(i) \subseteq Ready \ {i}
  <1>1. IsFiniteSet(Rows)
    BY RowsType, FS_Interval DEF Rows
  <1>2. IsFiniteSet(Ready) /\ Ready \subseteq Rows
    BY <1>1, FS_Subset DEF Ready
  <1>3. ASSUME NEW i \in Ready
        PROVE  /\ rows[i].due \in Nat /\ Rank[rows[i].type] \in Nat /\ i \in Nat
               /\ IsFiniteSet(Below(i)) /\ Cardinality(Below(i)) \in Nat
               /\ Below(i) \subseteq Ready \ {i}
    <2>1. rows[i] \in Row /\ Scheduled(i) /\ i \in Nat
      BY <1>2, RowsType DEF Ready
    <2>2. rows[i].due \in Nat /\ Rank[rows[i].type] \in Nat
      BY <2>1, RowFields, TypeAssumption DEF Scheduled
    <2>3. i \notin Below(i)
      BY <2>1, <2>2 DEF Below, Before
    <2>4. Below(i) \subseteq Ready \ {i}
      BY <2>3 DEF Below
    <2>5. IsFiniteSet(Below(i))
      BY <1>2, <2>4, FS_Subset
    <2> QED
      BY <2>1, <2>2, <2>4, <2>5, FS_CardinalityType
  <1> QED
    BY <1>2, <1>3, FS_CardinalityType

\* Of two ready rows one goes before the other, and has fewer before it.
LEMMA Ranked ==
  ASSUME TypeOK, NEW i \in Ready, NEW j \in Ready, i # j
  PROVE  Cardinality(Below(i)) # Cardinality(Below(j))
  <1>1. ASSUME NEW k \in Ready, NEW l \in Ready, Before(k, l)
        PROVE  Cardinality(Below(k)) < Cardinality(Below(l))
    <2>1. ASSUME NEW m \in Below(k) PROVE m \in Below(l) /\ m # k
      <3>1. m \in Ready /\ Before(m, k)
        BY DEF Below
      <3>2. Before(m, l)
        BY <1>1, <3>1, ReadyRows DEF Before
      <3>3. m # k
        BY ReadyRows
      <3> QED
        BY <3>1, <3>2, <3>3 DEF Below
    <2>2. k \in Below(l)
      BY <1>1 DEF Below
    <2>3. IsFiniteSet(Below(l)) /\ Cardinality(Below(l)) \in Nat /\ Cardinality(Below(k)) \in Nat
      BY ReadyRows
    <2>4. Below(k) \subseteq Below(l) \ {k}
      BY <2>1
    <2>5. /\ IsFiniteSet(Below(l) \ {k})
          /\ Cardinality(Below(l) \ {k}) = Cardinality(Below(l)) - 1
      BY <2>2, <2>3, FS_RemoveElement
    <2>6. Cardinality(Below(k)) <= Cardinality(Below(l) \ {k})
      BY <2>4, <2>5, FS_Subset
    <2> QED
      BY <2>3, <2>5, <2>6
  <1>2. Before(i, j) \/ Before(j, i)
    BY ReadyRows DEF Before
  <1> QED
    BY <1>1, <1>2, ReadyRows

\* Every position of the listing is taken.
LEMMA RankTaken ==
  ASSUME TypeOK, NEW n \in 1..Cardinality(Ready)
  PROVE  \E i \in Ready : Cardinality(Below(i)) = n - 1
  <1>1. PICK size \in Nat : size = Cardinality(Ready)
    BY ReadyRows
  <1>2. PICK f : f = [i \in Ready |-> Cardinality(Below(i))]
    OBVIOUS
  <1>3. ASSUME NEW i \in Ready PROVE f[i] \in 0..(size - 1)
    <2>1. /\ IsFiniteSet(Ready \ {i}) /\ Cardinality(Ready \ {i}) = size - 1
      BY <1>1, ReadyRows, FS_RemoveElement
    <2>2. Cardinality(Below(i)) <= size - 1
      BY <2>1, ReadyRows, FS_Subset
    <2> QED
      BY <1>1, <1>2, <2>2, ReadyRows
  <1>4. f \in Injection(Ready, 0..(size - 1))
    <2>1. f \in [Ready -> 0..(size - 1)]
      BY <1>2, <1>3
    <2>2. \A i, j \in Ready : f[i] = f[j] => i = j
      BY <1>2, Ranked
    <2> QED
      BY <2>1, <2>2 DEF Injection, IsInjective
  <1>5. IsFiniteSet(0..(size - 1)) /\ Cardinality(0..(size - 1)) = size
    <2>1. PICK last \in Int : last = size - 1
      OBVIOUS
    <2>2. IsFiniteSet(0..last) /\ Cardinality(0..last) = (IF 0 > last THEN 0 ELSE last - 0 + 1)
      BY FS_Interval
    <2> QED
      BY <2>1, <2>2
  <1>6. f \in Surjection(Ready, 0..(size - 1))
    BY <1>1, <1>4, <1>5, FS_Injection
  <1>7. n - 1 \in 0..(size - 1)
    BY <1>1
  <1>8. PICK i \in Ready : f[i] = n - 1
    BY <1>6, <1>7 DEF Surjection
  <1> QED
    BY <1>2, <1>8

\* What is ready is listed, once.
LEMMA Listing ==
  ASSUME TypeOK, ListReady
  PROVE  /\ queue' \in Seq(Rows)
         /\ \A m, n \in 1..Len(queue') : queue'[m] = queue'[n] => m = n
         /\ \A i : (\E n \in 1..Len(queue') : queue'[n] = i) <=> i \in Ready
  <1>1. PICK size \in Nat : size = Cardinality(Ready)
    BY ReadyRows
  <1>2. queue' = [n \in 1..size |-> CHOOSE i \in Ready : Cardinality(Below(i)) = n - 1]
    BY <1>1 DEF ListReady, Below
  <1>3. ASSUME NEW n \in 1..size
        PROVE  queue'[n] \in Ready /\ Cardinality(Below(queue'[n])) = n - 1
    <2>1. \E i \in Ready : Cardinality(Below(i)) = n - 1
      BY <1>1, RankTaken
    <2>2. queue'[n] = CHOOSE i \in Ready : Cardinality(Below(i)) = n - 1
      BY <1>2
    <2> QED
      BY <2>1, <2>2
  <1>4. Ready \subseteq Rows
    BY ReadyRows
  <1>5. queue' \in [1..size -> Rows]
    BY <1>2, <1>3, <1>4
  <1>6. queue' \in Seq(Rows) /\ Len(queue') = size
    BY <1>1, <1>5, SeqDef
  <1>7. ASSUME NEW m \in 1..size, NEW n \in 1..size, queue'[m] = queue'[n]
        PROVE  m = n
    <2>1. m - 1 = n - 1
      BY <1>3, <1>7
    <2> QED
      BY <1>1, <2>1
  <1>8. ASSUME NEW i \in Ready PROVE \E n \in 1..size : queue'[n] = i
    <2>1. PICK k \in Nat : k = Cardinality(Below(i))
      BY ReadyRows
    <2>2. k <= size - 1
      <3>1. IsFiniteSet(Ready \ {i}) /\ Cardinality(Ready \ {i}) = size - 1
        BY <1>1, ReadyRows, FS_RemoveElement
      <3> QED
        BY <2>1, <3>1, ReadyRows, FS_Subset
    <2>3. k + 1 \in 1..size /\ (k + 1) - 1 = k
      BY <1>1, <2>1, <2>2
    <2>4. queue'[k + 1] \in Ready /\ Cardinality(Below(queue'[k + 1])) = k
      BY <1>3, <2>3
    <2>5. queue'[k + 1] = i
      BY <2>1, <2>4, Ranked
    <2> QED
      BY <2>3, <2>5
  <1> QED
    BY <1>3, <1>6, <1>7, <1>8

-----------------------------------------------------------------------------
(* What every step keeps of the rows.                                       *)

\* The actions that leave the rows alone.
Quiet ==
  \/ \E scope \in Corrs \cup {AllCorrs}, window \in Windows, begin \in StartTimes :
       StartRun(scope, window, begin)
  \/ ListReady \/ HandlerAborts \/ EndCycle \/ AdvanceClock \/ EndRun \/ Crash

LEMMA NextCases ==
  ASSUME Next
  PROVE  \/ \E type \in Roots, corr \in Corrs, agg \in Aggs, due \in StartTimes :
              Seed(type, corr, agg, due)
         \/ \E i \in Rows : Publish(i)
         \/ SkipCompleted \/ HandlerRefuses \/ HandlerFails
         \/ \E publishes \in BOOLEAN : HandlerCommits(publishes)
         \/ Rename
         \/ Mark
         \/ \E delay, again \in Delays : ScheduleChild(delay, again)
         \/ Quiet
  BY DEF Next, Work, Execute, Quiet

LEMMA QuietRows == ASSUME Quiet PROVE rows' = rows
  BY DEF Quiet, StartRun, ListReady, HandlerAborts, EndCycle, AdvanceClock, EndRun, Crash, Over

\* How a row may change in a step.
RowStep(i) ==
  LET old == rows[i]
      new == rows'[i]
  IN  /\ new.type = old.type /\ new.corr = old.corr
      /\ Scheduled(i)' <=> Scheduled(i)
      /\ Scheduled(i) => new.due >= old.due
      /\ Live(i)' => Live(i) /\ new.retries <= MaxRetry
      /\ Active(i)' => Active(i)
      /\ Live(i) /\ ~Live(i)' => i = This /\ pc = "execute" /\ queue' = Tail(queue)
      /\ old.status = "COMPLETED" /\ new.status # "COMPLETED" => i = This /\ pc = "execute"
      /\ new.agg # old.agg =>
           /\ pc = "rename" /\ i = This
           /\ \A j \in Rows : j # i /\ rows[j].type = old.type => rows[j].agg # new.agg
      /\ new.commits # old.commits =>
           /\ i = This /\ pc = "execute" /\ pc' = "rename" /\ ~Done /\ new.commits = old.commits + 1

\* What a row that is added in a step is.
NewStep(n) ==
  /\ rows'[n].status = "PENDING" /\ rows'[n].commits = 0 /\ rows'[n].retries = 0
  /\ rows'[n].due # NoTime =>
       /\ ~Duplicate(rows'[n].type, rows'[n].corr, rows'[n].agg)
       /\ \A i \in Rows : rows'[i] = rows[i]

LEMMA RowsStep ==
  ASSUME TypeOK, QueueInv, Next
  PROVE  /\ rows' \in Seq(Row) /\ Len(rows') \in {Len(rows), Len(rows) + 1}
         /\ \A i \in Rows : RowStep(i)
         /\ Len(rows') = Len(rows) + 1 => NewStep(Len(rows) + 1)
  <1> DEFINE Good == /\ rows' \in Seq(Row) /\ Len(rows') \in {Len(rows), Len(rows) + 1}
                     /\ \A i \in Rows : RowStep(i)
                     /\ Len(rows') = Len(rows) + 1 => NewStep(Len(rows) + 1)
  <1>0. /\ Len(rows) \in Nat /\ rows \in Seq(Row) /\ Len(rows) # Len(rows) + 1
        /\ \A i \in Rows : /\ rows[i] \in Row /\ rows[i].commits \in Nat
                           /\ Live(i) => rows[i].retries <= MaxRetry
                           /\ Scheduled(i) => rows[i].due \in Nat
    <2>1. Len(rows) \in Nat /\ \A i \in Rows : rows[i] \in Row
      BY RowsType
    <2>2. \A i \in Rows : rows[i].commits \in Nat /\ (Scheduled(i) => rows[i].due \in Nat)
      BY <2>1, RowFields DEF Scheduled
    <2> QED
      BY <2>1, <2>2 DEF TypeOK, QueueInv
  <1>1. ASSUME NEW i \in Rows, rows'[i] = rows[i] PROVE RowStep(i)
    BY <1>0, <1>1 DEF RowStep, Live, Active, Scheduled
  <1>2. CASE rows' = rows
    <2>1. \A i \in Rows : RowStep(i)
      BY <1>1, <1>2
    <2> QED
      BY <1>0, <1>2, <2>1
  <1>3. ASSUME NEW type \in Types, NEW corr \in Corrs, NEW agg \in Aggs, NEW due \in Nat,
               Grows(type, corr, agg, due), ~Duplicate(type, corr, agg)
        PROVE  Good
    <2>1. \A i \in Rows : RowStep(i)
      BY <1>1, <1>3 DEF Grows
    <2>2. NewStep(Len(rows) + 1)
      BY <1>3, NewRowType DEF NewStep, Grows
    <2> QED
      BY <1>3, <2>1, <2>2 DEF Grows
  <1>4. ASSUME NEW i \in Rows, NEW status, NEW due, NEW retries,
               Becomes(i, rows[i].agg, status, due, retries, rows[i].commits), RowStep(i)
        PROVE  Good
    <2>1. \A j \in Rows : RowStep(j)
      BY <1>1, <1>4 DEF Becomes
    <2> QED
      BY <1>0, <1>4, <2>1 DEF Becomes
  <1>5. CASE \E type \in Roots, corr \in Corrs, agg \in Aggs, due \in StartTimes :
               Seed(type, corr, agg, due)
    BY <1>3, <1>5, SeedEffect
  <1>6. CASE \E i \in Rows : Publish(i)
    <2>1. PICK i \in Rows : Publish(i)
      BY <1>6
    <2>2. /\ rows[i].status = "PENDING"
          /\ Becomes(i, rows[i].agg, "COMPLETED", rows[i].due, rows[i].retries, rows[i].commits)
      BY <2>1, PublishEffect
    <2>3. RowStep(i)
      BY <1>0, <2>2 DEF Becomes, RowStep, Live, Active, Scheduled
    <2> QED
      BY <1>4, <2>2, <2>3
  <1>7. CASE SkipCompleted \/ HandlerRefuses \/ HandlerFails
    <2>1. PICK status \in {"SKIPPED", "RETRY_SCHEDULED", "FAILED"}, due \in Nat,
               retries \in 0..(MaxRetry + 1) :
            /\ Becomes(This, rows[This].agg, status, due, retries, rows[This].commits)
            /\ due >= rows[This].due
            /\ status = "RETRY_SCHEDULED" => ~Done /\ retries <= MaxRetry
      BY <1>7, LeaveEffect
    <2>2. This \in Rows /\ Listed(This) /\ pc = "execute" /\ queue' = Tail(queue)
      BY <1>7, LeaveEffect, RowsType
    <2>3. Live(This) /\ Scheduled(This)
      BY <2>2 DEF QueueInv
    <2>4. /\ rows'[This].type = rows[This].type /\ rows'[This].corr = rows[This].corr
          /\ rows'[This].agg = rows[This].agg /\ rows'[This].commits = rows[This].commits
          /\ rows'[This].status = status /\ rows'[This].due = due /\ rows'[This].retries = retries
      BY <2>1 DEF Becomes
    <2>5. due # NoTime
      BY TimeAssumption
    <2> QED
      <3>1. PICK now \in Rows : now = This
        BY <2>2
      <3>2. RowStep(now)
        <4>1. rows'[now].due # NoTime /\ rows[now].due # NoTime
          BY <2>3, <2>4, <2>5, <3>1 DEF Scheduled
        <4>2. status = "RETRY_SCHEDULED" => Active(now)
          BY <2>1, <2>3, <3>1 DEF Live, Active, Done
        <4>3. Live(now)' <=> status = "RETRY_SCHEDULED"
          BY <2>4, <3>1 DEF Live, Active
        <4>4. Active(now)' <=> status = "RETRY_SCHEDULED"
          BY <2>4, <3>1 DEF Active
        <4>5. Scheduled(now)' /\ Scheduled(now)
          BY <4>1 DEF Scheduled
        <4> QED
          BY <1>0, <2>1, <2>2, <2>3, <2>4, <3>1, <4>2, <4>3, <4>4, <4>5 DEF RowStep
      <3> QED
        BY <1>4, <2>1, <3>1, <3>2
  <1>8. CASE \E publishes \in BOOLEAN : HandlerCommits(publishes)
    <2>1. PICK now \in Rows : now = This /\ pc = "execute" /\ pc' = "rename" /\ ~Done
      BY <1>8, CommitEffect
    <2>2. /\ rows' \in Seq(Row) /\ Len(rows') \in {Len(rows), Len(rows) + 1}
          /\ \A j \in Rows : j # now => rows'[j] = rows[j]
          /\ rows'[now].type = rows[now].type /\ rows'[now].corr = rows[now].corr
          /\ rows'[now].agg = rows[now].agg /\ rows'[now].status = rows[now].status
          /\ rows'[now].due = rows[now].due /\ rows'[now].retries = rows[now].retries
          /\ rows'[now].commits = rows[now].commits + 1
      BY <1>8, <2>1, CommitEffect
    <2>3. Len(rows') = Len(rows) + 1 =>
            \E type \in Types, corr \in Corrs, agg \in Aggs :
              rows'[Len(rows) + 1] = NewRow(type, corr, agg, NoTime)
      BY <1>8, CommitEffect
    <2>4. RowStep(now)
      BY <1>0, <2>1, <2>2 DEF RowStep, Live, Active, Scheduled
    <2>5. \A i \in Rows : RowStep(i)
      BY <1>1, <2>2, <2>4
    <2>6. Len(rows') = Len(rows) + 1 => NewStep(Len(rows) + 1)
      <3>1. SUFFICES ASSUME Len(rows') = Len(rows) + 1 PROVE NewStep(Len(rows) + 1)
        OBVIOUS
      <3>2. PICK type, corr, agg, new, n :
              /\ type \in Types /\ corr \in Corrs /\ agg \in Aggs
              /\ new = NewRow(type, corr, agg, NoTime)
              /\ n = Len(rows) + 1 /\ rows'[n] = new
        BY <2>3, <3>1
      <3>3. new.status = "PENDING" /\ new.commits = 0 /\ new.retries = 0 /\ new.due = NoTime
        BY <3>2 DEF NewRow
      <3>4. NewStep(n)
        BY <3>2, <3>3 DEF NewStep
      <3> QED
        BY <3>2, <3>4
    <2> QED
      BY <2>2, <2>5, <2>6
  <1>9. CASE Rename
    <2>1. PICK now \in Rows : now = This /\ pc = "rename"
      BY <1>9, RenameEffect
    <2>2. CASE rows' # rows
      <3>1. PICK agg \in Aggs :
              /\ \A i \in Rows : i # now /\ rows[i].type = rows[now].type => rows[i].agg # agg
              /\ Becomes(now, agg, rows[now].status, rows[now].due, rows[now].retries,
                         rows[now].commits)
        BY <1>9, <2>1, <2>2, RenameEffect
      <3>2. RowStep(now)
        BY <1>0, <2>1, <3>1 DEF Becomes, RowStep, Live, Active, Scheduled
      <3>3. \A i \in Rows : RowStep(i)
        BY <1>1, <3>1, <3>2 DEF Becomes
      <3> QED
        BY <1>0, <3>1, <3>3 DEF Becomes
    <2> QED
      BY <1>2, <2>2
  <1>10. CASE Mark
    <2>1. PICK now \in Rows : now = This /\ pc = "mark" /\ Listed(now)
      BY <1>10, MarkEffect, RowsType
    <2>2. Becomes(now, rows[now].agg, "COMPLETED", rows[now].due, rows[now].retries, rows[now].commits)
      BY <1>10, <2>1, MarkEffect
    <2>3. Live(now)
      BY <2>1 DEF QueueInv
    <2>4. RowStep(now)
      BY <1>0, <2>1, <2>2, <2>3 DEF Becomes, RowStep, Live, Active, Scheduled
    <2> QED
      BY <1>4, <2>2, <2>4
  <1>11. CASE \E delay, again \in Delays : ScheduleChild(delay, again)
    <2>1. CASE rows' # rows
      <3>1. PICK row \in Row : row = rows[This] /\ Successor[row.type] \in Types
        BY <1>0, <1>11, <2>1, ChildEffect
      <3>2. PICK due \in Nat :
              /\ ~Duplicate(Successor[row.type], row.corr, row.agg)
              /\ Grows(Successor[row.type], row.corr, row.agg, due)
        BY <1>11, <2>1, <3>1, ChildEffect
      <3> QED
        BY <1>3, <3>1, <3>2, RowFields
    <2> QED
      BY <1>2, <2>1
  <1>12. CASE Quiet
    BY <1>2, <1>12, QuietRows
  <1> QED
    BY <1>5, <1>6, <1>7, <1>8, <1>9, <1>10, <1>11, <1>12, NextCases

LEMMA UniqueInvStep ==
  ASSUME TypeOK, QueueInv, UniqueInv, Next
  PROVE  UniqueInv'
  <1>1. /\ Len(rows) \in Nat /\ Rows = 1..Len(rows) /\ Rows' = 1..Len(rows')
        /\ Len(rows') \in {Len(rows), Len(rows) + 1}
    BY RowsType, RowsStep DEF Rows
  <1>2. ASSUME NEW i \in Rows, NEW j \in Rows, i # j, rows'[i].type = rows'[j].type,
               Scheduled(i)', Scheduled(j)', Live(i)', Live(j)'
        PROVE  rows'[i].corr # rows'[j].corr /\ rows'[i].agg # rows'[j].agg
    <2>1. RowStep(i) /\ RowStep(j)
      BY RowsStep
    <2>2. rows[i].corr # rows[j].corr /\ rows[i].agg # rows[j].agg /\ rows[i].type = rows[j].type
      BY <1>2, <2>1 DEF RowStep, UniqueInv
    <2> QED
      BY <1>2, <2>1, <2>2 DEF RowStep
  <1>3. ASSUME NEW i \in Rows, NEW n, n = Len(rows) + 1, Len(rows') = n, rows'[i].type = rows'[n].type,
               Scheduled(i)', Scheduled(n)', Live(i)'
        PROVE  rows'[i].corr # rows'[n].corr /\ rows'[i].agg # rows'[n].agg
    <2>1. NewStep(n) /\ RowStep(i)
      BY <1>3, RowsStep
    <2>2. /\ ~Duplicate(rows'[n].type, rows'[n].corr, rows'[n].agg)
          /\ rows'[i] = rows[i]
      BY <1>3, <2>1 DEF NewStep, Scheduled
    <2>3. Live(i)
      BY <1>3, <2>1 DEF RowStep
    <2> QED
      BY <1>3, <2>2, <2>3 DEF Duplicate, Live
  <1>4. \A i \in Rows' : i \in Rows \/ (i = Len(rows) + 1 /\ Len(rows') = i)
    BY <1>1
  <1> QED
    BY <1>2, <1>3, <1>4 DEF UniqueInv

-----------------------------------------------------------------------------
(* The run and its queue.                                                   *)

\* A quiet action that is not ListReady leaves the queue alone or empties it.
LEMMA QuietQueue ==
  ASSUME Quiet
  PROVE  ListReady \/ queue' = <<>> \/ (queue' = queue /\ pc \notin {"execute"} /\ ~Middle)
                   \/ (queue' = queue /\ queue = <<>>)
  <1>1. ASSUME \E scope \in Corrs \cup {AllCorrs}, window \in Windows, begin \in StartTimes :
                 StartRun(scope, window, begin)
        PROVE  queue' = queue /\ pc = "off"
    BY <1>1 DEF StartRun
  <1>2. ASSUME HandlerAborts \/ EndRun \/ Crash PROVE queue' = <<>>
    BY <1>2 DEF HandlerAborts, EndRun, Crash, Over
  <1>3. ASSUME EndCycle PROVE queue' = queue /\ queue = <<>>
    BY <1>3 DEF EndCycle
  <1>4. ASSUME AdvanceClock PROVE queue' = queue /\ pc = "advance"
    BY <1>4 DEF AdvanceClock
  <1> QED
    BY <1>1, <1>2, <1>3, <1>4 DEF Quiet, Middle

\* What becomes of the queue.
LEMMA QueueStep ==
  ASSUME TypeOK, QueueInv, Next
  PROVE  /\ queue' \in Seq(Rows)
         /\ \A m, n \in 1..Len(queue') : queue'[m] = queue'[n] => m = n
         /\ \A i : Listed(i)' =>
              \/ /\ Listed(i) /\ run' = run
                 /\ queue' = Tail(queue) => i # This
              \/ ListReady /\ i \in Ready
  <1> DEFINE Good == /\ queue' \in Seq(Rows)
                     /\ \A m, n \in 1..Len(queue') : queue'[m] = queue'[n] => m = n
                     /\ \A i : Listed(i)' =>
                          \/ /\ Listed(i) /\ run' = run
                             /\ queue' = Tail(queue) => i # This
                          \/ ListReady /\ i \in Ready
  <1>1. ASSUME queue' = Tail(queue), queue # <<>>, run' = run PROVE Good
    BY <1>1, QueueTail
  <1>2. ASSUME queue' = queue, run' = run PROVE Good
    <2>1. queue' \in Seq(Rows)
      BY <1>2 DEF TypeOK, Rows
    <2>2. \A m, n \in 1..Len(queue') : queue'[m] = queue'[n] => m = n
      BY <1>2 DEF QueueInv
    <2>3. \A i : Listed(i)' <=> Listed(i)
      BY <1>2 DEF Listed
    <2>4. ASSUME NEW i, Listed(i), queue' = Tail(queue) PROVE i # This
      <3>1. queue # <<>>
        BY <2>4, RowsType DEF Listed
      <3>2. Listed(i)' <=> Listed(i) /\ i # This
        BY <2>4, <3>1, QueueTail
      <3> QED
        BY <2>3, <2>4, <3>2
    <2> QED
      BY <1>2, <2>1, <2>2, <2>3, <2>4
  <1>3. ASSUME queue' = <<>> PROVE Good
    <2>1. queue' \in Seq(Rows) /\ Len(queue') = 0
      BY <1>3, EmptySeq
    <2> QED
      BY <2>1 DEF Listed
  <1>4. CASE \E type \in Roots, corr \in Corrs, agg \in Aggs, due \in StartTimes :
               Seed(type, corr, agg, due)
    BY <1>2, <1>4, SeedEffect DEF cycleVars, runVars
  <1>5. CASE \E i \in Rows : Publish(i)
    BY <1>2, <1>5, PublishEffect DEF cycleVars, runVars
  <1>6. CASE SkipCompleted \/ HandlerRefuses \/ HandlerFails
    BY <1>1, <1>6, LeaveEffect DEF runVars
  <1>7. CASE \E publishes \in BOOLEAN : HandlerCommits(publishes)
    BY <1>2, <1>7, CommitEffect DEF runVars
  <1>8. CASE Rename
    BY <1>2, <1>8, RenameEffect DEF runVars
  <1>9. CASE Mark
    BY <1>2, <1>9, MarkEffect DEF runVars
  <1>10. CASE \E delay, again \in Delays : ScheduleChild(delay, again)
    BY <1>1, <1>10, ChildEffect DEF runVars
  <1>11. CASE Quiet
    <2>1. CASE ListReady
      BY <2>1, Listing DEF Listed
    <2>2. CASE queue' = <<>>
      BY <1>3, <2>2
    <2>3. CASE queue' = queue /\ pc # "execute" /\ ~Middle
      <3>1. queue = <<>>
        BY <2>3 DEF QueueInv
      <3> QED
        BY <1>3, <2>3, <3>1
    <2>4. CASE queue' = queue /\ queue = <<>>
      BY <1>3, <2>4
    <2> QED
      BY <1>11, <2>1, <2>2, <2>3, <2>4, QuietQueue
  <1> QED
    BY <1>4, <1>5, <1>6, <1>7, <1>8, <1>9, <1>10, <1>11, NextCases

\* What becomes of the run and its clock.
LEMMA RunStep ==
  ASSUME TypeOK, RunInv, QueueInv, Next
  PROVE  /\ run' \in Run \cup {NoRun} /\ clock' \in Nat /\ checkpoint' \in Nat \cup {NoTime}
         /\ pc' \in {"off", "list", "execute", "rename", "mark", "child", "advance"}
         /\ Middle' => queue' # <<>>
         /\ failed' \in BOOLEAN /\ faults' \in 0..MaxFaults /\ published' \in 0..MaxPublished
         /\ RunInv'
  <1> DEFINE Good ==
        /\ run' \in Run \cup {NoRun} /\ clock' \in Nat /\ checkpoint' \in Nat \cup {NoTime}
        /\ pc' \in {"off", "list", "execute", "rename", "mark", "child", "advance"}
        /\ Middle' => queue' # <<>>
        /\ failed' \in BOOLEAN /\ faults' \in 0..MaxFaults /\ published' \in 0..MaxPublished
        /\ RunInv'
  <1>0. /\ run \in Run \cup {NoRun} /\ clock \in Nat /\ checkpoint \in Nat \cup {NoTime}
        /\ pc \in {"off", "list", "execute", "rename", "mark", "child", "advance"}
        /\ Middle => queue # <<>>
        /\ failed \in BOOLEAN /\ faults \in 0..MaxFaults /\ published \in 0..MaxPublished
        /\ MaxFaults \in Nat /\ MaxPublished \in Nat /\ NoTime \notin Nat
    BY TimeAssumption DEF TypeOK, Middle
  <1>1. ASSUME UNCHANGED <<runVars, pc, queue>>, failed' \in BOOLEAN, faults' = faults,
               published' \in 0..MaxPublished
        PROVE  Good
    BY <1>0, <1>1 DEF runVars, RunInv, Middle
  <1>2. ASSUME UNCHANGED <<runVars, envVars>>, pc # "off",
               pc' \in {"execute", "rename", "mark", "child"}, failed' \in BOOLEAN,
               Middle' => queue' # <<>>
        PROVE  Good
    BY <1>0, <1>2 DEF runVars, envVars, RunInv
  <1>3. CASE \E type \in Roots, corr \in Corrs, agg \in Aggs, due \in StartTimes :
               Seed(type, corr, agg, due)
    BY <1>0, <1>1, <1>3, SeedEffect DEF cycleVars, envVars
  <1>4. CASE \E i \in Rows : Publish(i)
    BY <1>0, <1>1, <1>4, PublishEffect DEF cycleVars
  <1>5. CASE SkipCompleted \/ HandlerRefuses \/ HandlerFails
    BY <1>2, <1>5, LeaveEffect DEF Middle
  <1>6. CASE \E publishes \in BOOLEAN : HandlerCommits(publishes)
    BY <1>0, <1>2, <1>6, CommitEffect
  <1>7. CASE Rename
    BY <1>0, <1>2, <1>7, RenameEffect
  <1>8. CASE Mark
    BY <1>0, <1>2, <1>8, MarkEffect
  <1>9. CASE \E delay, again \in Delays : ScheduleChild(delay, again)
    BY <1>0, <1>2, <1>9, ChildEffect DEF Middle
  <1>10. CASE \E scope \in Corrs \cup {AllCorrs}, window \in Windows, begin \in StartTimes :
                StartRun(scope, window, begin)
    <2>1. PICK scope \in Corrs \cup {AllCorrs}, window \in Windows, begin \in StartTimes :
            StartRun(scope, window, begin)
      BY <1>10
    <2>2. run' \in Run /\ clock' \in Nat
      BY <2>1, TimeAssumption DEF StartRun, Run
    <2> QED
      BY <1>0, <2>1, <2>2 DEF StartRun, RunInv, envVars, Middle
  <1>11. CASE HandlerAborts \/ EndRun
    <2>1. Over
      BY <1>11 DEF HandlerAborts, EndRun
    <2> QED
      BY <1>0, <2>1 DEF Over, RunInv, envVars, Middle
  <1>12. CASE ListReady
    BY <1>0, <1>12 DEF ListReady, RunInv, envVars, runVars, Middle
  <1>13. CASE EndCycle
    <2>1. /\ pc = "execute" /\ pc' = "advance" /\ run' = run /\ clock' = clock
          /\ failed' = FALSE /\ UNCHANGED <<faults, published>>
          /\ checkpoint' = checkpoint \/ checkpoint' = clock
      BY <1>13 DEF EndCycle, envVars
    <2>2. RunInv'
      BY <1>0, <2>1 DEF RunInv
    <2> QED
      BY <1>0, <2>1, <2>2 DEF Middle
  <1>14. CASE AdvanceClock
    <2>1. PICK due \in NextDue : clock' = IF due < clock THEN clock ELSE due
      BY <1>14 DEF AdvanceClock
    <2>2. due \in Nat
      <3>1. PICK i \in Rows : due = rows[i].due /\ Scheduled(i)
        BY DEF NextDue, Remaining
      <3> QED
        BY <3>1, RowsType, RowFields DEF Scheduled
    <2>3. clock' \in Nat /\ clock' >= clock
      BY <1>0, <2>1, <2>2
    <2> QED
      BY <1>0, <1>14, <2>3 DEF AdvanceClock, RunInv, envVars, Middle
  <1>15. CASE Crash
    <2>1. run \in Run /\ run.begin \in Nat
      BY <1>15, TimeAssumption DEF Crash, RunInv, Run
    <2>2. faults' \in 0..MaxFaults
      BY <1>0, <1>15 DEF Crash
    <2> QED
      <3>1. /\ pc # "off" /\ pc' = "list" /\ failed' = FALSE
            /\ UNCHANGED <<run, checkpoint, published>>
            /\ clock' = IF checkpoint = NoTime THEN run.begin ELSE checkpoint
        BY <1>15 DEF Crash
      <3>2. clock' \in Nat /\ (checkpoint # NoTime => clock' = checkpoint)
        BY <1>0, <2>1, <3>1
      <3>3. RunInv'
        BY <1>0, <2>1, <3>1, <3>2 DEF RunInv
      <3> QED
        BY <1>0, <2>1, <2>2, <3>1, <3>2, <3>3 DEF Middle
  <1> QED
    BY <1>3, <1>4, <1>5, <1>6, <1>7, <1>8, <1>9, <1>10, <1>11, <1>12, <1>13, <1>14, <1>15, NextCases
       DEF Quiet

LEMMA TypeOKStep ==
  ASSUME TypeOK, RunInv, QueueInv, Next
  PROVE  TypeOK'
  <1>1. rows' \in Seq(Row) /\ Len(rows') \in {Len(rows), Len(rows) + 1}
    BY RowsStep
  <1>2. Rows \subseteq 1..Len(rows')
    BY <1>1, RowsType DEF Rows
  <1>3. queue' \in Seq(1..Len(rows'))
    <2>1. queue' \in Seq(Rows) /\ Len(queue') \in Nat
      BY QueueStep, LenProperties
    <2>2. \A n \in 1..Len(queue') : queue'[n] \in 1..Len(rows')
      BY <1>2, <2>1, ElementOfSeq
    <2>3. queue' = [n \in 1..Len(queue') |-> queue'[n]]
      BY <2>1, LenProperties
    <2> QED
      BY <2>1, <2>2, <2>3, SeqDef
  <1>4. (pc \in {"rename", "mark", "child"} => queue # <<>>)'
    BY RunStep DEF Middle
  <1> QED
    BY <1>1, <1>3, <1>4, RunStep DEF TypeOK

LEMMA QueueInvStep ==
  ASSUME TypeOK, RunInv, QueueInv, Next
  PROVE  QueueInv'
  <1>1. TypeOK' /\ RunInv'
    BY TypeOKStep, RunStep
  <1>2. /\ Len(rows) \in Nat /\ Rows = 1..Len(rows) /\ Rows' = 1..Len(rows')
        /\ Len(rows') \in {Len(rows), Len(rows) + 1}
    BY RowsType, RowsStep DEF Rows
  <1>3. \A m, n \in 1..Len(queue') : queue'[m] = queue'[n] => m = n
    BY QueueStep
  <1>4. ASSUME NEW i \in Rows', Listed(i)'
        PROVE  Live(i)' /\ Scheduled(i)' /\ rows'[i].type \in Allowed[run'.window]
    <2>1. CASE ListReady /\ i \in Ready
      <3>1. rows' = rows /\ run' = run
        BY <2>1 DEF ListReady, runVars
      <3> QED
        BY <2>1, <3>1 DEF Ready, Live, Active, Scheduled
    <2>2. CASE Listed(i) /\ run' = run /\ (queue' = Tail(queue) => i # This)
      <3>1. i \in Rows
        BY <2>2, RowsType
      <3>2. RowStep(i) /\ Live(i) /\ Scheduled(i) /\ rows[i].type \in Allowed[run.window]
        BY <2>2, <3>1, RowsStep DEF QueueInv
      <3> QED
        BY <2>2, <3>2 DEF RowStep
    <2> QED
      BY <1>4, <2>1, <2>2, QueueStep
  <1>5. ASSUME queue' # <<>> PROVE pc' = "execute" \/ Middle'
    <2>1. queue # <<>> => pc = "execute" \/ Middle
      BY DEF QueueInv
    <2>2. CASE UNCHANGED <<pc, queue>>
      BY <1>5, <2>1, <2>2 DEF Middle
    <2>3. CASE pc' \in {"execute", "rename", "mark", "child"}
      BY <2>3 DEF Middle
    <2>4. CASE Quiet
      <3>1. ~ListReady => queue = <<>> /\ queue' = <<>>
        BY <1>5, <2>1, <2>4, QuietQueue
      <3>2. ListReady
        BY <1>5, <3>1
      <3> QED
        BY <3>2 DEF ListReady
    <2> QED
      BY <2>2, <2>3, <2>4, NextCases, SeedEffect, PublishEffect, LeaveEffect, CommitEffect,
         RenameEffect, MarkEffect, ChildEffect DEF cycleVars
  <1>6. ASSUME pc' = "child" PROVE rows'[This'].status = "COMPLETED"
    <2>1. ASSUME UNCHANGED <<pc, queue>> PROVE rows'[This'].status = "COMPLETED"
      <3>1. PICK now \in Rows : now = This /\ now = This' /\ rows[now].status = "COMPLETED"
        BY <1>6, <2>1, RowsType DEF QueueInv, This, TypeOK
      <3>2. RowStep(now)
        BY RowsStep
      <3> QED
        BY <1>6, <2>1, <3>1, <3>2 DEF RowStep
    <2>2. CASE Mark
      <3>1. This' = This /\ rows'[This].status = "COMPLETED"
        BY <2>2, MarkEffect DEF This, Becomes
      <3> QED
        BY <3>1
    <2>3. Quiet => pc' # "child"
      BY DEF Quiet, StartRun, ListReady, HandlerAborts, EndCycle, AdvanceClock, EndRun, Crash, Over
    <2> QED
      BY <1>6, <2>1, <2>2, <2>3, NextCases, SeedEffect, PublishEffect, LeaveEffect, CommitEffect,
         RenameEffect, ChildEffect DEF cycleVars
  <1>7. ASSUME NEW i \in Rows', Live(i)' PROVE rows'[i].retries <= MaxRetry
    <2>1. CASE i \in Rows
      BY <1>7, <2>1, RowsStep DEF RowStep
    <2>2. CASE i = Len(rows) + 1 /\ Len(rows') = Len(rows) + 1
      BY <2>2, RowsStep, TimeAssumption DEF NewStep
    <2> QED
      BY <1>2, <2>1, <2>2
  <1> QED
    BY <1>3, <1>4, <1>5, <1>6, <1>7 DEF QueueInv

-----------------------------------------------------------------------------
(* The checkpoint.                                                          *)

\* A row that is added with a time is due after the clock, and the run stays.
LEMMA AddedLater ==
  ASSUME TypeOK, QueueInv, Next, Len(rows') = Len(rows) + 1,
         rows'[Len(rows) + 1].due # NoTime
  PROVE  /\ rows'[Len(rows) + 1].due \in Nat
         /\ pc # "off" => rows'[Len(rows) + 1].due > clock
         /\ \/ UNCHANGED <<pc, queue, failed, runVars>>
            \/ pc = "child"
  <1>0. Len(rows) \in Nat /\ Len(rows) # Len(rows) + 1
    BY RowsType
  <1>1. CASE \E type \in Roots, corr \in Corrs, agg \in Aggs, due \in StartTimes :
               Seed(type, corr, agg, due)
    <2>1. PICK type \in Roots, corr \in Corrs, agg \in Aggs, due \in StartTimes :
            Seed(type, corr, agg, due)
      BY <1>1
    <2>2. /\ Grows(type, corr, agg, due) /\ due \in Nat
          /\ pc # "off" => due > clock
          /\ UNCHANGED <<runVars, cycleVars>>
      BY <2>1, SeedEffect
    <2>3. rows'[Len(rows) + 1].due = due
      BY <2>2, Grown
    <2>4. UNCHANGED <<pc, queue, failed, runVars>>
      BY <2>2 DEF cycleVars
    <2> QED
      BY <2>2, <2>3, <2>4
  <1>2. CASE \E publishes \in BOOLEAN : HandlerCommits(publishes)
    <2>1. PICK type \in Types, corr \in Corrs, agg \in Aggs :
            rows'[Len(rows) + 1] = NewRow(type, corr, agg, NoTime)
      BY <1>2, CommitEffect
    <2> QED
      BY <2>1 DEF NewRow
  <1>3. CASE \E delay, again \in Delays : ScheduleChild(delay, again)
    <2>1. rows' # rows
      BY <1>0
    <2>2. PICK row : row = rows[This]
      OBVIOUS
    <2>3. PICK due : due \in Nat /\ due > clock /\ Grows(Successor[row.type], row.corr, row.agg, due)
      BY <1>3, <2>1, <2>2, ChildEffect
    <2>4. rows'[Len(rows) + 1].due = due
      BY <2>3, Grown
    <2>5. pc = "child"
      BY <1>3, ChildEffect
    <2> QED
      BY <2>3, <2>4, <2>5
  <1>4. CASE (\E i \in Rows : Publish(i)) \/ SkipCompleted \/ HandlerRefuses \/ HandlerFails
             \/ Rename \/ Mark \/ Quiet
    BY <1>0, <1>4, PublishEffect, LeaveEffect, RenameEffect, MarkEffect, QuietRows DEF Becomes
  <1> QED
    BY <1>1, <1>2, <1>3, <1>4, NextCases

\* The rows the checkpoint vouches for after a step of the cycle.
LEMMA DueStep ==
  ASSUME TypeOK, QueueInv, Next, run' = run, NEW i \in Rows', Due(i)'
  PROVE  /\ rows'[i].due \in Nat
         /\ \/ /\ i \in Rows /\ Due(i)
               /\ rows[i].due \in Nat /\ rows'[i].due >= rows[i].due
            \/ /\ i = Len(rows) + 1 /\ Len(rows') = Len(rows) + 1
               /\ rows'[Len(rows) + 1].due # NoTime
  <1>1. /\ Len(rows) \in Nat /\ Rows = 1..Len(rows) /\ Rows' = 1..Len(rows')
        /\ Len(rows') \in {Len(rows), Len(rows) + 1} /\ rows' \in Seq(Row)
    BY RowsType, RowsStep DEF Rows
  <1>2. rows'[i].due \in Nat
    <2>1. rows'[i] \in Row
      BY <1>1, ElementOfSeq
    <2> QED
      BY <2>1, RowFields DEF Due, Scheduled
  <1>3. CASE i \in Rows
    <2>1. RowStep(i) /\ rows[i] \in Row
      BY <1>3, RowsStep, RowsType
    <2>2. Due(i)
      BY <2>1 DEF RowStep, Due, InScope
    <2> QED
      BY <1>2, <1>3, <2>1, <2>2, RowFields DEF RowStep, Due, Scheduled
  <1>4. CASE i \notin Rows
    BY <1>1, <1>2, <1>4 DEF Due, Scheduled
  <1> QED
    BY <1>3, <1>4

LEMMA DrainInvStep ==
  ASSUME TypeOK, RunInv, QueueInv, DrainInv, CheckpointIsProcessed, Next
  PROVE  DrainInv'
  <1> SUFFICES ASSUME pc' = "execute" \/ Middle', ~failed', NEW i \in Rows', Due(i)',
                      rows'[i].due <= clock'
               PROVE  Listed(i)'
    BY DEF DrainInv
  <1>0. clock \in Nat /\ NoTime \notin Nat
    BY TimeAssumption DEF TypeOK
  \* A step inside the cycle that may take the first row from the queue.
  <1>1. ASSUME pc = "execute" \/ Middle, ~failed, UNCHANGED runVars,
               Listed(i) => Listed(i)'
        PROVE  Listed(i)'
    <2>1. pc # "off" /\ run' = run /\ clock' = clock
      BY <1>1 DEF runVars, Middle
    <2>2. i # Len(rows) + 1 \/ Len(rows') # Len(rows) + 1
      BY <1>0, <2>1, AddedLater, DueStep
    <2>3. i \in Rows /\ Due(i) /\ rows[i].due <= clock
      BY <1>0, <2>1, <2>2, DueStep
    <2> QED
      BY <1>1, <2>3 DEF DrainInv
  <1>2. ASSUME UNCHANGED <<pc, queue, failed, runVars>> PROVE Listed(i)'
    <2>1. Listed(i) => Listed(i)'
      BY <1>2 DEF Listed
    <2> QED
      BY <1>1, <1>2, <2>1 DEF Middle
  <1>3. CASE \E type \in Roots, corr \in Corrs, agg \in Aggs, due \in StartTimes :
               Seed(type, corr, agg, due)
    BY <1>2, <1>3, SeedEffect DEF cycleVars
  <1>4. CASE \E k \in Rows : Publish(k)
    BY <1>2, <1>4, PublishEffect DEF cycleVars
  <1>5. CASE SkipCompleted \/ HandlerRefuses \/ HandlerFails
    <2>1. /\ pc = "execute" /\ queue # <<>> /\ queue' = Tail(queue) /\ UNCHANGED runVars
          /\ This \in Rows
      BY <1>5, LeaveEffect
    <2>2. ~failed /\ rows'[This].status = "SKIPPED"
      BY <1>5, LeaveEffect DEF Becomes
    <2>3. i # This
      BY <2>2 DEF Due, Active
    <2>4. Listed(i) => Listed(i)'
      BY <2>1, <2>3, QueueTail
    <2> QED
      BY <1>1, <2>1, <2>2, <2>4
  <1>6. CASE \E publishes \in BOOLEAN : HandlerCommits(publishes)
    <2>1. pc = "execute" /\ queue' = queue /\ failed' = failed /\ UNCHANGED runVars
      BY <1>6, CommitEffect
    <2> QED
      BY <1>1, <2>1 DEF Listed
  <1>7. CASE Rename
    <2>1. pc = "rename" /\ queue' = queue /\ failed' = failed /\ UNCHANGED runVars
      BY <1>7, RenameEffect
    <2> QED
      BY <1>1, <2>1 DEF Listed, Middle
  <1>8. CASE Mark
    <2>1. pc = "mark" /\ queue' = queue /\ failed' = failed /\ UNCHANGED runVars
      BY <1>8, MarkEffect
    <2> QED
      BY <1>1, <2>1 DEF Listed, Middle
  <1>9. CASE \E delay, again \in Delays : ScheduleChild(delay, again)
    <2>1. /\ pc = "child" /\ queue # <<>> /\ queue' = Tail(queue) /\ failed' = failed
          /\ UNCHANGED runVars /\ This \in Rows
      BY <1>9, ChildEffect
    <2>2. i \in Rows => Active(i)
      BY RowsStep DEF Due, RowStep
    <2>3. i # This
      BY <2>1, <2>2 DEF QueueInv, Active
    <2>4. Listed(i) => Listed(i)'
      BY <2>1, <2>3, QueueTail
    <2> QED
      BY <1>1, <2>1, <2>4 DEF Middle
  <1>10. CASE Quiet
    <2>1. ~ListReady => pc' \notin {"execute", "rename", "mark", "child"}
      BY <1>10 DEF Quiet, StartRun, HandlerAborts, EndCycle, AdvanceClock, EndRun, Crash, Over
    <2>2. ListReady
      BY <2>1 DEF Middle
    <2>3. rows' = rows /\ pc = "list" /\ run' = run /\ clock' = clock
      BY <2>2 DEF ListReady, runVars
    <2>4. i \in Rows /\ Due(i) /\ rows[i].due <= clock
      BY <2>3 DEF Due, Rows, Active, InScope, Scheduled
    <2>5. checkpoint # NoTime => rows[i].due >= checkpoint
      BY <2>3, <2>4 DEF CheckpointIsProcessed, Due
    <2>6. i \in Ready
      BY <2>4, <2>5 DEF Ready, Due
    <2> QED
      BY <2>2, <2>6, Listing DEF Listed
  <1> QED
    BY <1>3, <1>4, <1>5, <1>6, <1>7, <1>8, <1>9, <1>10, NextCases

LEMMA CheckpointStep ==
  ASSUME TypeOK, RunInv, QueueInv, DrainInv, CheckpointIsProcessed, Next
  PROVE  CheckpointIsProcessed'
  <1> SUFFICES ASSUME pc' # "off", checkpoint' # NoTime, NEW i \in Rows', Due(i)'
               PROVE  rows'[i].due >= checkpoint'
    BY DEF CheckpointIsProcessed, Due
  <1>0. clock \in Nat /\ checkpoint \in Nat \cup {NoTime} /\ NoTime \notin Nat
    BY TimeAssumption DEF TypeOK
  <1>1. ASSUME pc # "off", run' = run, checkpoint' = checkpoint
        PROVE  rows'[i].due >= checkpoint'
    <2>1. CASE i \in Rows /\ Due(i) /\ rows[i].due \in Nat /\ rows'[i].due >= rows[i].due
      <3>1. rows[i].due >= checkpoint
        BY <1>1, <2>1 DEF CheckpointIsProcessed, Due
      <3> QED
        BY <1>0, <1>1, <2>1, <3>1, DueStep
    <2>2. CASE /\ i = Len(rows) + 1 /\ Len(rows') = Len(rows) + 1
               /\ rows'[Len(rows) + 1].due # NoTime
      <3>1. rows'[i].due \in Nat /\ rows'[i].due > clock
        BY <1>1, <2>2, AddedLater
      <3>2. checkpoint <= clock
        BY <1>1 DEF RunInv
      <3> QED
        BY <1>0, <1>1, <3>1, <3>2
    <2> QED
      BY <1>1, <2>1, <2>2, DueStep
  <1>2. CASE Quiet
    <2>1. CASE ListReady \/ AdvanceClock \/ Crash
      BY <1>1, <2>1 DEF ListReady, AdvanceClock, Crash, runVars
    <2>2. CASE EndCycle
      <3>1. /\ pc = "execute" /\ queue = <<>> /\ rows' = rows /\ run' = run
            /\ checkpoint' = IF failed THEN checkpoint ELSE clock
        BY <2>2 DEF EndCycle
      <3>2. CASE failed
        BY <1>1, <3>1, <3>2
      <3>3. CASE ~failed
        <4>1. i \in Rows /\ Due(i) /\ rows[i].due \in Nat
          BY <3>1, DueStep DEF Rows, Due, Active, InScope, Scheduled
        <4>2. ~Listed(i)
          BY <3>1, RowsType DEF Listed
        <4>3. ~(rows[i].due <= clock)
          BY <3>1, <3>3, <4>1, <4>2 DEF DrainInv
        <4> QED
          BY <1>0, <3>1, <3>3, <4>1, <4>3
      <3> QED
        BY <3>2, <3>3
    <2>3. ~(\E scope \in Corrs \cup {AllCorrs}, window \in Windows, begin \in StartTimes :
              StartRun(scope, window, begin)) /\ ~HandlerAborts /\ ~EndRun
      BY DEF StartRun, HandlerAborts, EndRun, Over
    <2> QED
      BY <1>2, <2>1, <2>2, <2>3 DEF Quiet
  <1>3. CASE UNCHANGED <<pc, runVars>>
    BY <1>1, <1>3 DEF runVars
  <1>4. CASE pc \in {"execute", "rename", "mark", "child"} /\ UNCHANGED runVars
    BY <1>1, <1>4 DEF runVars
  <1> QED
    BY <1>2, <1>3, <1>4, NextCases, SeedEffect, PublishEffect, LeaveEffect, CommitEffect,
       RenameEffect, MarkEffect, ChildEffect DEF cycleVars

-----------------------------------------------------------------------------
(* Commits and chains, while the process does not die.                      *)

LEMMA NoCrash ==
  ASSUME TypeOK, QueueInv, Next, faults' = 0
  PROVE  faults = 0 /\ ~Crash
  <1>1. ~Crash
    BY TimeAssumption DEF Crash, TypeOK
  <1>2. Quiet => faults' = faults
    BY <1>1 DEF Quiet, StartRun, ListReady, HandlerAborts, EndCycle, AdvanceClock, EndRun, Over, envVars
  <1> QED
    BY <1>1, <1>2, NextCases, SeedEffect, PublishEffect, LeaveEffect, CommitEffect, RenameEffect,
       MarkEffect, ChildEffect DEF envVars

\* What CommitInv says of row i.
CommitOf(i) ==
  /\ rows[i].commits <= 1
  /\ (Listed(i) /\ ~(Middle /\ i = This)) => rows[i].commits = 0
  /\ rows[i].commits > 0 =>
       Scheduled(i) /\ (rows[i].status = "COMPLETED" \/ (Middle /\ i = This))

\* A quiet step that does not crash leaves no row in the middle of its execution.
LEMMA QuietStep ==
  ASSUME TypeOK, QueueInv, Quiet, ~Crash
  PROVE  ~Middle /\ ~Middle'
  BY DEF Quiet, StartRun, ListReady, HandlerAborts, Executing, EndCycle, AdvanceClock, EndRun, Over,
         Middle

LEMMA CommitInvStep ==
  ASSUME TypeOK, RunInv, QueueInv, CommitInv, Next
  PROVE  CommitInv'
  <1> SUFFICES ASSUME faults' = 0
               PROVE  /\ Middle' => rows'[This'].commits = 1
                      /\ \A i \in Rows' : CommitOf(i)'
    BY DEF CommitInv, CommitOf
  <1>0. /\ faults = 0 /\ ~Crash
        /\ Middle => rows[This].commits = 1
        /\ \A i \in Rows : CommitOf(i)
        /\ \A i \in Rows : rows[i].commits \in Nat
    BY NoCrash, RowsType, RowFields DEF CommitInv, CommitOf
  <1>1. ASSUME Middle' => rows'[This'].commits = 1, \A i \in Rows : CommitOf(i)'
        PROVE  /\ Middle' => rows'[This'].commits = 1
               /\ \A i \in Rows' : CommitOf(i)'
    <2>1. /\ Len(rows) \in Nat /\ Rows = 1..Len(rows) /\ Rows' = 1..Len(rows')
          /\ Len(rows') \in {Len(rows), Len(rows) + 1}
      BY RowsType, RowsStep DEF Rows
    <2>2. ASSUME NEW n, n = Len(rows) + 1, Len(rows') = n PROVE CommitOf(n)'
      <3>1. rows'[n].commits = 0
        BY <2>2, RowsStep DEF NewStep
      <3> QED
        BY <3>1 DEF CommitOf
    <2> QED
      BY <1>1, <2>1, <2>2
  <1>2. ASSUME queue' = queue, pc' = pc \/ (Middle /\ Middle'),
               \A i \in Rows : /\ rows'[i].commits = rows[i].commits
                               /\ Scheduled(i)' <=> Scheduled(i)
                               /\ rows[i].status = "COMPLETED" => rows'[i].status = "COMPLETED"
        PROVE  (Middle' => rows'[This'].commits = 1) /\ \A i \in Rows : CommitOf(i)'
    <2>1. (Middle' <=> Middle) /\ This' = This
      BY <1>2 DEF Middle, This
    <2>2. Middle => This \in Rows
      BY RowsType DEF TypeOK, Middle
    <2>3. \A i : Listed(i)' <=> Listed(i)
      BY <1>2 DEF Listed
    <2> QED
      BY <1>0, <1>2, <2>1, <2>2, <2>3 DEF CommitOf
  <1>3. CASE \E type \in Roots, corr \in Corrs, agg \in Aggs, due \in StartTimes :
               Seed(type, corr, agg, due)
    <2>1. pc' = pc /\ queue' = queue /\ \A i \in Rows : rows'[i] = rows[i]
      BY <1>3, SeedEffect DEF Grows, cycleVars
    <2>2. \A i \in Rows : /\ rows'[i].commits = rows[i].commits
                          /\ Scheduled(i)' <=> Scheduled(i)
                          /\ rows[i].status = "COMPLETED" => rows'[i].status = "COMPLETED"
      BY <2>1 DEF Scheduled
    <2> QED
      BY <1>1, <1>2, <2>1, <2>2
  <1>4. CASE \E i \in Rows : Publish(i)
    <2>1. PICK k \in Rows : Publish(k)
      BY <1>4
    <2>2. /\ Becomes(k, rows[k].agg, "COMPLETED", rows[k].due, rows[k].retries, rows[k].commits)
          /\ pc' = pc /\ queue' = queue
      BY <2>1, PublishEffect DEF cycleVars
    <2>3. \A i \in Rows : /\ rows'[i].commits = rows[i].commits
                          /\ Scheduled(i)' <=> Scheduled(i)
                          /\ rows[i].status = "COMPLETED" => rows'[i].status = "COMPLETED"
      BY <2>2 DEF Scheduled, Becomes
    <2> QED
      BY <1>1, <1>2, <2>2, <2>3
  <1>5. CASE SkipCompleted \/ HandlerRefuses \/ HandlerFails
    <2>1. /\ pc = "execute" /\ pc' = "execute" /\ queue # <<>> /\ This \in Rows
          /\ queue' = Tail(queue) /\ Listed(This)
          /\ rows'[This].commits = rows[This].commits
          /\ \A i \in Rows : i # This => rows'[i] = rows[i]
      BY <1>5, LeaveEffect, RowsType DEF Becomes
    <2>2. \A i : Listed(i)' => Listed(i) /\ i # This
      BY <2>1, QueueTail
    <2>3. ~Middle /\ ~Middle'
      BY <2>1 DEF Middle
    <2>4. rows[This].commits = 0
      BY <1>0, <2>1, <2>3 DEF CommitOf
    <2>5. ASSUME NEW i \in Rows, i # This PROVE CommitOf(i)'
      BY <1>0, <2>1, <2>2, <2>3, <2>5 DEF CommitOf, Scheduled
    <2>6. ASSUME NEW i \in Rows, i = This PROVE CommitOf(i)'
      BY <2>1, <2>4, <2>6 DEF CommitOf
    <2> QED
      BY <1>1, <2>3, <2>5, <2>6
  <1>6. CASE \E publishes \in BOOLEAN : HandlerCommits(publishes)
    <2>1. /\ pc = "execute" /\ pc' = "rename" /\ queue # <<>> /\ This \in Rows /\ queue' = queue
          /\ Listed(This) /\ rows'[This].commits = rows[This].commits + 1
          /\ rows'[This].due = rows[This].due
          /\ \A i \in Rows : i # This => rows'[i] = rows[i]
      BY <1>6, CommitEffect, RowsType
    <2>2. /\ ~Middle /\ Middle' /\ This' = This /\ \A i : Listed(i)' <=> Listed(i)
      BY <2>1 DEF Middle, This, Listed
    <2>3. rows[This].commits = 0 /\ Scheduled(This)
      BY <1>0, <2>1, <2>2 DEF CommitOf, QueueInv
    <2>4. rows'[This'].commits = 1
      BY <2>1, <2>2, <2>3
    <2>5. ASSUME NEW i \in Rows, i # This PROVE CommitOf(i)'
      BY <1>0, <2>1, <2>2, <2>5 DEF CommitOf, Scheduled
    <2>6. ASSUME NEW i \in Rows, i = This PROVE CommitOf(i)'
      BY <2>1, <2>2, <2>3, <2>4, <2>6 DEF CommitOf, Scheduled
    <2> QED
      BY <1>1, <2>4, <2>5, <2>6
  <1>7. CASE Rename
    <2>1. pc = "rename" /\ pc' = "mark" /\ queue' = queue
      BY <1>7, RenameEffect
    <2>2. \A i \in Rows : /\ rows'[i].commits = rows[i].commits
                          /\ Scheduled(i)' <=> Scheduled(i)
                          /\ rows[i].status = "COMPLETED" => rows'[i].status = "COMPLETED"
      BY <2>1, RowsStep DEF RowStep
    <2> QED
      BY <1>1, <1>2, <2>1, <2>2 DEF Middle
  <1>8. CASE Mark
    <2>1. pc = "mark" /\ pc' = "child" /\ queue' = queue
      BY <1>8, MarkEffect
    <2>2. \A i \in Rows : /\ rows'[i].commits = rows[i].commits
                          /\ Scheduled(i)' <=> Scheduled(i)
                          /\ rows[i].status = "COMPLETED" => rows'[i].status = "COMPLETED"
      BY <2>1, RowsStep DEF RowStep
    <2> QED
      BY <1>1, <1>2, <2>1, <2>2 DEF Middle
  <1>9. CASE \E delay, again \in Delays : ScheduleChild(delay, again)
    <2>1. /\ pc = "child" /\ pc' = "execute" /\ queue # <<>> /\ queue' = Tail(queue)
      BY <1>9, ChildEffect
    <2>2. \A i \in Rows : rows'[i] = rows[i]
      BY <1>9, ChildEffect DEF Grows
    <2>3. \A i : Listed(i)' => Listed(i) /\ i # This
      BY <2>1, QueueTail
    <2>4. Middle /\ ~Middle' /\ rows[This].status = "COMPLETED"
      BY <2>1 DEF Middle, QueueInv
    <2>5. ASSUME NEW i \in Rows PROVE CommitOf(i)'
      BY <1>0, <2>2, <2>3, <2>4 DEF CommitOf, Scheduled
    <2> QED
      BY <1>1, <2>4, <2>5
  <1>10. CASE Quiet
    <2>1. rows' = rows /\ ~Middle /\ ~Middle'
      BY <1>0, <1>10, QuietRows, QuietStep
    <2>2. ASSUME NEW i \in Rows, Listed(i)' PROVE rows[i].commits = 0
      <3>1. CASE Listed(i)
        BY <1>0, <2>1, <3>1 DEF CommitOf
      <3>2. CASE i \in Ready
        BY <1>0, <2>1, <3>2 DEF Ready, Active, CommitOf
      <3> QED
        BY <2>2, <3>1, <3>2, QueueStep
    <2>3. ASSUME NEW i \in Rows PROVE CommitOf(i)'
      BY <1>0, <2>1, <2>2 DEF CommitOf, Scheduled
    <2> QED
      BY <1>1, <2>1, <2>3
  <1> QED
    BY <1>3, <1>4, <1>5, <1>6, <1>7, <1>8, <1>9, <1>10, NextCases

\* An executed row that is completed, and left by the executor, stays as it is.
LEMMA ExecutedStays ==
  ASSUME TypeOK, RunInv, QueueInv, CommitInv, Next, faults' = 0, NEW k \in Rows,
         rows[k].status = "COMPLETED", rows[k].commits > 0, ~(Middle /\ k = This)
  PROVE  rows'[k] = rows[k] /\ ~(Middle' /\ k = This')
  <1>1. ~Listed(k) /\ k \notin Ready
    <2>1. faults = 0
      BY NoCrash
    <2> QED
      BY <2>1 DEF CommitInv, Ready, Active
  <1>2. ~Listed(k)'
    BY <1>1, QueueStep
  <1>3. ~(Middle' /\ k = This')
    <2> SUFFICES ASSUME Middle' PROVE k # This'
      OBVIOUS
    <2>1. queue' # <<>> /\ queue' \in Seq(Rows)
      BY RunStep, QueueStep
    <2>2. Len(queue') \in Nat \ {0} /\ Head(queue') = queue'[1]
      BY <2>1, LenProperties, EmptySeq
    <2>3. This' = queue'[1] /\ 1 \in 1..Len(queue')
      BY <2>2 DEF This
    <2> QED
      BY <1>2, <2>3 DEF Listed
  <1> SUFFICES rows'[k] = rows[k]
    BY <1>3
  <1>4. queue # <<>> => k # This
    BY <1>1, RowsType
  <1>5. CASE \E type \in Roots, corr \in Corrs, agg \in Aggs, due \in StartTimes :
               Seed(type, corr, agg, due)
    BY <1>5, SeedEffect DEF Grows
  <1>6. CASE \E i \in Rows : Publish(i)
    BY <1>6, PublishEffect DEF Becomes
  <1>7. CASE SkipCompleted \/ HandlerRefuses \/ HandlerFails
    BY <1>4, <1>7, LeaveEffect DEF Becomes
  <1>8. CASE \E publishes \in BOOLEAN : HandlerCommits(publishes)
    BY <1>4, <1>8, CommitEffect
  <1>9. CASE Rename
    BY <1>4, <1>9, RenameEffect DEF Becomes
  <1>10. CASE Mark
    BY <1>4, <1>10, MarkEffect DEF Becomes
  <1>11. CASE \E delay, again \in Delays : ScheduleChild(delay, again)
    BY <1>11, ChildEffect DEF Grows
  <1>12. CASE Quiet
    BY <1>12, QuietRows
  <1> QED
    BY <1>5, <1>6, <1>7, <1>8, <1>9, <1>10, <1>11, <1>12, NextCases

\* Only Rename changes an aggregate.
LEMMA AggChanges ==
  ASSUME TypeOK, QueueInv, Next, NEW j \in Rows, rows'[j].agg # rows[j].agg
  PROVE  Rename /\ pc = "rename" /\ pc' = "mark" /\ j = This
  <1>1. pc = "rename" /\ j = This
    BY RowsStep DEF RowStep
  <1>2. ~(\E type \in Roots, corr \in Corrs, agg \in Aggs, due \in StartTimes :
            Seed(type, corr, agg, due))
    BY SeedEffect DEF Grows
  <1>3. ~(\E i \in Rows : Publish(i))
    BY PublishEffect DEF Becomes
  <1>4. ~Quiet
    BY QuietRows
  <1> QED
    BY <1>1, <1>2, <1>3, <1>4, NextCases, LeaveEffect, CommitEffect, RenameEffect, MarkEffect,
       ChildEffect

\* A row that is about to be renamed was so before, or has just been executed.
LEMMA RenameBegins ==
  ASSUME TypeOK, QueueInv, Next, pc' = "rename"
  PROVE  /\ This' = This /\ queue # <<>>
         /\ pc = "rename" \/ pc = "execute"
  <1>1. Quiet => pc' # "rename"
    BY DEF Quiet, StartRun, ListReady, HandlerAborts, EndCycle, AdvanceClock, EndRun, Crash, Over
  <1>2. CASE UNCHANGED <<pc, queue>>
    BY <1>2 DEF This, TypeOK
  <1>3. CASE \E publishes \in BOOLEAN : HandlerCommits(publishes)
    BY <1>3, CommitEffect DEF This
  <1> QED
    BY <1>1, <1>2, <1>3, NextCases, SeedEffect, PublishEffect, LeaveEffect, RenameEffect,
       MarkEffect, ChildEffect DEF cycleVars

\* What ScheduleChild adds follows the row that was executed.
LEMMA AddedChild ==
  ASSUME TypeOK, QueueInv, CommitInv, Next, faults' = 0, Len(rows') = Len(rows) + 1,
         rows'[Len(rows) + 1].due # NoTime, rows'[Len(rows) + 1].type \notin Roots
  PROVE  /\ pc = "child" /\ pc' = "execute" /\ This \in Rows /\ rows'[This] = rows[This]
         /\ rows[This].status = "COMPLETED" /\ rows[This].commits = 1
         /\ rows'[Len(rows) + 1].type = Successor[rows[This].type]
         /\ rows'[Len(rows) + 1].corr = rows[This].corr
         /\ rows'[Len(rows) + 1].agg = rows[This].agg
  <1>0. Len(rows) \in Nat /\ Len(rows) # Len(rows) + 1 /\ faults = 0
    BY RowsType, NoCrash
  <1>1. ~(\E type \in Roots, corr \in Corrs, agg \in Aggs, due \in StartTimes :
            Seed(type, corr, agg, due))
    BY SeedEffect, Grown
  <1>2. ~(\E publishes \in BOOLEAN : HandlerCommits(publishes))
    <2> SUFFICES ASSUME \E publishes \in BOOLEAN : HandlerCommits(publishes) PROVE FALSE
      OBVIOUS
    <2>1. PICK type \in Types, corr \in Corrs, agg \in Aggs :
            rows'[Len(rows) + 1] = NewRow(type, corr, agg, NoTime)
      BY CommitEffect
    <2> QED
      BY <2>1 DEF NewRow
  <1>3. CASE \E delay, again \in Delays : ScheduleChild(delay, again)
    <2>1. rows' # rows
      BY <1>0
    <2>2. /\ pc = "child" /\ pc' = "execute" /\ This \in Rows
          /\ rows[This].status = "COMPLETED" /\ rows[This].commits = 1
      BY <1>0, <1>3, ChildEffect DEF QueueInv, CommitInv, Middle
    <2>3. PICK row : row = rows[This]
      OBVIOUS
    <2>4. PICK due : Grows(Successor[row.type], row.corr, row.agg, due)
      BY <1>3, <2>1, <2>3, ChildEffect
    <2> QED
      BY <2>2, <2>3, <2>4, Grown
  <1> QED
    BY <1>0, <1>1, <1>2, <1>3, NextCases, PublishEffect, LeaveEffect, RenameEffect, MarkEffect,
       QuietRows DEF Becomes

LEMMA ParentInvStep ==
  ASSUME TypeOK, RunInv, QueueInv, CommitInv, ParentInv, Next
  PROVE  ParentInv'
  <1> SUFFICES ASSUME faults' = 0, NEW j \in Rows', Scheduled(j)', rows'[j].type \notin Roots
               PROVE  \E k \in Rows' : Parent(k, j)'
    BY DEF ParentInv
  <1>0. /\ faults = 0
        /\ Len(rows) \in Nat /\ Rows = 1..Len(rows) /\ Rows' = 1..Len(rows')
        /\ Len(rows') \in {Len(rows), Len(rows) + 1}
    BY NoCrash, RowsType, RowsStep DEF Rows
  <1>1. CASE j \in Rows
    <2>1. RowStep(j)
      BY <1>1, RowsStep
    <2>2. PICK k \in Rows : Parent(k, j)
      BY <1>0, <1>1, <2>1 DEF RowStep, ParentInv
    <2>3. rows'[k] = rows[k] /\ ~(Middle' /\ k = This')
      BY <2>2, ExecutedStays DEF Parent
    <2>4. ASSUME rows'[j].commits = 0 \/ (pc' = "rename" /\ j = This')
          PROVE  rows[k].agg = rows'[j].agg
      <3>1. CASE rows'[j].agg # rows[j].agg
        <4>1. pc = "rename" /\ pc' = "mark" /\ j = This
          BY <1>1, <3>1, AggChanges
        <4>2. rows[j].commits = 1
          BY <1>0, <4>1 DEF CommitInv, Middle
        <4>3. rows'[j].commits = rows[j].commits
          BY <2>1, <4>1 DEF RowStep
        <4> QED
          BY <2>4, <4>1, <4>2, <4>3
      <3>2. CASE rows'[j].agg = rows[j].agg
        <4>1. rows[j].commits \in Nat
          BY <1>1, RowsType, RowFields
        <4>2. CASE rows'[j].commits = 0
          <5>1. rows[j].commits = 0
            BY <2>1, <4>1, <4>2 DEF RowStep
          <5> QED
            BY <2>2, <3>2, <5>1 DEF Parent
        <4>3. CASE pc' = "rename" /\ j = This'
          <5>1. j = This /\ queue # <<>> /\ (pc = "rename" \/ pc = "execute")
            BY <4>3, RenameBegins
          <5>2. pc = "execute" => rows[j].commits = 0
            BY <1>0, <1>1, <5>1, RowsType DEF CommitInv, Middle
          <5> QED
            BY <2>2, <3>2, <5>1, <5>2 DEF Parent
        <4> QED
          BY <2>4, <4>2, <4>3
      <3> QED
        BY <3>1, <3>2
    <2>5. Parent(k, j)'
      BY <2>1, <2>2, <2>3, <2>4 DEF RowStep, Parent
    <2> QED
      BY <1>0, <2>5
  <1>2. CASE j \notin Rows
    <2>1. j = Len(rows) + 1 /\ Len(rows') = Len(rows) + 1
      BY <1>0, <1>2
    <2>2. rows'[Len(rows) + 1].due # NoTime /\ rows'[Len(rows) + 1].type \notin Roots
      BY <2>1 DEF Scheduled
    <2>3. PICK k \in Rows :
            /\ pc = "child" /\ pc' = "execute" /\ rows'[k] = rows[k]
            /\ rows[k].status = "COMPLETED" /\ rows[k].commits = 1
            /\ rows'[j].type = Successor[rows[k].type] /\ rows'[j].corr = rows[k].corr
            /\ rows'[j].agg = rows[k].agg
      BY <2>1, <2>2, AddedChild
    <2>4. Parent(k, j)'
      BY <2>3 DEF Parent, Middle
    <2> QED
      BY <1>0, <2>4
  <1> QED
    BY <1>1, <1>2

LEMMA ChainStep ==
  ASSUME TypeOK, RunInv, QueueInv, UniqueInv, CommitInv, ParentInv, ChainContinues, Next
  PROVE  ChainContinues'
  <1> SUFFICES ASSUME faults' = 0, NEW i \in Rows',
                      rows'[i].status = "COMPLETED", rows'[i].commits > 0,
                      Successor[rows'[i].type] # NoType, ~CutByWindow(rows'[i].type),
                      ~(Middle' /\ i = This')
               PROVE  \E j \in Rows' :
                        /\ rows'[j].type = Successor[rows'[i].type]
                        /\ rows'[j].corr = rows'[i].corr \/ rows'[j].agg = rows'[i].agg
    BY DEF ChainContinues, Middle, CutByWindow
  <1>0. /\ faults = 0 /\ ~Crash
        /\ Len(rows) \in Nat /\ Rows = 1..Len(rows) /\ Rows' = 1..Len(rows')
        /\ Len(rows') \in {Len(rows), Len(rows) + 1}
    BY NoCrash, RowsType, RowsStep DEF Rows
  <1>1. i \in Rows
    <2>1. ASSUME i = Len(rows) + 1, Len(rows') = i PROVE FALSE
      BY <2>1, RowsStep DEF NewStep
    <2> QED
      BY <1>0, <2>1
  \* The chain of i had gone on before the step.
  <1>2. CASE rows[i].status = "COMPLETED" /\ rows[i].commits > 0 /\ ~(Middle /\ i = This)
    <2>1. rows'[i] = rows[i]
      BY <1>1, <1>2, ExecutedStays
    <2>2. PICK j \in Rows : /\ rows[j].type = Successor[rows[i].type]
                            /\ rows[j].corr = rows[i].corr \/ rows[j].agg = rows[i].agg
      BY <1>0, <1>1, <1>2, <2>1 DEF ChainContinues, Middle
    <2>3. RowStep(j)
      BY RowsStep
    <2>4. CASE rows[j].corr = rows[i].corr \/ rows'[j].agg = rows[j].agg
      BY <1>0, <2>1, <2>2, <2>3, <2>4 DEF RowStep
    <2>5. CASE rows[j].corr # rows[i].corr /\ rows'[j].agg # rows[j].agg
      <3>1. pc = "rename" /\ j = This
        BY <2>5, AggChanges
      <3>2. rows[j].commits = 1
        BY <1>0, <3>1 DEF CommitInv, Middle
      <3>3. Scheduled(j) /\ Scheduled(i)
        BY <1>0, <1>1, <1>2, <3>2 DEF CommitInv
      <3>4. rows[i].type \in Types /\ rows[j].type \in Types
        BY <1>1, RowsType, RowFields
      <3>5. rows[j].type \notin Roots
        BY <2>2, <3>4, ChainAssumption
      <3>6. PICK k \in Rows : Parent(k, j)
        BY <1>0, <3>3, <3>5 DEF ParentInv
      <3>7. rows[k].type \in Types
        BY RowsType, RowFields
      <3>8. rows[k].type = rows[i].type
        BY <2>1, <2>2, <3>4, <3>6, <3>7, ChainAssumption DEF Parent
      <3>9. rows[k].corr = rows[j].corr /\ rows[k].agg = rows[j].agg
        BY <3>1, <3>6 DEF Parent
      <3>10. Scheduled(k) /\ Live(k) /\ Live(i)
        BY <1>0, <1>2, <3>6 DEF Parent, CommitInv, Live
      <3>11. rows[k].agg = rows[i].agg
        BY <2>2, <2>5, <3>9
      <3>12. k = i
        BY <1>1, <3>3, <3>8, <3>10, <3>11 DEF UniqueInv
      <3> QED
        BY <2>5, <3>9, <3>12
    <2> QED
      BY <2>4, <2>5
  \* The step is what ends the execution of i.
  <1>3. CASE ~(rows[i].status = "COMPLETED" /\ rows[i].commits > 0 /\ ~(Middle /\ i = This))
    <2>1. RowStep(i) /\ rows[i] \in Row /\ rows[i].commits \in Nat
      BY <1>1, RowsStep, RowsType, RowFields
    <2>2. CommitOf(i)'
      <3>1. CommitInv'
        BY CommitInvStep
      <3> QED
        BY <3>1 DEF CommitInv, CommitOf
    <2>3. Middle /\ i = This /\ ~Middle'
      <3>1. CASE rows'[i].commits # rows[i].commits
        BY <2>1, <3>1, RenameBegins DEF RowStep, Middle
      <3>2. CASE rows'[i].commits = rows[i].commits
        <4>1. Middle /\ i = This
          BY <1>0, <1>1, <1>3, <3>2 DEF CommitInv
        <4>2. CASE UNCHANGED <<pc, queue>>
          BY <4>1, <4>2 DEF Middle, This
        <4>3. CASE Rename \/ Mark
          BY <4>1, <4>3, RenameEffect, MarkEffect DEF Middle, This
        <4>4. CASE \E delay, again \in Delays : ScheduleChild(delay, again)
          BY <4>1, <4>4, ChildEffect DEF Middle
        <4>5. CASE Quiet
          BY <1>0, <4>1, <4>5, QuietStep
        <4>6. CASE pc = "execute"
          BY <4>1, <4>6 DEF Middle
        <4> QED
          BY <4>2, <4>3, <4>4, <4>5, <4>6, NextCases, SeedEffect, PublishEffect, LeaveEffect,
             CommitEffect DEF cycleVars
      <3> QED
        BY <3>1, <3>2
    <2>4. \E delay, again \in Delays : ScheduleChild(delay, again)
      <3>1. ~Quiet
        BY <1>0, <2>3, QuietStep
      <3>2. ~UNCHANGED pc
        BY <2>3 DEF Middle
      <3> QED
        BY <2>3, <3>1, <3>2, NextCases, SeedEffect, PublishEffect, LeaveEffect, CommitEffect,
           RenameEffect, MarkEffect DEF cycleVars, Middle
    <2>5. PICK row, next : row \in Row /\ row = rows[i] /\ next = Successor[row.type]
      BY <2>1
    <2>6. /\ pc = "child" /\ row.commits = 1 /\ Listed(i)
          /\ row.type \in Types
      BY <1>0, <1>1, <2>3, <2>4, <2>5, ChildEffect, RowsType, RowFields DEF CommitInv
    <2>7. /\ \A j \in Rows : rows'[j] = rows[j]
          /\ \/ next = NoType \/ next \notin Allowed[run.window]
             \/ Blocked(next, row.agg) \/ Duplicate(next, row.corr, row.agg)
             \/ \E due : Grows(next, row.corr, row.agg, due)
      BY <2>3, <2>4, <2>5, ChildEffect DEF Grows
    <2>8. next # NoType /\ next \in Allowed[run.window]
      <3>1. row.type \in Allowed[run.window]
        BY <1>1, <2>5, <2>6 DEF QueueInv
      <3>2. run.window \in Windows
        BY <2>6 DEF RunInv, Run
      <3> QED
        BY <1>1, <2>5, <2>7, <3>1, <3>2 DEF CutByWindow
    <2>9. ~Blocked(next, row.agg)
      <3>1. next = "SupplierShipmentCreated" => row.type = "PurchaseOrderApproved"
        BY <2>5, <2>6, ChainAssumption
      <3> QED
        BY <1>1, <2>5, <2>6, <3>1 DEF Blocked
    <2>10. CASE Duplicate(next, row.corr, row.agg)
      <3>1. PICK j \in Rows : rows[j].type = next /\ (rows[j].corr = row.corr \/ rows[j].agg = row.agg)
        BY <2>10 DEF Duplicate
      <3> QED
        BY <1>0, <1>1, <2>5, <2>7, <3>1
    <2>11. CASE \E due : Grows(next, row.corr, row.agg, due)
      <3>1. PICK n : n = Len(rows) + 1
        OBVIOUS
      <3>2. Len(rows') = n /\ rows'[n].type = next /\ rows'[n].corr = row.corr
        BY <2>11, <3>1, Grown
      <3> QED
        BY <1>0, <1>1, <2>5, <2>7, <3>1, <3>2
    <2> QED
      BY <2>7, <2>8, <2>9, <2>10, <2>11
  <1> QED
    BY <1>2, <1>3

-----------------------------------------------------------------------------
(* The invariant.                                                           *)

LEMMA Initially == Init => IInv
  <1> SUFFICES ASSUME Init PROVE IInv
    OBVIOUS
  <1>1. /\ rows = <<>> /\ queue = <<>> /\ Len(rows) = 0 /\ Len(queue) = 0 /\ Rows = {}
        /\ run = NoRun /\ clock = 0 /\ checkpoint = NoTime /\ pc = "off" /\ failed = FALSE
        /\ faults = 0 /\ published = 0
    BY DEF Init, Rows
  <1>2. TypeOK
    <2>1. rows \in Seq(Row) /\ queue \in Seq(1..Len(rows))
      BY <1>1, EmptySeq
    <2>2. faults \in 0..MaxFaults /\ published \in 0..MaxPublished
      BY <1>1, TimeAssumption
    <2> QED
      BY <1>1, <2>1, <2>2 DEF TypeOK
  <1>3. RunInv /\ QueueInv /\ DrainInv /\ CheckpointIsProcessed /\ UniqueInv
    BY <1>1 DEF RunInv, QueueInv, DrainInv, CheckpointIsProcessed, UniqueInv, Middle
  <1>4. CommitInv /\ ParentInv /\ ChainContinues
    BY <1>1 DEF CommitInv, ParentInv, ChainContinues, Middle
  <1> QED
    BY <1>2, <1>3, <1>4 DEF IInv

LEMMA Stuttering == IInv /\ UNCHANGED vars => IInv'
  <1> SUFFICES ASSUME IInv, UNCHANGED vars PROVE IInv'
    OBVIOUS
  <1>1. UNCHANGED <<rows, run, clock, checkpoint, pc, queue, failed, faults, published>>
    BY DEF vars, runVars, cycleVars, envVars
  <1>2. TypeOK'
    BY <1>1 DEF IInv, TypeOK
  <1>3. RunInv' /\ UniqueInv' /\ CheckpointIsProcessed'
    BY <1>1 DEF IInv, RunInv, UniqueInv, CheckpointIsProcessed, Rows, Live, Active, Scheduled, InScope
  <1>4. QueueInv' /\ DrainInv'
    BY <1>1 DEF IInv, QueueInv, DrainInv, Due, Rows, Live, Listed, Active, Scheduled, InScope, Middle, This
  <1>5. CommitInv'
    BY <1>1 DEF IInv, CommitInv, Rows, Listed, Scheduled, Middle, This
  <1>6. ParentInv'
    BY <1>1 DEF IInv, ParentInv, Parent, Rows, Scheduled, Middle, This
  <1>7. ChainContinues'
    BY <1>1 DEF IInv, ChainContinues, CutByWindow, Rows, This
  <1> QED
    BY <1>2, <1>3, <1>4, <1>5, <1>6, <1>7 DEF IInv

LEMMA Invariance == Spec => []IInv
  <1>1. Init => IInv
    BY Initially
  <1>2. IInv /\ [Next]_vars => IInv'
    <2>1. ASSUME IInv, Next PROVE IInv'
      BY <2>1, TypeOKStep, RunStep, QueueInvStep, DrainInvStep, CheckpointStep, UniqueInvStep,
         CommitInvStep, ParentInvStep, ChainStep DEF IInv
    <2> QED
      BY <2>1, Stuttering
  <1> QED
    BY <1>1, <1>2, PTL DEF Spec

-----------------------------------------------------------------------------
(* The theorems.                                                            *)

\* The rows, the queue and the clocks keep their types; a retry count stays
\* within its limit (calculate_retry_interval, mark_event_for_retry).
THEOREM TypeCorrect == Spec => []TypeOK
  <1>1. IInv => TypeOK
    BY DEF IInv
  <1> QED
    BY <1>1, Invariance, PTL

\* No event of the run's scope and window that is still to be executed is due
\* before the checkpoint the run would be resumed from (list_ready_events,
\* run_simulation_cycle).
THEOREM CheckpointProcessed == Spec => []CheckpointIsProcessed
  <1>1. IInv => CheckpointIsProcessed
    BY DEF IInv
  <1> QED
    BY <1>1, Invariance, PTL

\* While the process does not die, a handler that does not refuse repeated work
\* commits once for an event of a correlation (execute_event).
THEOREM ExecutedOnce == Spec => []ExecutedAtMostOnce
  <1>1. IInv => ExecutedAtMostOnce
    <2> SUFFICES ASSUME IInv, faults = 0, NEW e \in Types \ Guarded, NEW c \in Corrs
                 PROVE  LET ran == {i \in Rows : rows[i].type = e /\ rows[i].corr = c
                                                 /\ rows[i].commits > 0}
                        IN  Cardinality(ran) <= 1 /\ \A i \in ran : rows[i].commits = 1
      BY DEF ExecutedAtMostOnce, CommittedOnce
    <2> DEFINE ran == {i \in Rows : rows[i].type = e /\ rows[i].corr = c /\ rows[i].commits > 0}
    <2>1. ASSUME NEW i \in ran PROVE rows[i].commits = 1 /\ Scheduled(i) /\ (Live(i) \/ Listed(i))
      <3>1. rows[i].commits \in Nat
        BY RowsType, RowFields DEF IInv
      <3>2. Middle => Listed(This)
        BY RowsType DEF IInv, TypeOK, Middle
      <3> QED
        BY <3>1, <3>2 DEF IInv, CommitInv, Live
    <2>2. ASSUME NEW i \in ran, NEW j \in ran PROVE i = j
      <3>1. Scheduled(i) /\ Live(i) /\ Scheduled(j) /\ Live(j)
        BY <2>1 DEF IInv, QueueInv
      <3> QED
        BY <3>1 DEF IInv, UniqueInv
    <2>3. Cardinality(ran) <= 1
      <3>1. CASE ran = {}
        <4>1. Cardinality({}) = 0
          BY FS_EmptySet
        <4> QED
          BY <3>1, <4>1
      <3>2. CASE ran # {}
        <4>1. PICK i \in ran : TRUE
          BY <3>2
        <4>2. ran = {i}
          BY <2>2
        <4>3. Cardinality({i}) = 1
          BY FS_Singleton
        <4> QED
          BY <4>2, <4>3
      <3> QED
        BY <3>1, <3>2
    <2> QED
      BY <2>1, <2>3
  <1> QED
    BY <1>1, Invariance, PTL

\* While the process does not die, an executed event that the cycle is done with
\* has its next event in the outbox, unless a window cuts the chain there
\* (_schedule_returned_events, _build_default_next_event).
THEOREM ChainsContinue == Spec => []ChainContinues
  <1>1. IInv => ChainContinues
    BY DEF IInv
  <1> QED
    BY <1>1, Invariance, PTL
=============================================================================

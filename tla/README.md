# Models of the daemon supply chain

TLA+ models of the supply-chain simulator, model-checked with TLC, and proofs
about them checked with TLAPS. Paths are relative to the repository root.

## 1. The system

A PostgreSQL database holds the business tables, the outbox (`event_outbox`) and
the record of API runs (`simulation_runs`). Three kinds of program work on it.

| Component | State | Operations | Interacts with | What is hard | Correct when |
|---|---|---|---|---|---|
| Independent flow API (`api/services/independent_simulation_service.py`) | `simulation_runs` | `POST /simulation/{inbound,outbound,transportation}` | execution lock, flow runner, outbox | retries and races on one correlation id; interruption at any transaction | one root aggregate per flow and correlation id, no false SUCCESS, no unsafe retry |
| Execution lock (`api/services/run_lock.py`) | process RLock, advisory lock | enter, leave | every API execution | two levels, threads and processes | one execution at a time, released on every path |
| Flow runner (`simulator/loading_scripts/domain_flow_runner.py`) | a context dictionary | the generators of a flow, in order | business tables | stops between any two transactions; several queries ignore which run they serve | each step finds the rows of its own run |
| Scheduler run manager (`api/services/simulation_control.py`) | records, report and checkpoint files, worker threads | start, pause, resume, restart, one cycle after the other | execution lock, event scheduler | pause and resume against a worker that is ending; files written apart from the state | one worker per run, what is on disk is not ahead of what happened |
| Event scheduler (`simulator/core/event_scheduler/`, `master_simulator.py`) | `event_outbox`, clock, checkpoint | list, execute, mark, retry, schedule the next event | handlers, Kafka producer | each of these is its own transaction | an event's handler commits once and its chain goes on |
| Inbound generators (`generators/purchase_order`, `supplier`, `warehouse`, `inventory`) | purchase orders, supplier shipments, receiving tasks, inventory, locations, workers | ten events | the shared inventory | rows of another run of the same product | stock put away is stock received |
| Outbound generators (`generators/order`, `inventory`, `warehouse`) | orders, allocations, picking and packing tasks, packages | thirteen steps up to ShipmentReady | the shared inventory | orders that were cut off keep their reservation | picked once, packed as ordered, nothing reserved that is not there |
| Transportation generators (`generators/transportation`) | shipments, transportation, carriers, vehicles, drivers | four events | outbound shipments | resources taken by a run that stops | a resource is released or in use |
| Simulation DAGs (`dags/simulation_inbound.py`, `simulation_outbound.py`) | one Airflow run each | call the API, clean up, trigger the producer | API, outbox | the caller times out and the API goes on; read and delete are two statements | only rows of failed runs are deleted |
| Kafka producer (`dags/producer.py`) | a snapshot of the outbox | publish, mark COMPLETED | outbox, broker | lost acknowledgements, failed deliveries, crashes | nothing lost, nothing of an unfinished run published |
| Kafka consumer (`dags/consumer.py`) | committed offsets | upload raw, upload parsed, commit | broker, bucket | a crash between upload and commit; a message that cannot be parsed | what is committed is stored |
| Event handlers (`simulator/event_handlers`) | business tables | one per event type | event scheduler | called again after a crash | a second call changes nothing |
| Legacy simulate API (`api/services/simulator_service.py`) | report files | `POST /simulate/full-flow`: reset, remove the old report, run, read the report | execution lock, full event flow | the runner exits with 0 whatever happened; reports of earlier executions lie about | SUCCESS is of this execution and complete |
| Full event flow (`loading_scripts/run_event_flow.py`) | a context dictionary, the report | all generators of a morning or an evening, with look-ups in between | business tables, generators started by hand | several look-ups ignore whose row they find; it goes on from any status | it works on its own documents and order, and gets to an end |
| Cycle counts, loaders, Spark jobs, scripts | | | | | |

`PROJECT.json` lists every component with its sources and status, and under
`hazards` the places in the code that a test would hardly reach, each with the
properties that look there.

Deployment facts the models use: `Dockerfile.api` runs one uvicorn process, so
that one container has many API threads and one process; a second process (a
second container) is possible and is modelled. The API serialises executions with
`run_lock`; the command-line runners do not take that lock.

## 2. Modules

| Module | Models |
|---|---|
| `IndependentRuns` | the API service with the lock and the runner seen from outside |
| `SimulationManager` | the run manager: API calls, worker threads, files, restart |
| `EventScheduler` | queue, executor, cycle and clock over the outbox |
| `Warehouse` | inventory rows, locations, workers, and the runner of one run |
| `InboundFlow`, `OutboundFlow` | the generators, one action each, over `Warehouse` |
| `WarehouseFlows` | both flows composed, and their properties |
| `StockLedger` | abstract specification: stock on hand and reserved, received, reserved and picked |
| `Transportation` | the four events of a shipment, over the fleet all runs share |
| `ResourcePool` | abstract specification: units that are handed out and taken back |
| `FullFlow` | the legacy API, its reports, the full event flow and generators started by hand |
| `EventPipeline` | DAGs, producer, broker, consumer, bucket |
| `IndependentRuns_proofs`, `SimulationManager_proofs`, `EventScheduler_proofs`, `WarehouseFlows_proofs`, `Transportation_proofs`, `FullFlow_proofs`, `EventPipeline_proofs` | theorems about the module each is named after |
| `Warehouse_proofs` | lemmas about the sums `WarehouseFlows_proofs` needs |
| `MC*` | the instances TLC checks |

Operators named `X_Something` beside an operator `X` are mutants: the code with a
plausible mistake. No specification uses them.

### IndependentRuns

`pc[t]` is where an API thread is in `IndependentSimulationService.run`. Every
`Database()` block is one action, because it is one transaction: `LookUp`
(`_existing_record`), `ProbeRoot` (`root_exists`), `Begin` and `Record`
(`_persist`), `Settle` (the branches that close an old run), `RunnerStep` (one
generator committed), `Validate`, `Classify` (the query of the exception handler).
`EnterProcessLock` and `TakeAdvisoryLock` are the two levels of the lock.
`DatabaseFails` and `Crash` may happen between any two. `rootRows`, `shipments`
and `outbox` keep of the business tables what `root_exists` and the validator read.

### SimulationManager

API calls are atomic under the manager's RLock; a worker thread has a program
counter between its short critical sections. `rec` are the manager's records,
`report` and `checkpoint` the two files; `Restart` loses the threads and rebuilds
the records from the files (`Restored`). What a cycle does to the outbox is left to
`EventScheduler`: here the outbox only answers when the next event is due.

### EventScheduler

`rows` is `event_outbox` in creation order. `ListReady` takes the snapshot a cycle
works on; then, per event, `HandlerCommits`, `HandlerRefuses`, `HandlerFails` or
`HandlerAborts`, `Rename` (`update_event_aggregate_id`), `Mark`, `ScheduleChild`.
Each is a transaction; `Crash` may happen between any two. `AdvanceClock` is the
manager's step to the next due time. `Publish` is the producer seen from here: it
completes a row that is PENDING, whatever its due time. `commits` counts how often
a row's handler committed; no action reads it.

### Warehouse, InboundFlow, OutboundFlow, WarehouseFlows

One warehouse has one inventory row per product (the table is unique on product
and warehouse). `run[r]` is a run with its flow, its clock and the step it is
at; `todo` the rest of the loop the one running run is in (`StockIncreased` and `InventoryPutaway` run once per
product). Each generator is one action with the conditions that make it raise. Where the code
looks a document of the run up by status, the status is a guard and an empty result has no
outcome; `NoSearchFails` proves that the result is never empty. The
rows that a generator finds by correlation id or by the order it is given are
those of run `r`; the ones it finds by status alone (`PickingTaskCreated`,
`PickingCompleted`) are all runs'. `Fail` is a generator that raises (or whose
guard fails), `Interrupt` a run cut off; neither undoes anything. `stock_increased`
changes a row's `status` from RECEIVED, where receiving put it, to AVAILABLE, and no
quantity. `Stamps` are the values SIMULATION_NOW may
be given by the caller, which orders `allocated_at` independently of real time.

`StockLedger` is the promise to the outside: a product has stock on hand, some of
it reserved; receiving adds, reserving takes what is available, picking
takes from both, and nothing else ever changes either.
`WarehouseFlows!ImplementsLedger` is the refinement.

### Transportation

A run has one shipment; its flow is the transportation flow, which seeds the
shipment, or (`Outbound`) the outbound one, which made it READY with an order. The
run goes through `CarrierAssigned`, `ShipmentPickedUp`, `ShipmentInTransit` and
`ShipmentDelivered`, each a transaction over the tables `shipment`, `transport`
(`shipment_transportation`), `tracking` (`shipment_tracking`), `order`,
`fulfillment` and `status`, the status columns of vehicles, trailers and drivers. A
unit is the row of one of each kind that an assignment names. Every run holds the
execution lock (`Begin`); `Interrupt` cuts it off; in between, an operator may start
each generator by hand (`ByHand`), which goes on with the shipment a run left.
The sizes of the kinds (`Fleet`) differ, so that one pool runs dry before the others.

`ResourcePool` promises that a unit is at one shipment at a time, is given to a
shipment that has none, and comes back: `ImplementsPool` is the refinement, with
`held` what the open assignment of a shipment names.

`DriverAssigned`, `ShipmentLoaded`, `ShipmentDispatched`, `ShipmentArrived` and
`CheckpointReached` are left out: they need rows of `shipment_transportation` that
only `handle_carrier_assigned` writes, whose INSERT is malformed
(`simulator/event_handlers/domain_persistence.py:266`), and the handler of
CheckpointReached names a function that does not exist. For the same reason nothing
ever becomes ARRIVED, and `inventory_received.py` and
`warehouse/receiving_task_created.py` find nothing to do.

### FullFlow

`at[e]` is where execution `e` is: in `_run_full_flow_unlocked` (`Reset`,
`RemoveReport`, `StartRunner`, `Respond`), in the runner before the generator of an
event, in one of its look-ups (`LatestOrder`, `Picking`, `PickingRecheck`,
`Packing`, `Transportation`), or saving its report. A generator is one action: its
transaction, and what `update_context_after_static_event` makes of it. `context` is
the runner's dictionary, `report` the report file of each correlation id and
`latest` the one `GET /simulate/report` reads. `document[e]` counts the events the
purchase order of `e` has been through, `shipment[e]` those of its order's shipment;
the picking and packing tasks carry the order the generator wrote on them.

Generators that take no argument work on what they find: `PickingTaskCreated` on
every RESERVED allocation, `PickingCompleted` on the oldest STARTED task. `ByHand` is
an operator who starts one of the generators of picking, packing or transportation
between any two steps; `Raise` is a generator that fails (for stock, workers and
vehicles that `WarehouseFlows` and `Transportation` model), `Kill` the end of the
runner process, `Crash` that of the API with its runner. The newest order is the last
one inserted, since `orders.created_at` is a default of the database. The interpreter
path of `run_event_flow.py` (`.venv/Scripts/python.exe`) is taken to exist; where it
does not, every event raises.

### EventPipeline

`run[c]` is the status in `simulation_runs`, `outbox` and `status` the rows.
The API's side is what `IndependentRuns` shows of it. A DAG run goes through the
tasks `call`/`wait` (one POST), `select` and `delete` (the two statements of the
cleanup), `trigger`. The producer's batch is the set of rows its query returned, which it sends
from the oldest on; `delivery[e]` is what the
client library knows of a message; `OnMsgSuccess` is the callback. A topic is a
log of one partition. The consumer restarts from `committed` and writes a message
under its offset. Broker, client library and bucket are external.

## 3. Runs

Bounds are the CONSTANTS of the cfg; none is hidden in a constraint.

| Run | Question | Instance and why it is enough |
|---|---|---|
| `independent_runs` | safety under races, retries and crashes; the lock is released and runs end | two threads of two processes, two run ids, one correlation id shared by the three flows, one fault: every pair of transactions of two requests interleaves, and a third request meets what they left. Correlation ids share nothing but the lock, and the theorems hold for any number of them |
| `simulation_manager` | start, pause, resume and restart, and the return of the lock | one run and two threads: runs share the execution lock and nothing else, and `OthersLock` is every other holder of it; three cycles, so that the loop is left at its top, in a cycle and at its bound |
| `scheduler` | two chains that share an aggregate, the producer on | two seeded events of two correlations, morning and afternoon, two delays, one published row |
| `scheduler_live` | a crash, retries, delays, a chain whose aggregate changes | one seeded event, all windows, two delays, two retries, one crash: what is ready comes to an end |
| `scheduler_publish` | violation, see below | |
| `warehouse` | stock, reservations, picking, packing | two products, three runs of either flow, one interruption: a first run leaves something, a second meets it, a third meets both |
| `warehouse_independence` | violation | |
| `pipeline` | publishing against cleanup, a repeated call and a poison message | one call by the inbound DAG, once more by another caller, one stray row that cannot be parsed, one fault |
| `pipeline_live` | what succeeded is stored | one run of two rows on two topics, two faults, no poison |
| `transportation` | one shipment per unit, over cut-off runs and an operator | four runs (one of them outbound), fleets of 3, 2 and 3, three interruptions, three generators by hand: three runs can keep a unit each of a pool of two |
| `full_flow` | what SUCCESS means, and on whose rows a runner works | two executions of one correlation id or two, morning or evening, with or without a reset; two products, orders of up to two lines, one fault, one generator by hand. The second execution meets whatever the first left; deadlock is checked, so each execution comes to an end unless it is cut off |
| `full_flow_reuse` | violation | |

Every property of a passing run has a mutant in `PROJECT.json` under which TLC
finds it violated in the same run.

### What the runs show

* One execution at a time holds the lock; roots and runs are unique; a run said to
  be retryable left no root; SUCCESS means the whole chain, once; final rows stay
  final. The lock comes back whatever happens to the run.
* The manager never has two workers for a run, whatever pause and resume do, and
  its flag says so; a restart reads no checkpoint ahead of the clock, and the
  execution lock comes back.
* Without a crash a handler commits at most once, a chain is not cut and nothing due
  is left behind the checkpoint; with one, what is ready still comes to an end.
* On hand never falls below reserved (the ledger promises no more than there is), stock moves only as the ledger allows, a
  location's utilization is backed, a worker is BUSY only for a receiving that is
  under way or was cut off, an item is picked once, a package is its order. The
  last two (`PickedOnce`), `ReservedIsAllocated` and the second half of
  `UtilizationIsBacked` (all locations together claim no more than is on hand) suppose
  that clients leave the clock to the API (`Stamps = {}`): with `Stamps = {0}` a later
  run may complete the picking of an older one in place of its own (TLC finds an allocation
  that is taken twice, at a location its row has left), and none of them holds.
* A unit of the fleet is at one shipment, ACTIVE exactly when it is at none, whichever
  runs were cut off and whatever an operator did in between; the tables agree on
  where a shipment is; a run that is not cut off fails only because a pool is empty.
  Units of a shipment nobody delivers are lost to later runs, and enough of these
  empty the pool for good: nothing in the code takes them back.
* The full flow tells SUCCESS only of its own, finished work, although its runner
  exits with 0 after a failure; generators by hand can make it fail but not lie. It
  touches no document of another correlation id, and the order it finds as the newest
  of all is its own, which is what the lock is for.
* What a topic holds is of a successful run, and its row is not cleaned up unless a
  call is repeated; a COMPLETED row is in its topic;
  what the group committed is stored raw and parsed.

### Violations: where code and documents disagree

| Run | The repository says | What happens |
|---|---|---|
| `scheduler_publish` | a flow continues until its chain completes, or retries or fails | the producer completes a row that was never executed |
| `warehouse_independence` | a new correlation id is an independent run | a run left behind by an interruption makes every later outbound run fail |
| `full_flow_reuse` | reusing a correlation id retries or resumes the same run | it makes a second purchase order (and order), and after GoodsReceived always fails at StockIncreased |

Also seen in the models, without a run of their own: a crash between a handler's
commit and the COMPLETED mark of its row makes the resumed run commit a handler that
does not guard itself again (`event_executor.py:566`; `ExecutedAtMostOnce` is stated
for runs without a crash); the DAG's cleanup deletes rows of a run that is repeated
between its two statements (`simulation_outbound.py:149`; `OnlySuccessIsPublished`
leaves repeated calls out); a report that cannot be removed is taken for the current
one when the runner is killed (`simulator_service.py:546`), in a FAILED answer; a
reset fails once migration 002 has added a table it does not know
(`reset_transaction_tables.py:83`); allocations a failed evening run left RESERVED
stop every later evening run at picking; the manager stops after its
last allowed cycle although events are due (`simulator_schema.py:43` says it goes on),
`duration_hours` bounds one jump of the clock and not the run
(`simulator_schema.py:42`), an allocation left RESERVED gets a picking task from
every later run (`picking_task_created.py:164`), a failed delivery is published
behind its successors, and a message that cannot be parsed stops its topic.

### Fairness

* `IndependentRuns`: a thread that holds the lock goes on (weakly fair): it runs
  straight-line code, and a runner that hangs is excluded (the code has no timeout
  there; see the hazards). Waiting for a lock is not assumed to succeed.
* `SimulationManager`: a worker past the lock goes on. API calls are never fair.
* `EventScheduler`: the cycle (`Work`) and the manager's step to the next due time
  (`AdvanceClock`) go on; starting runs, crashes and the producer are not fair.
* `Transportation`, `FullFlow` and `WarehouseFlows` state safety only; that
  `FullFlow` does not get stuck is its deadlock check.
* `EventPipeline`: the API serves and ends its runs, Airflow keeps starting DAG
  runs and runs their tasks, the library delivers what it is not made to fail, the
  consumer's loop goes on and fetches every topic that has messages (strongly fair
  per topic, since the fetch of one topic disables the others for a moment). Faults
  and timeouts are not fair, and faults are bounded.

## 4. Proofs

Each `*_proofs` module proves its theorems for every value of the constants that
satisfies the assumptions of the module it extends: any number of threads, runs,
rows, products, units, faults and interruptions, and any chain of events. `THEOREM`s
are results, `LEMMA`s what they rest on. The layout is the same everywhere: lemmas
that say what each action does to each variable (so that the rest never expands an
action again), one lemma per part of the inductive invariant that says the part
survives every step, and a temporal step that puts them together.

| Module | Theorems |
|---|---|
| `IndependentRuns_proofs` | `TypeCorrect`, `ExecutionsAreSerialised`, `RootsAreUnique`, `RetriesAreClean`, `RunsAreUnique`, `ShipmentsAreUnique`, `SuccessesAreComplete`, `OutcomesAreFinal` |
| `SimulationManager_proofs` | `TypeCorrect`, `OneThread`, `Serialised`, `ClockCoversCheckpoint` |
| `EventScheduler_proofs` | `TypeCorrect`, `CheckpointProcessed`, `ExecutedOnce`, `ChainsContinue` |
| `Warehouse_proofs` | lemmas about sums over sets only |
| `WarehouseFlows_proofs` | `TypeCorrect`, `WorkersAreHeldByTasks`, `LedgerIsImplemented`, `LocationsAreNotOverfilled`, `SuccessesAreComplete`, `StockConserved`, `ReservationsMatch`, `PickedExactlyOnce`, `UtilizationBacked`, `NoSearchFails`, `FailuresHaveACause` |
| `Transportation_proofs` | `TypeCorrect`, `Agreement`, `OnlyExhaustionFails`, `PoolIsImplemented` |
| `FullFlow_proofs` | `TypeCorrect`, `SuccessesAreDone`, `OwnWork` |
| `EventPipeline_proofs` | `TypeCorrect`, `OnlySuccesses`, `NothingIsLostUnsent`, `CommittedMessagesAreStored` |

### The invariants

No safety property is inductive by itself. Each module has an `IInv`; TLC checked
its parts as invariants before they were proved.

* `IndependentRuns`. `LockInv` (`Serialised`, and a thread that waits for the advisory
  lock owns its process lock) lets every other argument look at one thread;
  `RequestInv` gives a thread that is not idle a request; `ContextInv`, `RowInv` and
  `StatusInv` say which row a working thread works on and in which status it is, which
  gives uniqueness; `VerdictInv` what a thread is about to record, which gives
  finality; `RootInv` where no root exists, which gives unique roots and clean
  retries. On top of it, `ShipmentsAreUnique` follows who may still create the
  shipment of a correlation id, and `SuccessesAreComplete` how far the chain of the run
  that holds the lock has come in the outbox.
* `SimulationManager`. A thread owns the records it writes, and the execution lock
  while it is past `enter`; that the flags of a record tell whether a thread of it is
  alive is what makes pause and resume safe.
* `EventScheduler`. `QueueInv`: the queue lists a row once, and only rows with a time that
  are active or completed. `DrainInv`: in a cycle without a failure whatever is due is
  in the queue; so the clock may become the checkpoint when the queue is empty.
  `UniqueInv`: two such rows of one type share neither correlation id nor aggregate,
  through every insertion, publication and rename. `CommitInv`: a row that committed is
  COMPLETED or is the one the executor is at; with `UniqueInv` this is
  `ExecutedAtMostOnce`. `ParentInv`: every scheduled row that is no root has the row
  that scheduled it, of the same correlation id, and of the same aggregate until it is
  renamed. `ChainContinues` needs it: a rename could take the next row's aggregate away
  from a row that relied on it (a duplicate is one of the same correlation id or of the
  same aggregate), and `ParentInv` with `UniqueInv` says that then the correlation id
  is the same. The listing is stated by ranks (the n-th row has n - 1 ready rows
  before it); `Listing` shows that this is a sequence of all ready rows, each once.
* `WarehouseFlows`. `RunInv`, `ReceiptInv`, `WorkerInv`, `StockInv`, `AllocationInv`,
  `TaskInv` and `TodoInv` say, for the step each run is at, what is already in each
  table on its account. `LedgerIsImplemented` maps every step to a step of
  `StockLedger` or a stutter. `StockConserved` adds up receipts, seeds and picked tasks;
  `Total(n, S)` counts the units `Units(n, S)`, pairs of a member of `S` and a number up
  to its quantity, so a sum is a cardinality and needs no recursion; `Warehouse_proofs`
  has the lemmas (a member more, a member less, equal summands, more units of more
  members, disjoint sets, quantities added up, a set split into heaps).
  `ReservationsMatch`, `PickedExactlyOnce`, `UtilizationBacked` and `FailuresHaveACause`
  have `Stamps = {}` as hypothesis: with timestamps of the clients the earliest allocation
  need not be the run's own and all four fail (TLC finds it with `Stamps = {0}`). `Chronicle` holds the
  argument for the first two: the allocation a run's task carries is its own, and its
  order is the earliest. For the third, that the locations together claim no more than is
  on hand is far from inductive: nothing in it says which location loses units when stock
  moves or is picked. `BackingInv` says it of each location: it counts at most
  `Backing(l)`, the units of the rows lying there that are neither promised nor still to
  be put away (`Placed`), plus the units of the RESERVED allocations that name it. A row that moves
  leaves its promised units behind, at the location their allocations name, and that is
  where picking subtracts them. The other two parts of `BackingInv` keep both sums
  natural: what a run still has to put away (`Pending`) is available, and what is about to
  be reserved is reserved where it lies. One lemma per kind of step (`ReserveBacking`,
  `PickBacking`, `PutawayBacking`, and `RowsGrow` with `PromisesStay` for all others)
  shows that a location never loses more backing than utilization. `AllBacked` then adds
  the backings up over the locations, regroups the promised units by product with
  `ReservedIsAllocated`, and is left with at most what is on hand.
  `SuccessesAreComplete` is relative to `OutboundWork`, which follows an order
  from its items to its package. `NoSearchFails` is about the guards: `DocumentInv`
  gives the status of an inbound run's documents at each step, `LoopInv` what its loops
  have left, `OrderInv` what an order has found and whether a task is STARTED;
  `EarliestExists` (finitely many rows, so one comes first) does the rest. It stands in
  for deadlock freedom, which is about ENABLED: whatever the step, the generator has
  something to work on. `FailuresHaveACause` goes through the error paths one by one:
  `PickingInv` says that a run which picks has no RESERVED stock of others in its way and
  that its tasks are those the loop has left, the one it works on and completed ones;
  with `ReservedIsAllocated` a STARTED task is covered by what is on hand and reserved
  (`TaskIsCovered`). So "Insufficient on hand inventory" and "Reserved inventory mismatch"
  cannot happen, and what makes a run fail is listed in `Wanting`. That list has the
  failure behind the finding `RunsAreIndependent`: an earlier run that stopped and left
  stock RESERVED. Both statements name definitions of `WarehouseFlows_proofs` and no
  run lists them.
* `Transportation`. Per shipment, what the tables hold in each of its statuses; per unit,
  who holds it. `OnlyExhaustionFails` is an action property from the same invariant,
  `PoolIsImplemented` the refinement of `ResourcePool`.
* `EventPipeline`. What is in the batch, at the library and in a topic is of runs that had
  succeeded; a committed offset is below what the bucket holds. `OnlySuccesses` keeps
  the condition of the property (nobody repeats a call).

* `FullFlow`. `LockInv`: one execution is on its way, all before it are over and all
  after it have not begun, so a step is of one runner or of the operator. `ContextInv`:
  what the runner remembers is its own (its order, a receiving task of its correlation id).
  `InboundInv`: from InventoryPutaway on, its receiving task is done and what was received is stored
  or still in its loop. `FreshInv` and `TaskInv`: an order nobody has picked for yet
  has no tasks, and a task is never older than its order, so no earlier execution
  has made one. `FulfilInv`: an execution that fulfils its order has one task of its own for
  every allocation, packing starts when they are done and shipping when that is;
  one that is about to exit without a failure has all of it. Whatever the operator does by hand in
  between only moves tasks, packing and shipment forward (`Advances`), and this keeps
  every part of the invariant. `ReportInv`: what an execution that exited finds in the report
  file is its own. `SuccessesAreDone` and `OwnWork` are action properties from these.

### Assumptions

Besides types: `FiniteAssumption` (`Warehouse`: the tables of products and locations are
finite; the sums need it), `LockAssumption` (`SimulationManager`: a worker is no other holder of
the lock), `CallsAreDistinct` and a non-empty set of topics (`EventPipeline`),
`ShipmentAssumption` (`IndependentRuns`: which events of the chains create a shipment),
`ChainAssumption` (`EventScheduler`: no type follows two others, what follows another is no
root, a supplier shipment follows an approved order; `event_executor.py:24-48`). TLC
evaluates them on every run.

### Only model-checked

* Liveness and fairness, which are out of the prover's reach: `LockIsReleased`,
  `RunsEnd`, `ExecutionLockIsReleased`, `EventsAreDrained`, `SuccessIsStored`.
* That nothing gets stuck, where a run checks it (deadlock is about ENABLED). For
  `WarehouseFlows`, `NoSearchFails` proves what it comes down to.

## 5. Plan

In this order, the most important behaviour first:

1. done: `IndependentRuns` with its proofs, `SimulationManager`, `EventScheduler`,
   `Warehouse`/`InboundFlow`/`OutboundFlow`/`WarehouseFlows` with `StockLedger`,
   `EventPipeline`.
2. done: `Transportation` with `ResourcePool`; `FullFlow`.
3. done: theorems for every module, for all safety invariants, action properties and
   refinements the runs check; and, for the warehouse, that no search comes back empty and
   why a run fails.
4. `DomainHandlers`: what the handlers of the scheduler write, called once or again.
5. The root events of the domains and the run windows in `EventScheduler`, to see
   when the clock stands still.
6. Cycle counts and adjustments, which set a row's quantity to one read earlier.

## 6. Not modelled

* Prices, suppliers, channels, times of events within a flow: no property of the
  modelled parts depends on them.
* The in-memory queue (tests and one script), loaders, Spark templates,
  scripts: no concurrency, no state another part reads back.
* The connection pool, HTTP, settings, log files.
* Runners started by hand beside the API: two of them interleave statement by
  statement under READ COMMITTED, which none of the models, whose transactions are
  steps, can tell. `FullFlow` has single generators by hand.
* Cycle counts and adjustments: no flow of the API and no scheduled chain calls them,
  only an operator starts them. `inventory_adjusted.py` sets a row's quantity to one
  counted earlier, so what is picked in between comes back; the plan has them last.
* What the handlers of the scheduler write: `EventScheduler` keeps whether a handler's
  transaction commits, and how often.
* The ways of `shipment_transportation` no program can reach (see Transportation).
* Several partitions per topic, several queued runs of one DAG, and messages still
  on the wire of a dead producer.

## 7. Running

`tlc -workers 2 -config MCWarehouseFlows.cfg MCWarehouseFlows` checks one instance,
`tlapm FullFlow_proofs.tla` the proofs of one module: seven minutes for `WarehouseFlows_proofs`,
four for `IndependentRuns_proofs`, two for `EventScheduler_proofs` and `FullFlow_proofs`,
less for the others. The longest runs are `independent_runs`, `warehouse`,
`pipeline` and `pipeline_live`, two to three minutes each.

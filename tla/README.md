# TLA+ models of the flesnet item distributor and its neighbours

This directory holds TLA+ models of the code under `src/`. It also holds the
TLC configurations that check the models and the TLAPS proofs about them.
`PROJECT.json` lists the components, runs, mutants, the source lines behind
every definition (`map`), the findings, the hazards and the theorems.

## 1. The system

| Part | Source | State | Operations |
|---|---|---|---|
| ItemDistributor (the broker) | `src/ItemDistributor.hpp` | `workers_` (map identity → `Worker` with stride, offset, policy, `waiting_items`, `outstanding_items`), `completed_items_` (the completion ledger), the two sockets | `on_generator_pollin`, `on_worker_pollin` (disconnect / REGISTER / COMPLETE), `send_heartbeat`, `send_pending_completions`, `send_work_item` |
| Worker envelope | `src/ItemDistributor.hpp` 199-214 | one multipart message | `peekstr(1)` identity, size test, `peekstr(3)` command |
| ItemWorkers, producer | not under `src/` (spec sections 2, 6) | their connection | REGISTER, COMPLETE, close; items sent in order |
| tsa2msa `main` | `src/app/tsa2msa/main.cpp`, `msaWriter.hpp` | switches, variables_map, error messages, prefix, reader/writer | parse, global check, usage error / help / version, setup, read-write loop |
| TimesliceSubscriber | `src/lib/fles_ipc/TimesliceSubscriber.*` | SUB socket queue, `eos_flag` | constructor, `get`/`do_get`, `eos` |

How the broker's parts interact: the producer sends item ids over a PAIR
socket. For each id the broker creates an `Item` under a `shared_ptr` and
gives it to every registered worker whose `(stride, offset)` matches.

- An idle worker gets the item at once as a WORK_ITEM.
- A busy worker queues it, according to its policy:
  - Async queues every item;
  - PrebufferOne keeps only the newest;
  - Skip keeps none.

When the last reference to an item is dropped, its destructor appends the id
to `completed_items_`. The last reference goes when:

- a COMPLETE removes the item;
- a disconnect or a re-REGISTER drops the worker's record;
- PrebufferOne clears the waiting queue;
- no worker wanted the item.

Every handler ends by sending the ledger to the producer. After each poll
wakeup the broker sends a HEARTBEAT to every idle worker. The broker is one
thread, so each handler is one atomic step. Workers, connections and the
producer run concurrently with it.

tsa2msa and TimesliceSubscriber do not interact with the broker. The spec
puts them out of scope. They are modelled because they are part of `src/`
and have state machines of their own.

## 2. Modules

| Module | Models | Kind |
|---|---|---|
| `ItemDistributor` | broker, transport, worker peers | component + composition |
| `MCItemDistributor` | two peers, subscriptions incl. stride 0 | MC module |
| `ItemDistributorProofs` | TLAPS proofs about `ItemDistributor` | proofs |
| `CompletionLedger` | what the completion ledger promises: ids issued in order, each reported once | abstract spec |
| `LedgerProofs` | TLAPS proofs that the broker's ledger is exact and refines `CompletionLedger` | proofs |
| `InFlightProofs` | TLAPS proof of `WorkItemInFlight` | proofs |
| `CompletionDrain`, `MCCompletionDrain` | `send_pending_completions` and the producer PAIR socket | component |
| `DrainProofs` | TLAPS proofs about `CompletionDrain` | proofs |
| `WorkerEnvelope`, `MCWorkerEnvelope` | frame decoding of `on_worker_pollin` | component |
| `Tsa2msa`, `MCTsa2msa` | `main` of tsa2msa | component |
| `Tsa2msaProofs` | TLAPS proofs about `Tsa2msa` | proofs |
| `TimesliceSubscriber`, `MCTimesliceSubscriber` | the subscriber | component |
| `SubscriberProofs` | TLAPS proofs about `TimesliceSubscriber` | proofs |

### ItemDistributor

Variables and how they correspond to the code:

- `registered`, `workers`: the keys of `workers_` and their records. A record
  is `[stride, offset, policy, waiting, outstanding]`; the queues hold item
  ids.
- `nextItem`: the next id the producer sends. Ids are `0..NItems-1`, in
  order.
- `reported[i]`: how often id `i` was sent to the producer. This is
  `completed_items_` drained by `send_pending_completions`. An item is
  released when it leaves `Held(registered, workers)`, the union of all
  queues, which is exactly when its last `shared_ptr` goes.
- `conn[k]`: the state of peer `k` in the ROUTER's routing table: `"new"`,
  `"open"` or `"closed"`.
- `toBroker[k]`, `toWorker[k]`: per-peer FIFO pipes. `toWorker[k]` is
  bounded by `HWM`, the send high-water mark. `router_mandatory` is set
  (line 107), the sends use the default blocking flags (lines 262, 276,
  290) and no `ZMQ_SNDTIMEO` is set, so a send into a full pipe waits until
  the worker reads: a handler that sends to `k` is enabled only while
  `HasRoom(k)`, and `Deliver` always appends. The "message send failed"
  branch is unreachable. A send to a peer that is not
  `"open"` throws EHOSTUNREACH because `router_mandatory` is set (line 107);
  nothing catches it, so the broker thread dies (`Crash`, `up' = FALSE`).
  `WorkerClose` drops the peer's outbound pipe and queues the disconnect
  notification behind what the peer already sent.
- `sweepDue`: `send_heartbeat()` runs after every handler (lines 120-123).
  Each handler sets `sweepDue`, and only `SendHeartbeat` may run while it is
  set.

Actions:

| Action | Code |
|---|---|
| `OnGeneratorPollin` | `on_generator_pollin` (170-195), including `send_pending_completions` |
| `OnWorkerDisconnect`, `OnWorkerRegister`, `OnWorkerComplete` | the three branches of `on_worker_pollin` (198-248), each with its trailing `send_pending_completions` |
| `SendHeartbeat` | `send_heartbeat` (134-141, 281-293) |
| `WorkerConnect`, `WorkerReceive`, `WorkerStrayComplete`, `WorkerClose` | the peers, modelled from the spec (their code is not under `src/`) |

The error paths of the handlers are disjuncts that crash the broker:

- a registered stride of 0 makes `id % stride` raise SIGFPE (line 98);
- a send to a peer that is not open (lines 138, 182, 243);
- `workers_.at` on an unknown identity (line 226);
- the failed `assert` (line 236).

`ItemDistributor` ends with `Ledger`, an instance of `CompletionLedger` with
`issued <- nextItem` and `reported <- reported`, and with `LedgerSpec ==
Ledger!Spec`. In `CompletionLedger` a step issues the next id, or not, and
reports any set of issued ids that were never reported. That is the whole
promise of `~Item()` plus `send_pending_completions`.

The envelope is modelled separately, in `WorkerEnvelope`. `ItemDistributor`
uses the intended decoding (identity = routing id, command = verb frame), so
that the handlers' logic is checked behind a correct decoding.

### CompletionDrain

`ItemDistributor` treats one drain as part of its handler's atomic step,
with a send that always succeeds. `CompletionDrain` opens up that loop.

- `completed`, `pos`: `completed_items_` and the for loop's position in it.
  `busy` is TRUE while the broker thread is in `send_pending_completions`.
- `Handler`: the handler's `~Item()` calls append the ids it released (any
  order), then the drain starts. The ids are fresh: `LedgerExact` proves
  the broker releases each id once. The rest of the handler is in
  `ItemDistributor`.
- `SendFrame`: `generator_socket_.send` (line 146). cppzmq's default flags
  make it block, so the action is enabled only while the pipe holds fewer
  than `PHWM` frames.
- `SendInterrupted`: a signal interrupts the blocked `zmq_send` (EINTR), and
  cppzmq throws `zmq::error_t`. The catch logs it and line 151 clears the
  vector. `MaxInterrupts` bounds how often this happens.
- `DrainDone`: the loop ends and the vector is cleared.
- `ProducerRead`: the producer, which is not under `src/`, reads one frame.

### Tsa2msa

`pc` walks `parse → check → decide → (done | setup → loop → done)` through
these actions:

- `ParseCommandLine`: lines 168-193. On a throw the switches keep their
  defaults, because notify never ran.
- `CheckGlobal`: lines 408-412. It applies `GlobalCheck`, which is
  `check_for_global_parsing_errors`, lines 219-269.
- `Decide`: lines 414-426, with `HandleParsingErrors` (lines 279-308) and
  `show_help`/`show_version`.
- `Setup`: lines 428-437. The writer copies the options, then the prefix is
  resolved.
- `ReadWrite` and `EndOfInput`: the loop, lines 439-444.

What is abstracted:

- A command line is a set of switches, a set of named options, a set of
  inputs and whether Boost parses it.
- Output lines are tokens.
- The prefix is `"none"`, `"user"` or `"common"`.
- tsaReader yields `0..MaxTimeslices` timeslices.

### TimesliceSubscriber

- `Subscribe`: the empty subscription (constructor lines 7-12) takes effect
  asynchronously.
- `Publish`: one message. The SUB queue keeps it only after the subscription
  took effect and while fewer than `RcvHwm` messages are queued.
- `Get`: `do_get` returns nullptr at once after the end of stream;
  otherwise it blocks in `recv`.
- `Receive`: takes the next message, which is consumed whatever happens
  next. A message is abstracted to its decoding outcome (`Msgs`). A good
  one is returned. A bad body makes `ia >> *sts` throw inside the try
  (lines 29-36), which sets `eos_flag` and returns nullptr. A bad header
  makes the `binary_iarchive` constructor (line 26) throw before the try,
  so `archive_exception` leaves `get()` and `eos_flag` stays false
  (`result = "exception"`).

## 3. Runs

| Run | Cfg | Checks | Result |
|---|---|---|---|
| broker_safety | `MCItemDistributor.cfg` | TypeOK, AtMostOneOutstanding, NoIdleWorkerWithWaiting, QueuePolicyBound, CompletionReportedOnce, WorkItemInFlight; LedgerSpec (the broker refines `CompletionLedger`) | pass (≈940k states, 16 s) |
| broker_liveness | `MCLive.cfg` | AllItemsReported under `FairSpec` | pass |
| crash_on_disconnect | `MCCrash.cfg` | BrokerSurvives | violation |
| crash_on_bad_worker_frame | `MCStray.cfg` | BrokerSurvives | violation |
| envelope_decoding | `MCEnvelope.cfg` | EnvelopeDecoded (IdentityIsRoutingId and CommandIsVerbFrame) | violation |
| tsa2msa_cli | `MCTsa2msa.cfg` | TypeOK, UsageErrorExplained, ConvertsOnlyWhenRequested | pass (2480 states) |
| tsa2msa_writer_prefix | `MCPrefix.cfg` | WriterUsesResolvedPrefix | violation |
| subscriber | `MCTimesliceSubscriber.cfg` | TypeOK | pass (253 states) |
| drain_safety | `MCDrain.cfg` | DrainTypeOK, NoDuplicateCompletion; EveryCompletionDelivered under `FairSpec` | pass (227 states) |
| drain_interrupt | `MCDrainInterrupt.cfg` | CompletionConserved | violation |
| drain_blocks | `MCDrainBlocks.cfg` | DrainReturns under `BrokerFairSpec` | violation |
| subscriber_bad_header | `MCSubscriberHeader.cfg` | GetReturnsItemOrEnd | violation |

What the properties say:

- **CompletionReportedOnce:** the producer hears of every released item
  exactly once, and of no item that some worker still holds. It relates the
  ledger to the queues of all workers, across disconnects, re-registrations,
  PrebufferOne clears and completions.
- **WorkItemInFlight:** each outstanding item of an open, registered
  worker has its WORK_ITEM in the pipe or its COMPLETE on the way back. It
  holds because every send waits for room. TLC reaches states where a
  dispatch waits on a full pipe. A dispatch loop that skipped a worker
  breaks it.
- **LedgerSpec:** every behaviour of the broker is a behaviour of the
  abstract ledger. This covers crashes, disconnects, re-REGISTERs and
  stride 0.
- **NoDuplicateCompletion:** even when a signal interrupts a send, no id is
  ever in two places (unsent, in the pipe, read by the producer) or sent
  twice. A drain that kept the unsent ids and re-sent the whole vector would
  break it.
- **EveryCompletionDelivered:** with a producer that keeps reading, every
  released id reaches the producer unless a send is interrupted first.
- **AllItemsReported:** in every behaviour where the broker stays up,
  every distributed item is eventually reported, although a send may hold
  the broker on a full pipe until the worker reads.

The mutants are listed in `PROJECT.json`. Each is a plausible bug in a mapped
definition, and each makes TLC find its property violated.

### Findings (the violation runs)

1. **crash_on_disconnect.** A worker closes. Before the broker handles the
   notification, the heartbeat sweep, a dispatch or a refill sends to it. The
   EHOSTUNREACH is not caught, and the broker thread ends. Spec section 7
   says worker death is expected and nothing is fatal.
2. **crash_on_bad_worker_frame.** Two frames that spec sections 4.1 and 7
   say are logged and dropped kill the broker instead.
   - A REGISTER with stride 0 is stored unchecked (line 219). The next item
     then evaluates `id % 0` (line 98), and the process dies.
   - A COMPLETE for an item that is not outstanding fails the assert.
   TLC reports the stride-0 trace because it is shorter. With
   `Subscriptions <- MCValidSubscriptions`, the same cfg gives the
   stray-COMPLETE trace.
3. **envelope_decoding.** `peekstr(1)` is the empty
   delimiter and `peekstr(3)` is the payload, or a frame past the end. The
   routing id is frame 0 and the verb is frame 2.
4. **tsa2msa_writer_prefix.** The msaWriter copies its options (line 430)
   before `main` computes the common prefix (line 434).
5. **drain_interrupt.** A signal interrupts the blocked producer send. The
   catch logs it and line 151 clears `completed_items_`, so the ids after
   the failed one are never reported. Spec section 8 (property 1) requires
   every id back exactly once. Section 4.2 says the ledger is kept, while
   sections 4.4, 7 and 9 record the clearing.
6. **drain_blocks.** The producer stops reading and the PAIR pipe fills.
   The blocking send (line 146) then keeps the broker inside the drain for
   good, and no worker is served. Spec section 5 says transmits are
   non-blocking.
7. **subscriber_bad_header.** The header comment of `get()`
   (TimesliceSubscriber.hpp lines 31-37) promises the item, or nullptr at
   the end of the stream. The `binary_iarchive` constructor reads the
   archive header at line 26, outside the try of lines 29-36. A message with
   a bad or missing header therefore throws `archive_exception` out of
   `get()`, after `recv` has consumed it, with `eos()` still false. Only a
   bad body takes the nullptr path.

### Bounds and why they are enough

Broker:

- Two peers let a dispatch match one worker and not the other, and let one
  worker die while the other keeps items.
- Three items with strides 1 and 2 give both matching and non-matching ids,
  and more items than a worker can hold, so that PrebufferOne replaces and
  Skip drops.
- `HWM = 2` leaves room for a heartbeat and a WORK_ITEM. Heartbeats after
  every handler still fill it, so dispatches, refills and heartbeats do
  wait on a full pipe.
- w2 is faulty, so stray COMPLETEs race with real ones, and stride 0 is
  allowed.

Liveness drops the faulty peer and stride 0: both only crash the broker,
which the property's hypothesis excludes.

crash_on_bad_worker_frame has no mortal peer, so only bad frames can crash
the broker.

Drain:

- Three ids let one handler release several, in two orders.
- `PHWM = 1` makes the send block as soon as the producer lags by one
  frame. That is the only state where a signal can interrupt a send.
- One interrupt is enough to lose ids, because a handler may release two or
  three.

Subscriber: four messages of the three kinds into a queue of two reach the
drop at the HWM, an end of stream followed by more publications, and a
header exception followed by further get() calls. For the violation run,
two messages into a queue of one are enough.

Deadlock checking is off only where the program really stops:

- the broker after a crash;
- `main` after it returns;
- the subscriber blocked in `recv` after the publisher's last message;
- the drain runs once every id is released and read (the ids are finite).

### Fairness

`Fairness` is weak fairness on `SendHeartbeat`, on each peer's handlers and on
each worker's receive. The code justifies each:

- The poller wakes at least every second and calls `send_heartbeat`.
- A readable ROUTER socket is served, and ZMQ fair-queues its peers.
- A worker that receives a WORK_ITEM answers it. This is the spec's worker
  contract. The worker's fair receive is also what frees a full pipe on
  which a blocking send holds the broker.

The producer and the connections are the environment and get no fairness.

`CompletionDrain`:

- `BrokerFairness` is weak fairness on `SendFrame` and `DrainDone`. The
  broker thread does nothing else while it drains.
- `FairSpec` also assumes the producer keeps reading (`ProducerRead`). That
  is the producer's side of the protocol, and drain_safety's liveness property needs it.
- `BrokerFairSpec` drops that assumption. drain_blocks asks what the broker
  does then.

## 4. What is proved

`ItemDistributorProofs` proves, for every value of the constants that meets
`ConstantsAssumption` and `SubscriptionsAssumption`:

- `TypeCorrect`: `Spec => []TypeOK`. This includes
  `Len(toWorker[k]) <= HWM` for every peer.
- `QueueDiscipline`: `Spec => [](AtMostOneOutstanding /\
  NoIdleWorkerWithWaiting /\ QueuePolicyBound)`. The corollaries
  `OneItemOutstanding`, `NoIdleWaiting` and `PolicyBounded` state each of
  the three properties on its own.

Both follow from the inductive invariant `IInv == TypeOK /\ QueueInv`.
`QueueInv` conjoins the three queue properties for every peer. They are not
inductive on their own, for two reasons:

- `Completed` relies on the item being the only outstanding one, so that
  `RemoveFirst` leaves the outstanding queue empty before the refill;
- `Distribute` relies on an idle worker having no waiting items.

There is one lemma per action (`GeneratorIInv`, `DisconnectIInv`,
`RegisterIInv`, `CompleteIInv`, `HeartbeatIInv`, `WorkerIInv`,
`CrashIInv`). These rest on lemmas about the helpers:

- `DistributeOK` and `CompletedOK` preserve `WorkerOK`;
- `DeliverType`: a send that waited for room (`HasRoom`) keeps a pipe
  within HWM;
- `RemoveFirstSingleton`.

`LedgerProofs` (EXTENDS `ItemDistributorProofs`) proves, under the same
assumptions:

- `LedgerExact`: `Spec => []CompletionReportedOnce`.
- `LedgerRefinement`: `Spec => LedgerSpec`, so the broker implements
  `CompletionLedger`.

Both use the inductive invariant `LInv == IInv /\ IssuedOK /\
CompletionReportedOnce`. `IssuedOK` says every queued id was already issued
(`< nextItem`). Without it, an id in a queue could look like one not yet
issued, and reporting it would break the ledger.

The argument has two parts:

- Every action is a `LedgerStep(N)`, where N is empty or the newly issued
  id. After the step, what is held is a subset of what was held before plus
  N. The reported counts grow by one exactly for the ids that were held (or
  new) and are held no longer. There is one lemma per action
  (`GeneratorLedger`, `DisconnectLedger`, ...), on top of `HeldShrinks`,
  `DistributeHolds` and `CompletedHolds`. `CompletedHolds` uses
  `WorkerOK`: the completed item is the only outstanding one.
- `ReportStep` is the arithmetic that carries `CompletionReportedOnce`
  through such a step. For the refinement, the set of ids a step reports
  is a subset of `Ledger!Unreported`, which makes the step a
  `Ledger!Next` step.

The temporal steps follow the standard refinement proof: `Init =>
Ledger!Init`, `LInv /\ [Next]_vars => [Ledger!Next]_<<nextItem,
reported>>`, then PTL.

`InFlightProofs` (EXTENDS `ItemDistributorProofs`) proves
`WorkItemsAccounted`: `Spec => []WorkItemInFlight`. Every outstanding
item of an open worker has its WORK_ITEM in the pipe to the worker or its
COMPLETE in the pipe back (`Witnessed(k, i)`). The send's wait for room
(`HasRoom`) is what makes the appended WORK_ITEM a witness.

The inductive invariant is `LInv == IInv /\ ConnInv /\ WorkItemInFlight`.
Two facts that `WorkItemInFlight` does not state are needed:

- **`AtMostOneOutstanding`, from `IInv`.** The COMPLETE handler pops the
  COMPLETE that is the only witness of the completed item. The item that
  replaces it from waiting_items has its WORK_ITEM appended in the same
  step. With two outstanding items, the second could lose its witness.
- **`ConnInv`.** A peer that has not connected has sent nothing and is not
  registered. Otherwise `WorkerConnect` could open a registered peer whose
  items have no witness.

There is one lemma per action. A worker that receives the WORK_ITEM at the
head of its pipe appends the matching COMPLETE in the same step. A stray
COMPLETE is sent only on an empty pipe, so it replaces no witness. The
lemmas about the pipes are `InPipeAppend`,
`InPipeTail` and `InPipeDeliver`.

`Tsa2msaProofs` proves, for every set of options, input files and
timeslice count that meets `Tsa2msaAssumption`:

- `Tsa2msaTypeCorrect` (`[]TypeOK`);
- `UsageErrorsExplained` (`[]UsageErrorExplained`);
- `ConvertsOnlyOnRequest` (`[]ConvertsOnlyWhenRequested`).

The assumption says the option names besides `input` are finitely many and
distinct from it. This is what the `options_description` of main.cpp
guarantees. The inductive invariant `TInv` ties the program counter to
what the earlier steps left behind:

- during parsing nothing is in `errorMessage` and no error is flagged;
- once the command line parsed, the variables map holds its options and
  the help and version flags are those of its switches;
- a failed parse flags `parsingError`;
- a flagged error has a message or asks for help;
- a run past the checks without error, help or version has `input` in the
  variables map;
- the exit code is set only at the end.

Every stderr line is one of the lines main() can print. Each property
needs one of these facts about an earlier step: an unexplained usage error
and a conversion without an input are each a state that only an
inconsistent history reaches.

`SubscriberProofs` proves, for every `NMsgs` and `RcvHwm`:

- `SubscriberTypeCorrect` (`[]TypeOK`): the SUB queue never exceeds
  `RcvHwm`. TypeOK is inductive as it stands.

What the subscriber's `get()` returns is not proved: the run
subscriber_bad_header shows that its documented contract fails.

`DrainProofs` proves, for every finite set of ids, every `PHWM` and every
`MaxInterrupts` that meet `DrainAssumption`:

- `DrainTypeCorrect` (`[]DrainTypeOK`);
- `NoDuplicateCompletions` (`[]NoDuplicateCompletion`).

The inductive invariant `DInv` adds that completed_items_ is empty outside
the drain loop. A handler then appends its ids (a `SetToSeqs` order, with
no repetitions) to an empty vector, and each of them was never released
before. Each step is one counting argument: `Load(i)` counts the
occurrences of i in the unsent suffix, in the pipe, and at the producer.

- A send moves one occurrence from the suffix to the pipe (`CntSplit`,
  `CntOne`, `OccAppend`).
- A read moves it from the pipe to the producer (`OccTail`).
- `completed_items_.clear()` only lowers the count (`OccDrained`).

All rest on `CntShift`, which is proved with a bijection between index
ranges.

Only TLC checks the rest:

- **Liveness** (`AllItemsReported`, `EveryCompletionDelivered`): TLAPS does
  not handle fairness and ENABLED.
- **The violation runs.** They show, on a small instance, a behaviour that
  breaks what the spec or a comment promises (`BrokerSurvives`,
  `EnvelopeDecoded`, `WriterUsesResolvedPrefix`, `CompletionConserved`,
  `DrainReturns`, `GetReturnsItemOrEnd`). There is nothing to prove about them beyond the trace.
- **The `WorkerEnvelope` decoding.** It is a violation run only.

## 5. Not modelled

- **Producer-side failures inside `ItemDistributor`.** There, the PAIR
  send always succeeds. Its failures and its blocking are in
  `CompletionDrain`, which abstracts the rest of each handler to the ids it
  releases. Other `zmq::error_t` causes (ETERM) need a context shutdown,
  which the code never does.
- **A worker that stops reading.** A blocking send to its full pipe would
  hold the whole broker. Workers are external peers, and the spec's worker
  contract is that they read, so every worker gets a fair receive. The same
  stall on the producer side is the drain_blocks finding.
- **Heartbeat timing.** `next_heartbeat_time` is never read, so the model
  sends a heartbeat to every idle worker after every step, like the code.
- **Parsing.** The text of REGISTER/COMPLETE is abstracted: a malformed
  REGISTER would trip `assert(!s.fail())`.
- **Unused or empty operations.** `send_disconnect`, `stop()` and the
  destructor are unused or empty.
- **Code outside `src/`.** tsaReader, the msaWriter methods,
  `compute_common_prefix`, `clean_up_path`, the option descriptions and the
  help texts.

## 6. Plan for the next sittings

1. **Compose the envelope decoding into the broker.** Then the identity
   collision shows up as broker behaviour (one record for two workers).
2. **Prove that the drain refines an abstract "report once" channel.**
   `CompletionDrain` would then implement a specification in which each
   released id reaches the producer at most once, in release order.

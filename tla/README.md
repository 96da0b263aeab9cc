# TLA+ models of Ring Paxos (`src/src_tree/fds/lib/ring_paxos`)

This directory models the two parts of the Ring Paxos library that hold the
protocol logic:

- the learner's **delivery queue**, which merges two lossy multicast streams
  into an ordered delivery;
- the leader's **instance engine**, which runs phase 1 and phase 2 of many
  instances through the acceptor ring;
- the example **proposing client**, which keeps values outstanding,
  resubmits them on timeout and replaces them when they are delivered;
- the leader engine composed with the **acceptor ring** and a **leader
  restart** with a new incarnation.

An abstract specification, `AtomicBroadcast`, states what a learner is
promised. The delivery queue is checked to implement it.

It also records what the TLC model checker shows about them.

## 1. The system

One process plays one role. All callbacks run to completion on a
single-threaded event loop, so the concurrency is between processes and
messages, not between threads.

| Component | Source | State it keeps | Operations |
|---|---|---|---|
| Delivery / reconciliation queue | `lib/delivery_queue.c` | `queue_array` (per-slot `dq_entry`: inst, cmd_key, has_mapping, has_final_value, two request timeouts), `cmd_slot_array` (value bytes), `highest_delivered`, `highest_seen_closed`, `highest_seen_cmdmap`, `late_start` | `handle_command_map` (edges M1–M4), `handle_acceptance` (edges A1–A4), `dq_deliver_loop`, `dq_periodic_check`, `dq_delayed_start`, `delivery_queue_init` |
| Learner glue | `lib/ringpaxos_learner.c` | two request buffers | `on_mcast_msg` (dispatch), `post_receive_check` (delivery loop after each message), `on_missing_cmdmap` / `on_missing_acceptance` (buffer requests), `post_delivery_check` (flush) |
| Leader instance engine | `ring-paxos/acceptor_helpers_mcaster.c` | per-instance record (status, ballot, assigned key/value, timeout, repeat_cmdmap timeout), `p1_ready_count`, `p1_highest_open`, `highest_open_iid`, `highest_closed_iid` | periodic tick (`open_new_instances_P1`, `check_expired_instances`, `open_new_instances_P2`), handlers of phase1_range / phase1 / phase2 replies, map and chosen-value requests, value submission |
| Client value queue | `lib/client_values_manager.c` | bounded FIFO of client values | `cvm_save_value`, `cvm_get_next_value` |
| Acceptor process | `ring-paxos/acceptor.c`, `acceptor_events.c` | role, sockets | init, dispatch to leader or acceptor handlers |
| Non-leader acceptor, ring aggregation | `acceptor_helpers.c` (not in the repository; modelled from the specification's contract) | promised / accepted ballots | promise and accept while forwarding the ring message |
| Proposing client | `ring-paxos/client_proposer_learner.c` | `pending_values` (one submitted value and its timeout per slot), `deliver_count`, latency statistics | `client_pl_init`, `values_timeout_check`, `on_deliver` |
| Topology manager, submit proxy, learner-only client, config tests | `lib/topology_manager.c`, `lib/ringpaxos_submit_proxy.c`, `ring-paxos/client_learner.c`, `test/` | none that changes, or I/O only | — |

How the components interact:

1. A client submits a value by UDP. The leader queues it in the client
   value queue, or drops it when the queue is full. The proposing client
   submits a value again when its timeout expires. When its own learner
   delivers one of its values, it submits a new one in its place.
2. On each tick the leader pre-executes phase 1 for a range of instances
   with one `phase1_range` message. It retries the instances whose timeout
   expired. It then gives queued values to instances that completed
   phase 1: it multicasts the mapping (instance, key, value) and sends
   phase 2 around the ring.
3. When a phase 2 message returns with a quorum, the leader multicasts an
   acceptance (instance, key). It then advances `highest_closed_iid` over
   the contiguous prefix of done instances.
4. Each learner's delivery queue merges mappings and acceptances in any
   order, and delivers in instance order. Its periodic check asks the
   leader again for missing mappings and missing acceptances.

### Hard behaviours

- **Learner side**: mappings and acceptances are lost, repeated and
  reordered. A non-chosen mapping (a proposal replaced after phase 1) may
  arrive before or after the acceptance of the chosen key. Late start
  moves the window. A slot is reused once its instance is delivered.
- **Leader side**: ring replies are lost or late. A timeout races the
  reply it was waiting for: a late `phase1_range` reply can arrive after
  single phase 1 retries have completed the instance. Instances close out
  of order.
- **Client side**: a submission is lost or dropped by a full queue, and
  the only recovery is the client's timeout. A resubmission can race a
  copy that is still queued or already decided.
- **Counters**: several counters must agree (`p1_ready_count` against the
  window bounds).

### What makes each component correct

- **Delivery queue**:
  - values are delivered in order, exactly once, and only chosen values;
  - no live slot is overwritten;
  - a final key, once learned, is kept;
  - gaps are eventually filled;
  - requests are rate-limited.
- **Leader**:
  - contiguous close;
  - ballots change only on a report of a higher promise;
  - counters are consistent;
  - each queued submission is decided at most once, and announced after
    its mapping;
  - instance status only moves forward;
  - every instance given a value is eventually closed.
- **Proposing client**:
  - a value is pending exactly until it is first delivered;
  - every outstanding value is eventually delivered;
  - a value decided twice (after a resubmission) is counted once.

## 2. Modules

| Module | Models | Composes |
|---|---|---|
| `DeliveryQueue` | the delivery queue and the learner glue, with the leader as the environment that multicasts and answers requests | — |
| `MCDeliveryQueue` | model values, a fixed decision per instance, in-flight bounds | `DeliveryQueue` |
| `Leader` | the leader's instance engine and the client value queue, with the acceptor ring as the environment | — |
| `MCLeader` | model values and in-flight bounds | `Leader` |
| `AtomicBroadcast` | the abstract specification: decisions made once, delivery of consecutive decided instances in order, an optional late start | — |
| `ClientProposer` | the proposing client, the leader's client value queue, and an abstract decide-and-deliver pipeline | — |
| `MCClientProposer` | model values and a bound on decided-but-undelivered values | `ClientProposer` |
| `RingPaxos` | the leader engine with the incarnation checks of its reply handlers, the ring of acceptors hop by hop, and a crash and restart of the leader | `Leader` (as `LD`) |
| `MCRingPaxos` | model values and in-flight bounds | `RingPaxos` |

`DeliveryQueue` instances `AtomicBroadcast` as `AB`. It maps:

- `decision` to the chosen key of each closed instance;
- `start` to `base`;
- `started` to `~late_start`.

`ImplementsAtomicBroadcast == AB!AbsSpec` is checked as a property.
`RingPaxos` instances `Leader` a second time, as `LA`, with a refinement
mapping (see its section below). `ImplementsLeader` checks that `Leader`'s
abstract ring is a sound abstraction of the acceptor ring.
`ClientProposer` uses what `Leader`, `DeliveryQueue` and
`AtomicBroadcast` establish rather than composing their state (see below).

### DeliveryQueue: correspondence with the code

- **State.** Each `dq_entry` is a record. A `cmd_slot` holding value bytes
  is modelled by the key whose value it holds, since key and value
  correspond 1:1. `NoKey` stands for both a cleared key and an empty slot.
- **Timers.** A request timeout is `"unset"` (both fields 0, as after
  `dq_clear_entry`), `"armed"` or `"expired"`. Time is abstract, so an
  armed timeout may expire at any moment (`TimeoutExpires`).
- **`HandleCommandMap` and `HandleAcceptance`** model the two handlers in
  full: late start, the admission tests, the highest-seen updates, and one
  operator per edge (`MapOnMapping`, `MapOnFinal`, `MapOnEmpty`,
  `AccOnMapping`, `AccOnEmpty`). Each action ends with the delivery loop
  (`CommitAndDeliver`), because `post_receive_check` runs
  `dq_deliver_loop` after every received message.
- **`PeriodicCheck`** models `dq_periodic_check` together with the
  buffering and flush of requests by the learner glue (`RequestMissing`:
  `on_missing_cmdmap` and `on_missing_acceptance` buffer, and
  `post_delivery_check` sends what is left). Both rate-limit
  tests are written as the code writes them (`CmdmapRequestAllowed`,
  `FinvalRequestAllowed`).
- **Leader environment.** The leader is represented by what a learner
  sees:
  - `LeaderMap` sends any mapping of an open instance, and only the chosen
    mapping of a closed one;
  - `LeaderClose` multicasts the acceptance;
  - requests are answered or ignored: `LeaderAnswerMapRequest`,
    `LeaderIgnoreMapRequest` (the repeat_cmdmap timeout has not expired),
    and `LeaderAnswerChosenRequest` (which answers only for closed
    instances);
  - `LoseMessage` is UDP loss.
- **History variables.** `chosen`, `decided`, `delivered` and `base` are
  history variables for the properties.

### Leader: correspondence with the code

- **State.** The leader's state is gathered into one record (`L0`). Each
  code function that changes it is an operator from record to record:
  `DoPhase1`, `DoPhase2`, `BroadcastMapping`, `BroadcastAcceptance`,
  `OpenNewInstancesP1`, `CheckExpiredInstances`, `AssignValue`,
  `OpenInstance`, `OpenP2Loop`, `CloseFrom`.
- **`PeriodicCheck`** composes these in the code's order. The recursive
  operators follow the code's loops.
- **Counters.** `OpenNewInstancesP1` keeps the `p1_ready_count +
  p1_ready_count` of line 139. `P1Completed` keeps the `-= count; +=
  count` pairs.
- **`HandlePhase1Range`, `HandlePhase1` and `HandlePhase2`** follow the
  early returns of the code. The assertions at lines 313 and 336 are not
  enforced, as in a build without assertions. What they guard is stated
  as a property instead.
- **Acceptor ring.** The ring is abstracted: `RingPass` returns a request
  with any outcome, and `LoseRingMsg` drops it. With one leader
  incarnation, no acceptor has accepted a value for an instance still in
  phase 1, so replies report no accepted value.
- **Window test.** `P2WindowFull` is the loop test of
  `mcaster_open_new_instances_P2` (line 244). That test is an unsigned
  subtraction, `active - (highest_open - highest_closed) > 0`, so it is
  false only when the window is exactly full. An overrun window wraps
  and keeps the loop going. The model stops the loop on equality only,
  as the code does. `ReadyCountTracksPreexecuted` states that the window
  is never overrun.
- **Requests and timers.** The leader's answers to learner requests are
  modelled in `DeliveryQueue`. The repeat_cmdmap timer is therefore not a
  Leader variable.
- **Submissions.** `HandleValueSubmit` is `mcaster_handle_value_submit` /
  `cvm_save_value`: append, or drop when full. There is no duplicate
  check, and the proposing client resubmits a value whose timeout
  expired, so any key may be submitted again. `submitted` is the bag of
  the keys queued in `cvm`; the model checker bounds how often a key is
  queued (`SubmitBound`).
- **Ballot raise.** `HandlePhase1` raises the ballot on a reported
  promise without any bound, as the code does. The bound is on the ring
  instead: `RingPass` reports only promises below `MaxBallot`, so a
  raised ballot stays within the model's ballots.
- **History variables.** `mcast` and `submitted` are history variables.

### ClientProposer: correspondence with the code

- **State.** `pending[s]` and `ptimeout[s]` are `pending_values[s]`: its
  submitted value and its timeout. `deliver_count` is the client's
  counter.
- **Values.** A value is a model value. `generate_random_value` draws
  fresh random bytes, so `NewValue` returns a value not used before.
  When the model's values are used up, a delivered slot is retired
  (`NoValue`). This is the bound of the model.
- **`ValuesTimeoutCheck`** resubmits every expired value and re-arms its
  timeout.
- **`OnDeliver`** matches the delivered value against the slots (the
  first match, then `break`). It replaces a matched value by a new one,
  submits it, arms its timeout and counts the delivery.
- **Leader side.** `HandleValueSubmit` is `mcaster_handle_value_submit` /
  `cvm_save_value`: append, or drop when full, with no duplicate check.
  `LeaderDecide` pops the queue in order into `undelivered`. This is what
  `open_new_instances_P2` does with consecutive instances, and the learner
  delivers them in instance order (`DeliveryQueue` refines
  `AtomicBroadcast`).
- **What the pipeline leaves out.** Instance stalls and tail losses of the
  leader and the learner are checked in their own modules, not here.
- **Resubmission.** A value resubmitted while it is still queued, or
  after it was decided, can be decided twice. `on_deliver` ignores a
  delivery that matches no pending slot, and `PendingExactlyUndelivered`
  checks that the client's slots and `deliver_count` stay exact through
  it. `Leader` allows the same resubmissions, and checks that the leader
  decides each queued submission at most once.

### RingPaxos: correspondence with the code

- **Composition.** `RingPaxos` declares the constants and variables of
  `Leader` and instantiates it as `LD`. The tick, value submission, ring
  loss and timeouts are `Leader`'s actions unchanged. The three reply
  handlers add the check the code makes with `is_my_ballot`: a reply for
  another incarnation's ballot is discarded (`Drop`).
- **Ballots.** A ballot is ordered by incarnation, then round:
  `FB(inc, round)`. `Leader`'s ballots are the rounds of the current
  incarnation. Every ring message carries the incarnation that sent it.
- **Acceptors** (`acceptor_helpers.c` is not in the repository, so these
  definitions are marked `spec_modelled`). `promised[a][i]` is acceptor
  `a`'s promise for instance `i`; `votes` records every accept. A request
  travels the ring as a `transit` record and each acceptor adds its
  promise or accept to the count (`RangePromise`, `Promise`, `Accept`),
  then forwards it; the last one returns the reply (`Forward`). A phase 1
  reply carries the highest refused promise and the highest accepted
  ballot and key. A `phase1_range` reply cannot carry an accepted value,
  so an acceptor refuses a range that holds one.
- **Ring order.** `Forward` follows `lptopo_get_successor_id`
  (`topology_manager.c`): the next acceptor, and after the last one the
  leader, configuration id 1. The model's acceptor `a` is configuration
  id `a + 1`; the first of the ring (`am_i_first_in_ring`) is id 2. The
  leader sends every request with a count of 0 and adds no vote of its
  own.
- **`HandlePhase1`** follows `mcaster_handle_phase1_msg`: discard, raise
  and retry on too few promises, or complete phase 1. `AfterPhase1` is
  lines 394–438: an instance without a value stays `p1_done` and ignores
  what was reported accepted (line 400); one with a value goes to phase 2
  with the reported key if a different one was accepted.
  The branch that raises the round after too few promises never fires in
  this model: with one leader process at a time, only a later
  incarnation promises a higher ballot, and the replies it causes carry
  the earlier incarnation and are dropped. The `Leader` runs, whose ring
  may report any promise, exercise that branch.
- **`Restart`** is `multicaster_init` run again with the next incarnation:
  every instance record, counter and queued value is new. Requests the
  old process sent keep travelling the ring, and replies on their way are
  received by the new process. Acceptors keep their state.
- **Properties.** `Chosen(i, k)`: a quorum accepted `k` for `i` at one
  ballot. `Agreement`, `AnnouncedIsChosen` and
  `VotedBallotPromisedByQuorum` are stated over `votes` and `promised`.
- **Refinement of `Leader`.** `LA == INSTANCE Leader WITH ring <- AbsRing,
  replies <- AbsReplies` maps the acceptor ring onto `Leader`'s abstract
  ring:
  - a request is in `Leader`'s ring while it is in the leader's ring set
    or travels from acceptor to acceptor (`transit`) for the current
    incarnation;
  - a reply of the current incarnation is a `Leader` reply whose
    reported promise is the round of its full ballot.

  `ImplementsLeader` checks every step up to the first restart against
  `LA!Next`. So the acceptors only ever produce replies that `RingPass`
  may produce, and `Leader`'s runs, whose ring reports anything, cover
  what real acceptors do. Steps after a restart are not checked: the new
  incarnation meets old requests and accepted values, and `Leader` has
  no incarnations.

## 3. Runs

| Run | Config | Expect | What it shows |
|---|---|---|---|
| `dq_safety` | `MCDeliveryQueue.cfg` | pass | The queue delivers exactly the chosen values in order and never reuses a live slot (`DeliveredAreChosenInOrder`, `EntriesInWindow`, `FinalKeyIsChosen`, `TypeOK`). Every step of the learner and the multicaster is an `AtomicBroadcast` step or a stutter (`ImplementsAtomicBroadcast`): delivered values are only extended, with the decided values of the next instances, and a late start happens once, before anything is delivered. This holds under any reordering, loss and repetition, with or without late start. |
| `dq_gap_repair` | `MCDeliveryQueue_GapsEventuallyFilled.cfg` | pass | Every instance below the highest acceptance seen is eventually delivered (`GapsEventuallyFilled`), also when its mapping was lost: the check's map request and chosen-value request are both in flight. A learner that never sends its map requests breaks it. |
| `dq_finval_rate_limit` | `MCDeliveryQueue_FinvalRequestRateLimited.cfg` | violation | The missing-final request is re-issued while its timeout is armed. The test at `delivery_queue.c:146` is inverted. |
| `dq_a3_forgets_final` | `MCDeliveryQueue_StoredKeyHasSource.cfg` | violation | Edge A3 (`delivery_queue.c:395`) copies the final key without setting `has_final_value`. The entry is left holding a key it knows nothing about. |
| `dq_tail_loss` | `MCDeliveryQueue_DecidedEventuallyDelivered.cfg` | violation | The learner holds a mapping of a decided instance whose acceptance was lost, and no higher acceptance was seen. Nothing ever requests the acceptance. |
| `leader_safety` | `MCLeader.cfg` | pass | The leader keeps its counters consistent (`ReadyCountTracksPreexecuted`), closes contiguously (`ContiguousClose`) It never overruns its active window, and clients resubmit values. It announces each queued submission at most once (`EachSubmissionDecidedOnce`), and an acceptance only after its mapping (`AcceptanceFollowsMapping`). About 531K states under key symmetry. |
| `leader_ballot_raise` | `MCLeader_BallotRaisedOnlyOnReport.cfg` | pass | A refused phase 1 that reports a higher promise is retried with a ballot above that report. A retry after a timeout, or after a refusal with no report, keeps the ballot (`BallotRaisedOnlyOnReport`). About 55K states under key symmetry. |
| `leader_pipeline_stall` | `MCLeader_InstancesEventuallyClose.cfg` | violation | Under fairness (the ring keeps answering with a quorum), an instance set back to `p1_done` by a late `phase1_range` reply never closes. `highest_closed_iid` stops for good, although a later instance is done. |
| `client_safety_liveness` | `MCClientProposer.cfg` | pass | Through lost submissions, a full leader queue and duplicate decisions, the client keeps its pending values and `deliver_count` exact (`PendingExactlyUndelivered`, `TypeOK`). Every outstanding value is eventually delivered (`EveryValueDelivered`). About 42K states. |
| `ringpaxos_safety` | `MCRingPaxos.cfg` | pass | Across a leader restart, with requests of the old incarnation still in the ring, the leader multicasts only acceptances of chosen keys (`AnnouncedIsChosen`). Every accept is covered by a quorum of promises of its ballot (`VotedBallotPromisedByQuorum`). Before the restart every step is a step of `Leader` under the refinement mapping (`ImplementsLeader`). About 539K states. |
| `ringpaxos_restart_agreement` | `MCRingPaxos_Agreement.cfg` | violation | Incarnation 1 gets `k1` chosen for instance 1 and crashes. Incarnation 2 completes a single phase 1 of the instance, before it has a value; the reply reports `k1` accepted, and line 400 ignores it. The instance later gets `k2`, which is chosen at the higher ballot. Two keys are chosen for one instance (`Agreement`). |
| `leader_range_race` | `MCLeader_StatusNeverRegresses.cfg` | violation | A late `phase1_range` reply takes an instance from `p2_pending` back to `p1_done` (`acceptor_helpers_mcaster.c:336`). After that, nothing moves the instance again. |

Every property of a passing run has a mutant in `PROJECT.json`. A mutant
is a plausible bug in the operator that implements the property: a
dropped flag reset, an off-by-one admission, a value not popped, the
mapping not broadcast, a close loop that advances once, a retry that
takes the reported ballot itself. TLC finds each mutant's property violated.

### Bounds and why they are enough

- **DeliveryQueue safety run.**
  - Bounds: `QueueSize = 3`, `MaxInst = 3`, two keys decided alternately,
    at most 2 messages in flight and 1 pending request.
  - Why: late start moves the window, so an instance lands in a slot
    other than its first one. With `QueueSize = MaxInst = 3` no two live
    instances share a slot. What `EntriesInWindow` checks is the
    admission bound of line 257 itself, not a collision. Two keys give
    every edge (M2 with a different key, M3, A3). Two messages in flight
    allow every reordering of a mapping and an acceptance. With `QueueSize
    = 2` the mutant of `FinalKeyIsChosen` is not caught; `MaxInst = 4`
    takes about 3 minutes with the refinement property.
- **DeliveryQueue liveness run** (and the tail-loss run).
  - Bounds: `QueueSize = 2`, `MaxInst = 3`, one message in flight. The
    gap-repair run allows two requests in flight (`ReqBound = 2`); the
    tail-loss run allows one.
  - Why: liveness checking grows fast. One message in flight still lets
    every message be lost, resent and reordered with the requests. With
    `QueueSize = 2` one instance at a time is in the window, and a check
    of a gap that lacks its mapping sends a map request and a
    chosen-value request together. With one request allowed, the
    constraint would cut that step, and lost-mapping repair would never
    be checked.
- **Leader runs.**
  - Safety run bounds: 3 instances in a preexecution window of 3, an
    active window of 2 (so the third instance waits for the first to
    close and the window-full stop is taken), three client keys with a
    queue of 2 (so a submission can be dropped), each key queued at most
    twice (a resubmission), 2 values per tick, ballots up to 2, 2 ring
    requests and 1 reply in flight. Keys are only compared for equality,
    so the run uses symmetry over them: about 531K states in under a
    minute.
  - Ballot run bounds: 2 instances, ballots up to 3, each key queued
    once. A refusal of ballot 1 can report a promise of 2, and the retry
    raises the ballot to 3. In the safety run, ballots up to 2 leave no
    room for a raise. With ballots up to 3 the safety run did not finish
    within 15 minutes.
  - The violation runs keep one range of 2 instances with ballots up to
    3. These bounds are enough for a range reply to be overtaken by a
    single phase 1 retry and its reply.
  - Limit: the opening of a second range is not explored.
  - The liveness run uses `MaxBallot = 1`. Ballot raising is checked by
    the ballot run, and the stall does not depend on it.
- **RingPaxos runs.**
  - Bounds: 2 instances in one range, 2 keys, a queue of 1, 1 round per
    incarnation and 2 incarnations (one restart), 3 acceptors with a
    quorum of 2, 1 request in the ring and 2 replies in flight, each key
    queued once (resubmission is checked by the `Leader` runs).
  - Why: one restart is what the hazards need: a reply of the old
    incarnation arriving after the restart, and a phase 1 of the new incarnation meeting a
    value the old one got chosen. Two replies in flight let a stale phase
    2 reply arrive together with a current one. Rounds within one
    incarnation are checked by the `Leader` runs.
  - Checked once with `MaxInc = 3` (two restarts): 6.1M distinct states
    in about 4.5 minutes, no violation. That is too slow for the run,
    which stays at one restart.
- **Client runs.**
  - Bounds: 2 outstanding values, 4 values in all, a leader queue of 1,
    and at most 1 value decided and not yet delivered.
  - Why: a resubmission can find the queue full, or find the same value
    still queued. Every slot is replaced at least once before the values
    run out.

The in-flight bounds are state constraints. For the liveness runs TLC
warns that constraints and liveness interact. The constraint only removes
states in which more messages are in flight than the bound, and fairness
is stated per instance.

### Fairness

Fairness is stated in the `FairSpec` of three modules.

`DeliveryQueue`:

- **Weak fairness:**
  - the periodic check (a periodic libevent timer);
  - each request timer (wall-clock time passes);
  - the leader closing each instance;
  - the leader answering a chosen-value request of an instance. A
    request leaves `reqs` only when it is handled.
- **Strong fairness:**
  - the leader answering a map request of an instance. The leader
    ignores a map request while the instance's `repeat_cmdmap_timeout`
    runs, so the request comes and goes; learners resend it, and the
    timer expires. This fairness is separate from the chosen-value
    requests, so answering those does not count for the map requests;
  - receiving a mapping or acceptance of an instance. UDP loss is not
    permanent, so a message that is sent again and again is eventually
    received.

No fairness is given to `LeaderMap`, the spontaneous sending of mappings,
because the leader sends a mapping only while the instance is open.

`Leader`:

- **Weak fairness:**
  - the tick;
  - each instance's timeout;
  - handling the replies of an instance.
- **Strong fairness:** a request of an instance comes back from the ring
  with a quorum (`RingAnswersFor`). It is sent again and again, and a
  quorum of acceptors is alive.
- **How the tick's fairness is written.** The tick is deterministic, so
  its weak fairness is written as `[]<>TickIdle \/ []<><<PeriodicCheck>>_vars`.
  `TickIdle` holds when the tick would change nothing. This is the same
  condition, and TLC checks it without evaluating `ENABLED` of the
  composed tick.

`ClientProposer`:

- **Weak fairness:**
  - the timeout check (a periodic libevent event);
  - wall-clock time;
  - the leader deciding queued values;
  - the learner delivering decided values.
- **Strong fairness:** a value's submission is received by the leader. A
  value submitted again and again eventually gets through.

## 4. Not modelled, and why

- **The circular `mcaster_storage`** is not in the repository. Leader
  records are indexed by instance number. The assertion that fires when a
  lagging learner requests a recycled instance (`acceptor_helpers_mcaster.c:510`)
  is therefore out of reach.
- **Non-leader acceptors** (`acceptor_helpers.c`) are not in the
  repository. `Leader` abstracts them into `RingPass`. `RingPaxos`
  models them from the specification's contract, not from code.
- **Restart within `Leader` runs.** A restart is modelled in `RingPaxos`
  only, with one restart; its durable state is the acceptors'.
- **A restart that keeps the incarnation.** The incarnation is read from
  the configuration file (a `uint8_t`). `Restart` always takes the next
  one. A restart with an unchanged configuration, or after 255 restarts,
  would reuse old ballots; it is listed as a hazard and not modelled.
- **Topology, submit proxy, the learner-only example client and
  configuration parsing** are stubs, I/O or benchmarks. The proposing
  client's latency and throughput statistics are left out too.
- **Statistics, logging, and the message encodings.** Among the event
  counters, `concurrent_p2_open[100]` (`acceptor.c:65`) is indexed by the
  number of instances opened in one iteration
  (`acceptor_helpers_mcaster.c:298`). A configured
  `max_p2_open_per_iteration` of 100 or more writes past it. This hazard
  is listed without a property: it depends on a configuration value, not
  on an interleaving.

## 5. Plan

What is built:

1. `DeliveryQueue` + `MCDeliveryQueue`:
   - safety and gap-repair liveness;
   - the refinement of `AtomicBroadcast`;
   - three violations.
2. `Leader` + `MCLeader`:
   - safety;
   - the range-reply race;
   - the pipeline stall it causes (liveness under fairness).
3. `ClientProposer` + `MCClientProposer`:
   - client bookkeeping and eventual delivery;
   - exact bookkeeping through resubmitted, doubly decided values.
4. `RingPaxos` + `MCRingPaxos`:
   - the acceptor ring and a leader restart;
   - safety of announcements and of phase 2;
   - the agreement violation through line 400.

What comes next:

   - `ImplementsLeader`: the ring refines `Leader`'s abstract ring up to
     the first restart.

5. **`Leader` refines the decision part of `AtomicBroadcast`**: its
   acceptances, mapped to `decision`. Through `ImplementsLeader` this
   holds for the ring as well, up to the first restart.
6. **`System`**: Leader composed with two `DeliveryQueue` learners over a
   shared multicast, replacing the DeliveryQueue's leader environment.
   The map and chosen-value request handlers of the leader move here.
   Both learners' deliveries are to refine `AtomicBroadcast`.

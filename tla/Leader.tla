------------------------------- MODULE Leader -------------------------------
(***************************************************************************)
(* The leader ("multicaster", acceptor 1) of Ring Paxos:                   *)
(* ring-paxos/acceptor_helpers_mcaster.c, with the client value queue of   *)
(* lib/client_values_manager.c that feeds it.                              *)
(*                                                                         *)
(* On every periodic tick the leader opens a range of instances for phase  *)
(* 1, retries the instances whose timeout expired, and gives client        *)
(* values to instances that completed phase 1 (phase 2).  Phase 1 and      *)
(* phase 2 requests travel around the ring of acceptors and come back to   *)
(* the leader with an aggregated promise or accept count.  Closed          *)
(* instances are announced to the learners by multicast.                   *)
(*                                                                         *)
(* The acceptors of the ring are not under src/: a request that goes       *)
(* around the ring comes back with an arbitrary outcome (quorum reached or *)
(* not, a higher promised ballot reported or not) or is lost.  With one    *)
(* leader incarnation no acceptor has accepted a value for an instance     *)
(* still in phase 1, so a phase 1 reply reports highest_accepted_ballot 0. *)
(* Timeouts are abstract: an armed timeout may expire at any moment.      *)
(* Instance records are indexed by instance number (the circular           *)
(* mcaster_storage, which is not under src/, is not modelled).             *)
(***************************************************************************)
EXTENDS Naturals, Sequences, FiniteSets, Bags, BagsExt

CONSTANTS
  MaxInst,         \* instances 1..MaxInst may be opened
  Key,             \* client command keys (a value is identified by its key)
  NoKey,           \* no assigned value (assigned_cmd_value == NULL)
  PreexecWindow,   \* lpconfig_get_preexecution_window_size
  MaxActive,       \* lpconfig_get_max_active_instances
  MaxP2PerIter,    \* lpconfig_get_max_p2_open_per_iteration
  QueueLength,     \* capacity of the client value queue
  MaxBallot        \* ballots are 1..MaxBallot

ASSUME MaxInst \in Nat \ {0}
ASSUME NoKey \notin Key
ASSUME PreexecWindow \in Nat \ {0}
ASSUME MaxActive \in Nat \ {0}
ASSUME MaxP2PerIter \in Nat \ {0}
ASSUME QueueLength \in Nat \ {0}
ASSUME MaxBallot \in Nat \ {0}

VARIABLES
  status,               \* [Inst -> Status]: mir->status
  ballot,               \* [Inst -> 0..MaxBallot]: mir->ballot
  assigned,             \* [Inst -> Key \cup {NoKey}]: mir->assigned_cmd_key
  timeout,              \* [Inst -> TimerState]: mir->timeout
  p1_ready_count,
  p1_highest_open,
  highest_open_iid,
  highest_closed_iid,
  cvm,                  \* client value queue, a sequence of keys
  submitted,            \* history: bag of the keys queued in cvm
  ring,                 \* phase 1 / phase 2 requests travelling the ring
  replies,              \* requests back at the leader, with their outcome
  mcast                 \* history: mappings and acceptances multicast

vars == <<status, ballot, assigned, timeout, p1_ready_count,
          p1_highest_open, highest_open_iid, highest_closed_iid, cvm,
          submitted, ring, replies, mcast>>

Inst == 1..MaxInst
Ballot == 1..MaxBallot
Status == {"ready", "p1_pending", "p1_done", "p2_pending", "done"}
TimerState == {"unset", "armed", "expired"}

(* Ring requests: a phase1_range covers inst..to, the others inst only.    *)
RingMsg == [type : {"phase1_range", "phase1", "phase2"}, inst : Inst,
            to : Inst, bal : Ballot, key : Key \cup {NoKey}]
(* A request back at the leader: quorum reached or not, and the highest    *)
(* promised ballot reported by the ring (0 when none).                     *)
Reply == [req : RingMsg, ok : BOOLEAN, hp : 0..MaxBallot]
McastMsg == [type : {"map", "acc"}, inst : Inst, key : Key]

MaxOf(a, b) == IF a >= b THEN a ELSE b

(* make_first_ballot(self, incarnation) and raise_ballot(b, promised): a   *)
(* ballot of this leader above every ballot reported.                      *)
FirstBallot == 1
(* Mutant of RaiseBallot: the retry takes the reported ballot itself.    *)
RaiseBallotToReport(b, hp) == MaxOf(b, hp)

RaiseBallot(b, hp) == MaxOf(b, hp) + 1

(* The leader's state as one record, so that the operations of a tick can *)
(* be composed the way the code calls them.                                *)
L0 == [status |-> status, ballot |-> ballot, assigned |-> assigned,
       timeout |-> timeout,
       p1_ready_count |-> p1_ready_count, p1_highest_open |-> p1_highest_open,
       highest_open_iid |-> highest_open_iid,
       highest_closed_iid |-> highest_closed_iid, cvm |-> cvm,
       ring |-> ring, mcast |-> mcast]

Commit(L) ==
  /\ status' = L.status
  /\ ballot' = L.ballot
  /\ assigned' = L.assigned
  /\ timeout' = L.timeout
  /\ p1_ready_count' = L.p1_ready_count
  /\ p1_highest_open' = L.p1_highest_open
  /\ highest_open_iid' = L.highest_open_iid
  /\ highest_closed_iid' = L.highest_closed_iid
  /\ cvm' = L.cvm
  /\ ring' = L.ring
  /\ mcast' = L.mcast

-----------------------------------------------------------------------------
(***************************************************************************)
(* The helpers that send: each returns the leader record after the send.   *)
(***************************************************************************)
RingReq(t, i, to, b, k) == [type |-> t, inst |-> i, to |-> to, bal |-> b, key |-> k]

(* mcaster_do_phase1: phase 1 for one instance with its stored ballot.     *)
DoPhase1(L, i) ==
  [L EXCEPT !.ring = @ \cup {RingReq("phase1", i, i, L.ballot[i], NoKey)},
            !.timeout[i] = "armed",
            !.status[i] = "p1_pending"]

(* mcaster_do_phase2: phase 2 of the assigned key, multicast to the first  *)
(* acceptor of the ring.                                                   *)
DoPhase2(L, i) ==
  [L EXCEPT !.ring = @ \cup {RingReq("phase2", i, i, L.ballot[i], L.assigned[i])},
            !.status[i] = "p2_pending",
            !.timeout[i] = "armed"]

(* mcaster_broadcast_mapping: multicast (instance, key, value).  The      *)
(* repeat_cmdmap timeout it arms only rate-limits answers to map requests, *)
(* which are modelled with the learner (DeliveryQueue).                    *)
BroadcastMapping(L, i) ==
  [L EXCEPT !.mcast = @ \cup {[type |-> "map", inst |-> i, key |-> L.assigned[i]]}]

(* mcaster_broadcast_acceptance: multicast (instance, chosen key). *)
BroadcastAcceptance(L, i) ==
  [L EXCEPT !.mcast = @ \cup {[type |-> "acc", inst |-> i, key |-> L.assigned[i]]}]

-----------------------------------------------------------------------------
(***************************************************************************)
(* The periodic tick, on_mcaster_periodic_check: OpenNewInstancesP1, then  *)
(* CheckExpiredInstances, then OpenNewInstancesP2, then the flush (sends   *)
(* are immediate in the model).                                            *)
(***************************************************************************)
(* mcaster_open_new_instances_P1.  The count of active instances adds      *)
(* p1_ready_count to itself.  Opening stops at the bound MaxInst.          *)
OpenNewInstancesP1(L) ==
  LET active  == L.p1_ready_count + L.p1_ready_count
      to_open == PreexecWindow - active
      from    == L.p1_highest_open + 1
      to      == L.p1_highest_open + to_open
      R       == from..to
  IN  IF active >= PreexecWindow \div 2 \/ to > MaxInst
        THEN L
        ELSE [L EXCEPT
                !.status  = [i \in Inst |-> IF i \in R THEN "p1_pending" ELSE @[i]],
                !.ballot  = [i \in Inst |-> IF i \in R THEN FirstBallot ELSE @[i]],
                !.timeout = [i \in Inst |-> IF i \in R THEN "armed" ELSE @[i]],
                !.ring    = @ \cup {RingReq("phase1_range", from, to, FirstBallot, NoKey)},
                !.p1_highest_open = @ + to_open,
                !.p1_ready_count  = @ + to_open]

(* One instance of mcaster_check_expired_instances: a timed-out phase 1 is *)
(* sent again, a timed-out phase 2 re-broadcasts the mapping and is sent   *)
(* again, both with the same ballot.                                       *)
RetryIfExpired(L, i) ==
  CASE L.status[i] = "p1_pending" /\ L.timeout[i] = "expired" ->
         DoPhase1(L, i)
    [] L.status[i] = "p2_pending" /\ L.timeout[i] = "expired" ->
         DoPhase2(BroadcastMapping(L, i), i)
    [] OTHER -> L

RECURSIVE CheckExpiredFrom(_, _, _)
CheckExpiredFrom(L, i, hi) ==
  IF i > hi THEN L ELSE CheckExpiredFrom(RetryIfExpired(L, i), i + 1, hi)

(* mcaster_check_expired_instances. *)
CheckExpiredInstances(L) ==
  CheckExpiredFrom(L, L.highest_closed_iid + 1,
                   MaxOf(L.highest_open_iid, L.p1_highest_open))

(* Mutant of AssignValue: the value is read but not popped from the queue. *)
AssignValuePeek(L, i) ==
  [L EXCEPT !.assigned[i] = Head(L.cvm), !.p1_ready_count = @ - 1]

(* cvm_get_next_value pops the next client value, mcaster_storage_assign_  *)
(* value gives it to instance i, and p1_ready_count -= 1.                  *)
AssignValue(L, i) ==
  [L EXCEPT !.assigned[i] = Head(L.cvm), !.cvm = Tail(@),
            !.p1_ready_count = @ - 1]

(* Mutant of OpenInstance: the mapping is broadcast before the value is   *)
(* assigned.                                                               *)
OpenInstanceMappingFirst(L, i) ==
  [DoPhase2(AssignValue(BroadcastMapping(L, i), i), i)
     EXCEPT !.highest_open_iid = @ + 1]

(* Mutant of OpenInstance: phase 2 starts without broadcasting the mapping. *)
OpenInstanceNoMapping(L, i) ==
  [DoPhase2(AssignValue(L, i), i) EXCEPT !.highest_open_iid = @ + 1]

(* One iteration of mcaster_open_new_instances_P2 that opens instance i:   *)
(* assign the value, broadcast its mapping, start phase 2, and advance     *)
(* highest_open_iid.                                                       *)
OpenInstance(L, i) ==
  [DoPhase2(BroadcastMapping(AssignValue(L, i), i), i)
     EXCEPT !.highest_open_iid = @ + 1]

(* The loop of mcaster_open_new_instances_P2, n instances opened so far:   *)
(* stop when the active window is full, the next instance has not been     *)
(* opened for phase 1 or has not completed it, or no client value is       *)
(* queued; otherwise open it, at most MaxP2PerIter times.                  *)
(* The loop test (active - (highest_open - highest_closed)) > 0 is taken on *)
(* unsigned integers (the window size is unsigned, instance ids are printed *)
(* as %lu): the difference is positive unless the two are equal, so an     *)
(* overrun window (or highest_closed ahead of highest_open) keeps the loop  *)
(* going instead of stopping it.                                           *)
P2WindowFull(L) ==
  /\ L.highest_open_iid >= L.highest_closed_iid
  /\ L.highest_open_iid - L.highest_closed_iid = MaxActive

RECURSIVE OpenP2Loop(_, _)
OpenP2Loop(L, n) ==
  LET cur == L.highest_open_iid + 1
  IN  IF \/ P2WindowFull(L)
         \/ cur > L.p1_highest_open
         \/ L.p1_ready_count = 0
         \/ L.status[cur] # "p1_done"
         \/ L.cvm = <<>>
        THEN L
        ELSE IF n + 1 >= MaxP2PerIter THEN OpenInstance(L, cur)
                                      ELSE OpenP2Loop(OpenInstance(L, cur), n + 1)

(* mcaster_open_new_instances_P2. *)
OpenNewInstancesP2(L) == OpenP2Loop(L, 0)

PeriodicCheck ==
  /\ LET L == OpenNewInstancesP2(CheckExpiredInstances(OpenNewInstancesP1(L0)))
     IN  Commit(L)
  /\ UNCHANGED <<submitted, replies>>

-----------------------------------------------------------------------------
(***************************************************************************)
(* Replies coming back from the ring (on_predecessor_msg, leader side).    *)
(***************************************************************************)
(* Mutant of P1Completed: the counter is only decremented. *)
P1CompletedDecrementOnly(L, count) ==
  [L EXCEPT !.p1_ready_count = @ - count]

(* The phase 1 success bookkeeping: p1_ready_count -= count; += count.     *)
P1Completed(L, count) ==
  [L EXCEPT !.p1_ready_count = (@ - count) + count]

(* mcaster_handle_phase1_range_msg.  The ballot is this leader's (one      *)
(* incarnation).  assert(msg->from > highest_closed_iid) and               *)
(* assert(mir->status == p1_pending) are not enforced (NDEBUG build).      *)
HandlePhase1Range(r) ==
  LET m == r.req
      R == m.inst..m.to
  IN
  /\ r \in replies
  /\ m.type = "phase1_range"
  /\ replies' = replies \ {r}
  /\ IF ~r.ok
       THEN Commit([L0 EXCEPT !.ring = @ \cup {m}])
       ELSE Commit([P1Completed(L0, Cardinality(R)) EXCEPT
                      !.status = [i \in Inst |-> IF i \in R THEN "p1_done" ELSE @[i]]])
  /\ UNCHANGED submitted

(* mcaster_handle_phase1_msg: drop a reply for a closed instance, for an   *)
(* instance not p1_pending or for another ballot; on too few promises      *)
(* raise the ballot above a reported promise and retry; on success the     *)
(* instance is p1_done, and one that already holds a value goes on to      *)
(* phase 2 with it (no accepted value is reported).                        *)
HandlePhase1(r) ==
  LET m == r.req
      i == m.inst
  IN
  /\ r \in replies
  /\ m.type = "phase1"
  /\ replies' = replies \ {r}
  /\ \/ /\ \/ i <= highest_closed_iid
             \/ status[i] # "p1_pending"
             \/ ballot[i] # m.bal
        /\ UNCHANGED <<status, ballot, assigned, timeout,
                       p1_ready_count, p1_highest_open, highest_open_iid,
                       highest_closed_iid, cvm, ring, mcast>>
     \/ /\ i > highest_closed_iid
        /\ status[i] = "p1_pending"
        /\ ballot[i] = m.bal
        /\ ~r.ok
        /\ Commit(DoPhase1(IF r.hp # 0
                             THEN [L0 EXCEPT !.ballot[i] = RaiseBallot(@, r.hp)]
                             ELSE L0, i))
     \/ /\ i > highest_closed_iid
        /\ status[i] = "p1_pending"
        /\ ballot[i] = m.bal
        /\ r.ok
        /\ LET L == [P1Completed(L0, 1) EXCEPT !.status[i] = "p1_done"]
           IN  Commit(IF assigned[i] = NoKey THEN L ELSE DoPhase2(L, i))
  /\ UNCHANGED submitted

(* Mutant of CloseFrom: the close loop advances one instance at most.     *)
CloseOnce(L) ==
  IF L.highest_closed_iid < MaxInst /\ L.status[L.highest_closed_iid + 1] = "done"
    THEN [L EXCEPT !.highest_closed_iid = @ + 1]
    ELSE L

(* The loop closing the instances after highest_closed_iid that are done. *)
RECURSIVE CloseFrom(_)
CloseFrom(L) ==
  IF L.highest_closed_iid < MaxInst /\ L.status[L.highest_closed_iid + 1] = "done"
    THEN CloseFrom([L EXCEPT !.highest_closed_iid = @ + 1])
    ELSE L

(* mcaster_handle_phase2_msg: drop a reply for a closed instance, for an   *)
(* instance not p2_pending or for another ballot; on too few accepts       *)
(* re-broadcast the mapping and retry; on a quorum the instance is done,   *)
(* its acceptance is multicast and highest_closed_iid advances.            *)
HandlePhase2(r) ==
  LET m == r.req
      i == m.inst
  IN
  /\ r \in replies
  /\ m.type = "phase2"
  /\ replies' = replies \ {r}
  /\ \/ /\ \/ i <= highest_closed_iid
             \/ status[i] # "p2_pending"
             \/ ballot[i] # m.bal
        /\ UNCHANGED <<status, ballot, assigned, timeout,
                       p1_ready_count, p1_highest_open, highest_open_iid,
                       highest_closed_iid, cvm, ring, mcast>>
     \/ /\ i > highest_closed_iid
        /\ status[i] = "p2_pending"
        /\ ballot[i] = m.bal
        /\ ~r.ok
        /\ Commit(DoPhase2(BroadcastMapping(L0, i), i))
     \/ /\ i > highest_closed_iid
        /\ status[i] = "p2_pending"
        /\ ballot[i] = m.bal
        /\ r.ok
        /\ Commit(CloseFrom(BroadcastAcceptance([L0 EXCEPT !.status[i] = "done"], i)))
  /\ UNCHANGED submitted

-----------------------------------------------------------------------------
(***************************************************************************)
(* Requests from learners and clients.                                     *)
(***************************************************************************)
(* mcaster_handle_value_submit / cvm_save_value: a client submits a        *)
(* command; it is queued, or dropped when the queue is full.  Nothing      *)
(* checks for a key already queued or decided: a client resubmits a value  *)
(* whose timeout expired, so the same key may be queued again.             *)
HandleValueSubmit(k) ==
  /\ cvm' = IF Len(cvm) < QueueLength THEN Append(cvm, k) ELSE cvm
  /\ submitted' = IF Len(cvm) < QueueLength THEN BagAdd(submitted, k) ELSE submitted
  /\ UNCHANGED <<status, ballot, assigned, timeout,
                 p1_ready_count, p1_highest_open, highest_open_iid,
                 highest_closed_iid, ring, replies, mcast>>

-----------------------------------------------------------------------------
(***************************************************************************)
(* Environment: the ring of acceptors, the network and wall-clock time.    *)
(***************************************************************************)
(* A request goes around the ring and comes back with an outcome; a        *)
(* higher promised ballot is reported only with too few promises.  The    *)
(* ring reports only promises below MaxBallot, so that the raised ballot   *)
(* stays within the model's ballots (a bound on the acceptors, not a test  *)
(* of the leader).                                                         *)
RingPass(m) ==
  /\ m \in ring
  /\ ring' = ring \ {m}
  /\ \E ok \in BOOLEAN, hp \in {0} \cup Ballot :
       /\ hp # 0 => (~ok /\ m.type = "phase1" /\ m.bal < hp /\ hp < MaxBallot)
       /\ replies' = replies \cup {[req |-> m, ok |-> ok, hp |-> hp]}
  /\ UNCHANGED <<status, ballot, assigned, timeout,
                 p1_ready_count, p1_highest_open, highest_open_iid,
                 highest_closed_iid, cvm, submitted, mcast>>

(* UDP loses a ring message. *)
LoseRingMsg(m) ==
  /\ m \in ring
  /\ ring' = ring \ {m}
  /\ UNCHANGED <<status, ballot, assigned, timeout,
                 p1_ready_count, p1_highest_open, highest_open_iid,
                 highest_closed_iid, cvm, submitted, replies, mcast>>

(* Wall-clock time passes the armed timeout of a pending instance. *)
TimeoutExpires(i) ==
  /\ timeout[i] = "armed"
  /\ status[i] \in {"p1_pending", "p2_pending"}
  /\ timeout' = [timeout EXCEPT ![i] = "expired"]
  /\ UNCHANGED <<status, ballot, assigned,
                 p1_ready_count, p1_highest_open, highest_open_iid,
                 highest_closed_iid, cvm, submitted, ring, replies, mcast>>

-----------------------------------------------------------------------------
Init ==
  /\ status = [i \in Inst |-> "ready"]
  /\ ballot = [i \in Inst |-> 0]
  /\ assigned = [i \in Inst |-> NoKey]
  /\ timeout = [i \in Inst |-> "unset"]
  /\ p1_ready_count = 0
  /\ p1_highest_open = 0
  /\ highest_open_iid = 0
  /\ highest_closed_iid = 0
  /\ cvm = <<>>
  /\ submitted = EmptyBag
  /\ ring = {}
  /\ replies = {}
  /\ mcast = {}

Next ==
  \/ PeriodicCheck
  \/ \E r \in replies : HandlePhase1Range(r) \/ HandlePhase1(r) \/ HandlePhase2(r)
  \/ \E k \in Key : HandleValueSubmit(k)
  \/ \E m \in ring : RingPass(m) \/ LoseRingMsg(m)
  \/ \E i \in Inst : TimeoutExpires(i)

Spec == Init /\ [][Next]_vars

-----------------------------------------------------------------------------
TypeOK ==
  /\ status \in [Inst -> Status]
  /\ ballot \in [Inst -> 0..MaxBallot]
  /\ assigned \in [Inst -> Key \cup {NoKey}]
  /\ timeout \in [Inst -> TimerState]
  /\ p1_ready_count \in Nat
  /\ {p1_highest_open, highest_open_iid, highest_closed_iid} \subseteq 0..MaxInst
  /\ cvm \in Seq(Key)
  /\ IsABag(submitted) /\ BagToSet(submitted) \subseteq Key
  /\ ring \subseteq RingMsg
  /\ replies \subseteq Reply
  /\ mcast \subseteq McastMsg

(***************************************************************************)
(* The pipelining counters stay consistent with each other: p1_ready_count *)
(* is the number of instances opened for phase 1 and not yet given a      *)
(* value (open_new_instances_P1 adds the range, open_new_instances_P2      *)
(* takes one per value, the phase 1 handlers leave it), and the active     *)
(* phase 2 window never exceeds max_active_instances.                      *)
(***************************************************************************)
ReadyCountTracksPreexecuted ==
  /\ highest_closed_iid <= highest_open_iid
  /\ highest_open_iid <= p1_highest_open
  /\ p1_ready_count = p1_highest_open - highest_open_iid
  /\ highest_open_iid - highest_closed_iid <= MaxActive

(***************************************************************************)
(* Contiguous close (handle_phase2_msg): highest_closed_iid only advances  *)
(* across an unbroken run of done instances, and the close loop does not   *)
(* stop while the next instance is already done.                           *)
(***************************************************************************)
ContiguousClose ==
  [][highest_closed_iid' # highest_closed_iid =>
       /\ \A i \in (highest_closed_iid + 1)..highest_closed_iid' : status'[i] = "done"
       /\ highest_closed_iid' < MaxInst => status'[highest_closed_iid' + 1] # "done"
    ]_vars

(***************************************************************************)
(* Ballot monotonicity: an instance's ballot is set once when it is opened *)
(* for phase 1, and afterwards changes only when a phase 1 reply reports a *)
(* higher promised ballot, to a ballot above that report; a retry after a  *)
(* timeout or after too few promises never raises it on its own.           *)
(***************************************************************************)
BallotRaisedOnlyOnReport ==
  [][\A i \in Inst :
       ballot'[i] # ballot[i] =>
         \/ ballot[i] = 0 /\ ballot'[i] = FirstBallot
         \/ \E r \in replies \ replies' :
              /\ r.req.inst = i /\ r.hp # 0
              /\ ballot'[i] > r.hp /\ ballot'[i] > ballot[i]
    ]_vars

(***************************************************************************)
(* What the learners are told is consistent: every acceptance multicast    *)
(* for an instance carries the key assigned to it, which a client          *)
(* submitted, and the mapping of that key was multicast before it          *)
(* (open_new_instances_P2 broadcasts the mapping, then starts phase 2).    *)
(***************************************************************************)
AcceptanceFollowsMapping ==
  \A a \in mcast :
    a.type = "acc" =>
      /\ a.key = assigned[a.inst]
      /\ BagIn(a.key, submitted)
      /\ [type |-> "map", inst |-> a.inst, key |-> a.key] \in mcast

(***************************************************************************)
(* Each queued submission is decided at most once: a key is announced as   *)
(* accepted in no more instances than the number of times it entered cvm   *)
(* (cvm_get_next_value pops the value it hands to open_new_instances_P2,   *)
(* and a phase 1 or phase 2 retry reuses the instance's own value).  A     *)
(* resubmitted key may be decided once per submission.                     *)
(***************************************************************************)
EachSubmissionDecidedOnce ==
  \A k \in Key :
    Cardinality({a \in mcast : a.type = "acc" /\ a.key = k}) <= CopiesIn(k, submitted)

(***************************************************************************)
(* An instance's status only moves forward along ready, p1_pending,        *)
(* p1_done, p2_pending, done: a reply that arrives late never takes an     *)
(* instance back (handle_phase1_range_msg asserts that every instance of   *)
(* the range is still p1_pending).                                         *)
(***************************************************************************)
Rank(st) == CASE st = "ready" -> 0 [] st = "p1_pending" -> 1
              [] st = "p1_done" -> 2 [] st = "p2_pending" -> 3 [] st = "done" -> 4

StatusNeverRegresses ==
  [][\A i \in Inst : Rank(status'[i]) >= Rank(status[i])]_vars


(***************************************************************************)
(* Progress of the pipeline: every instance given a client value is        *)
(* eventually closed, so highest_closed_iid keeps up with                 *)
(* highest_open_iid (the close loop of handle_phase2_msg, fed by the       *)
(* retries of check_expired_instances), provided the ring keeps answering. *)
(***************************************************************************)
InstancesEventuallyClose ==
  \A i \in Inst : (highest_open_iid >= i) ~> (highest_closed_iid >= i)

(* Fairness: the periodic tick and wall-clock time keep running, a reply   *)
(* back at the leader is handled, and a quorum of the ring is alive: a     *)
(* request of an instance that is sent again and again eventually comes    *)
(* back with a quorum (UDP loss is not permanent).                         *)
RingAnswersFor(i) ==
  \E m \in ring : /\ m.inst = i /\ RingPass(m)
                 /\ [req |-> m, ok |-> TRUE, hp |-> 0] \in replies'
HandleReplyFor(i) ==
  \E r \in replies : /\ r.req.inst = i
                    /\ (HandlePhase1Range(r) \/ HandlePhase1(r) \/ HandlePhase2(r))

(* The tick changes nothing in this state.  PeriodicCheck is deterministic, *)
(* so it is enabled as a step that changes the state exactly when the     *)
(* tick is not idle, and TickFairness is WF_vars(PeriodicCheck).           *)
TickIdle == OpenNewInstancesP2(CheckExpiredInstances(OpenNewInstancesP1(L0))) = L0
TickFairness == []<>TickIdle \/ []<><<PeriodicCheck>>_vars

Fairness ==
  /\ TickFairness
  /\ \A i \in Inst : WF_vars(TimeoutExpires(i))
  /\ \A i \in Inst : WF_vars(HandleReplyFor(i))
  /\ \A i \in Inst : SF_vars(RingAnswersFor(i))

FairSpec == Spec /\ Fairness

=============================================================================

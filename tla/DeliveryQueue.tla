--------------------------- MODULE DeliveryQueue ---------------------------
(***************************************************************************)
(* The learner-side delivery queue of Ring Paxos (lib/delivery_queue.c)    *)
(* together with the learner glue that feeds it and flushes its requests   *)
(* (lib/ringpaxos_learner.c).                                              *)
(*                                                                         *)
(* Two loss-prone multicast streams arrive in any order: command mappings  *)
(* (instance, key, value) and acceptances (instance, chosen key).  The     *)
(* queue keeps one entry per instance in a circular array of QueueSize     *)
(* slots (slot = instance % QueueSize), delivers values in instance order  *)
(* and asks the multicaster for what it is missing from a periodic check.  *)
(*                                                                         *)
(* A command value is identified by its key (key -> value is 1:1), so a    *)
(* cmd_slot holding value bytes is modelled by the key whose value it      *)
(* holds.  Wall-clock time is abstracted: a request timeout is "unset"     *)
(* (tv_sec = tv_usec = 0 after dq_clear_entry), "armed" (in the future,    *)
(* with a non-zero tv_usec) or "expired"; an armed timeout may expire at   *)
(* any moment.                                                             *)
(*                                                                         *)
(* The multicaster is represented by the broadcasts the learner sees:      *)
(* LeaderMap, LeaderClose and the answers to the learner's requests.       *)
(***************************************************************************)
EXTENDS Naturals, Sequences, FiniteSets

CONSTANTS
  QueueSize,   \* lpconfig_get_working_set_size: slots of queue_array
  MaxInst,     \* the multicaster decides instances 1..MaxInst
  Key,         \* command keys (a command value is identified by its key)
  NoKey,       \* the cleared key of CMD_KEY_CLEAR, also calloc'ed value bytes
  Decisions    \* the key assignments [Inst -> Key] the multicaster may decide

ASSUME QueueSize \in Nat \ {0, 1}
ASSUME MaxInst \in Nat \ {0}
ASSUME NoKey \notin Key
ASSUME Decisions \subseteq [1..MaxInst -> Key]

VARIABLES
  queue_array,          \* [Slot -> entry]: dq_entry array
  cmd_slot_array,       \* [Slot -> Key \cup {NoKey}]: value held by a cmd_slot
  highest_delivered,
  highest_seen_closed,
  highest_seen_cmdmap,
  late_start,
  net,                  \* multicast messages in flight to the learner
  reqs,                 \* map / chosen-value requests in flight to the leader
  chosen,               \* [Inst -> Key]: the key the multicaster decides
  decided,              \* instances the multicaster has closed
  delivered,            \* history: values passed to the deliver callback
  base                  \* history: highest_delivered when delivery began

vars == <<queue_array, cmd_slot_array, highest_delivered, highest_seen_closed,
          highest_seen_cmdmap, late_start, net, reqs, chosen, decided,
          delivered, base>>

Inst == 1..MaxInst
Slot == 0..(QueueSize - 1)
TimerState == {"unset", "armed", "expired"}
Timers == {"cmdmap_timeout", "finval_timeout"}

MapMsg == [type : {"map"}, inst : Inst, key : Key]
AccMsg == [type : {"acc"}, inst : Inst, key : Key]
Request == [type : {"mapreq", "finreq"}, inst : Inst]

MaxOf(a, b) == IF a >= b THEN a ELSE b

(* dq_clear_entry: what an entry holds when it is free. *)
ClearedEntry == [inst |-> 0, cmd_key |-> NoKey, has_mapping |-> FALSE,
                 has_final_value |-> FALSE, cmdmap_timeout |-> "unset",
                 finval_timeout |-> "unset"]

SlotOf(i) == i % QueueSize

(* dq_get_entry: the slot of instance i, tagged with i. *)
GetEntry(q, i) == [q EXCEPT ![SlotOf(i)].inst = i]

(* Mutant of InWindow: the "too far in the future" test is off by one.    *)
InWindowOffByOne(i, hd) == hd < i /\ i <= hd + QueueSize

(* The admission test of both handlers: neither too far in the future nor *)
(* already delivered.                                                     *)
InWindow(i, hd) == hd < i /\ i < hd + QueueSize

(***************************************************************************)
(* dq_deliver_loop: deliver, clear and pass over every entry holding both  *)
(* a mapping and a final value, starting at highest_delivered + 1; the     *)
(* entry where the loop stops is fetched (and tagged) once more.  Returns  *)
(* <<queue_array, highest_delivered, delivered>>.                          *)
(***************************************************************************)
RECURSIVE DeliverLoop(_, _, _, _)
DeliverLoop(q, cs, hd, dl) ==
  LET e == GetEntry(q, hd + 1)[SlotOf(hd + 1)]
  IN  IF e.has_mapping /\ e.has_final_value
        THEN DeliverLoop([q EXCEPT ![SlotOf(hd + 1)] = ClearedEntry], cs,
                         hd + 1, Append(dl, cs[SlotOf(hd + 1)]))
        ELSE <<GetEntry(q, hd + 1), hd, dl>>

(* Commit a queue, a cmd_slot array and a start point, then run the        *)
(* delivery loop: the handlers' own call and post_receive_check, which    *)
(* runs it again after every received multicast message.                  *)
CommitAndDeliver(q, cs, hd) ==
  LET r == DeliverLoop(q, cs, hd, delivered)
  IN  /\ queue_array' = r[1]
      /\ highest_delivered' = r[2]
      /\ delivered' = r[3]
      /\ cmd_slot_array' = cs

(* late_start: the first update fixes highest_delivered to inst - 1.       *)
StartPoint(i) == IF late_start THEN i - 1 ELSE highest_delivered
NewBase(i) == IF late_start THEN i - 1 ELSE base

-----------------------------------------------------------------------------
(***************************************************************************)
(* The edges of the two handlers for the entry at slot s of queue q, once  *)
(* the instance is admitted.  A mapping edge returns the new queue and     *)
(* cmd_slot array, an acceptance edge the new queue.                       *)
(***************************************************************************)
(* [edge M2] a mapping is held but no final key: keep the last mapping.   *)
MapOnMapping(q, s, k) ==
  IF k = q[s].cmd_key
    THEN <<q, cmd_slot_array>>
    ELSE <<[q EXCEPT ![s].cmd_key = k], [cmd_slot_array EXCEPT ![s] = k]>>

(* Mutant of MapOnFinal: a mapping that differs from the final key is     *)
(* adopted instead of dropped.                                            *)
MapOnFinalAdopts(q, s, k) ==
  <<[q EXCEPT ![s].cmd_key = k, ![s].has_mapping = TRUE],
    [cmd_slot_array EXCEPT ![s] = k]>>

(* Mutant of MapOnFinal: edge M4 marks the mapping without saving the     *)
(* value into the cmd_slot.                                               *)
MapOnFinalNoCopy(q, s, k) ==
  IF k = q[s].cmd_key
    THEN <<[q EXCEPT ![s].has_mapping = TRUE], cmd_slot_array>>
    ELSE <<q, cmd_slot_array>>

(* [edge M4] the mapping of the known final key: save the value; [edge    *)
(* M3] any other mapping is dropped, the accepted value will not change.  *)
MapOnFinal(q, s, k) ==
  IF k = q[s].cmd_key
    THEN <<[q EXCEPT ![s].has_mapping = TRUE], [cmd_slot_array EXCEPT ![s] = k]>>
    ELSE <<q, cmd_slot_array>>

(* Nothing known: save the mapping received. *)
MapOnEmpty(q, s, k) ==
  <<[q EXCEPT ![s].cmd_key = k, ![s].has_mapping = TRUE],
    [cmd_slot_array EXCEPT ![s] = k]>>

(* Mutant of AccOnMapping: edge A3 copies the final key but keeps the     *)
(* mapping flag of the discarded mapping.                                 *)
AccOnMappingKeepsFlag(q, s, k) ==
  IF k = q[s].cmd_key
    THEN [q EXCEPT ![s].has_final_value = TRUE]
    ELSE [q EXCEPT ![s].cmd_key = k]

(* [edge A4] the mapping held was chosen; [edge A3] another key was       *)
(* chosen: drop the mapping and copy the final key.  The code does not    *)
(* set has_final_value on edge A3.                                        *)
AccOnMapping(q, s, k) ==
  IF k = q[s].cmd_key
    THEN [q EXCEPT ![s].has_final_value = TRUE]
    ELSE [q EXCEPT ![s].has_mapping = FALSE, ![s].cmd_key = k]

(* [edge A1] nothing known: store the final key. *)
AccOnEmpty(q, s, k) ==
  [q EXCEPT ![s].cmd_key = k, ![s].has_final_value = TRUE]

(***************************************************************************)
(* delivery_queue_handle_command_map, reached from on_mcast_msg.           *)
(***************************************************************************)
HandleCommandMap(m) ==
  LET i  == m.inst
      k  == m.key
      hd == StartPoint(i)
      q  == GetEntry(queue_array, i)
      e  == q[SlotOf(i)]
      s  == SlotOf(i)
      Commit(r) == CommitAndDeliver(r[1], r[2], hd)
  IN
  /\ m \in net
  /\ m.type = "map"
  /\ net' = net \ {m}
  /\ late_start' = FALSE
  /\ base' = NewBase(i)
  /\ IF ~InWindow(i, hd)
       THEN /\ CommitAndDeliver(queue_array, cmd_slot_array, hd)
            /\ UNCHANGED highest_seen_cmdmap
       ELSE
       /\ highest_seen_cmdmap' = MaxOf(highest_seen_cmdmap, i)
       /\ \/ /\ e.has_final_value /\ e.has_mapping
             /\ CommitAndDeliver(q, cmd_slot_array, hd)
          \/ /\ e.has_mapping /\ ~e.has_final_value
             /\ Commit(MapOnMapping(q, s, k))
          \/ /\ e.has_final_value /\ ~e.has_mapping
             /\ Commit(MapOnFinal(q, s, k))
          \/ /\ ~e.has_final_value /\ ~e.has_mapping
             /\ Commit(MapOnEmpty(q, s, k))
  /\ UNCHANGED <<highest_seen_closed, reqs, chosen, decided>>

(***************************************************************************)
(* delivery_queue_handle_acceptance, reached from on_mcast_msg.  The       *)
(* highest seen acceptance is recorded before the window test.            *)
(***************************************************************************)
HandleAcceptance(m) ==
  LET i  == m.inst
      k  == m.key
      hd == StartPoint(i)
      q  == GetEntry(queue_array, i)
      e  == q[SlotOf(i)]
      s  == SlotOf(i)
  IN
  /\ m \in net
  /\ m.type = "acc"
  /\ net' = net \ {m}
  /\ late_start' = FALSE
  /\ base' = NewBase(i)
  /\ highest_seen_closed' = MaxOf(highest_seen_closed, i)
  /\ IF ~InWindow(i, hd)
       THEN CommitAndDeliver(queue_array, cmd_slot_array, hd)
       ELSE
       \/ /\ e.has_final_value /\ e.has_mapping
          /\ CommitAndDeliver(q, cmd_slot_array, hd)
       \/ /\ e.has_mapping /\ ~e.has_final_value
          /\ CommitAndDeliver(AccOnMapping(q, s, k), cmd_slot_array, hd)
       \* [edge A2] final key already known
       \/ /\ e.has_final_value /\ ~e.has_mapping
          /\ CommitAndDeliver(q, cmd_slot_array, hd)
       \/ /\ ~e.has_final_value /\ ~e.has_mapping
          /\ CommitAndDeliver(AccOnEmpty(q, s, k), cmd_slot_array, hd)
  /\ UNCHANGED <<highest_seen_cmdmap, reqs, chosen, decided>>

-----------------------------------------------------------------------------
(***************************************************************************)
(* dq_periodic_check followed by post_delivery_check: for every instance   *)
(* above highest_delivered, up to the highest seen mapping or acceptance   *)
(* and inside the circular buffer, request a missing mapping unless one    *)
(* was requested recently, and request the final value of an instance     *)
(* below the highest seen acceptance.  The requests buffered by            *)
(* on_missing_cmdmap / on_missing_acceptance are flushed at the end.       *)
(***************************************************************************)
(* The rate-limit tests of the two requests, as the code writes them.     *)
(* A cmdmap timeout is "not recently requested" when unset or expired.    *)
CmdmapRequestAllowed(t) == t = "unset" \/ t = "expired"
(* (tv_sec != 0 && tv_usec != 0) || timer_is_expired: an armed timeout    *)
(* has both fields non-zero, an unset one is in the past.                 *)
FinvalRequestAllowed(t) == t = "armed" \/ t \in {"unset", "expired"}

CheckedInstances ==
  {i \in (highest_delivered + 1)..MaxOf(highest_seen_closed, highest_seen_cmdmap) :
     i < highest_delivered + QueueSize}

(* The learner glue behind the two callbacks: on_missing_cmdmap and       *)
(* on_missing_acceptance append an instance to the map or chosen-value     *)
(* request buffer, sent when it holds REPEAT_REQUEST_MAX_ENTRIES, and      *)
(* post_delivery_check sends what is left at the end of the check.  All    *)
(* requested instances of one check are sent, one request each.            *)
(* Mutant of RequestMissing: the map request buffer is never flushed.     *)
RequestMissingFinOnly(M, F) ==
  reqs' = reqs \cup {[type |-> "finreq", inst |-> i] : i \in F}

RequestMissing(M, F) ==
  reqs' = reqs \cup {[type |-> "mapreq", inst |-> i] : i \in M}
               \cup {[type |-> "finreq", inst |-> i] : i \in F}

PeriodicCheck ==
  LET I == CheckedInstances
      InstAt(s) == CHOOSE i \in I : SlotOf(i) = s
      Checked(s) == \E i \in I : SlotOf(i) = s
      Pending(e) == ~(e.has_mapping /\ e.has_final_value)
      WantMap(s) == /\ Checked(s)
                    /\ Pending(queue_array[s]) /\ ~queue_array[s].has_mapping
                    /\ CmdmapRequestAllowed(queue_array[s].cmdmap_timeout)
      WantFin(s) == /\ Checked(s)
                    /\ Pending(queue_array[s])
                    /\ InstAt(s) < highest_seen_closed
                    /\ FinvalRequestAllowed(queue_array[s].finval_timeout)
  IN
  /\ queue_array' =
       [s \in Slot |->
          IF Checked(s)
            THEN [queue_array[s] EXCEPT
                    !.inst = InstAt(s),
                    !.cmdmap_timeout = IF WantMap(s) THEN "armed" ELSE @,
                    !.finval_timeout = IF WantFin(s) THEN "armed" ELSE @]
            ELSE queue_array[s]]
  /\ RequestMissing({InstAt(s) : s \in {s \in Slot : WantMap(s)}},
                    {InstAt(s) : s \in {s \in Slot : WantFin(s)}})
  /\ UNCHANGED <<cmd_slot_array, highest_delivered, highest_seen_closed,
                 highest_seen_cmdmap, late_start, net, chosen, decided,
                 delivered, base>>

(* Wall-clock time passes the cmdmap or finval request timeout of entry s. *)
TimeoutExpires(s, timer) ==
  /\ queue_array[s][timer] = "armed"
  /\ queue_array' = [queue_array EXCEPT ![s][timer] = "expired"]
  /\ UNCHANGED <<cmd_slot_array, highest_delivered, highest_seen_closed,
                 highest_seen_cmdmap, late_start, net, reqs, chosen, decided,
                 delivered, base>>

-----------------------------------------------------------------------------
(***************************************************************************)
(* The multicaster, as the learner sees it.                                *)
(***************************************************************************)
EnvUnchanged == UNCHANGED <<queue_array, cmd_slot_array, highest_delivered,
                            highest_seen_closed, highest_seen_cmdmap,
                            late_start, delivered, base>>

(* mcaster_broadcast_mapping of the key assigned to an open instance: a   *)
(* phase 2 start or retry.  Before closing, the assigned key may be one   *)
(* that is not chosen (a proposal replaced after phase 1); afterwards it  *)
(* is the chosen one.                                                     *)
LeaderMap(i, k) ==
  /\ i \notin decided \/ k = chosen[i]
  /\ net' = net \cup {[type |-> "map", inst |-> i, key |-> k]}
  /\ UNCHANGED <<reqs, chosen, decided>>
  /\ EnvUnchanged

(* mcaster_handle_phase2_msg with a quorum: close the instance and        *)
(* mcaster_broadcast_acceptance.                                          *)
LeaderClose(i) ==
  /\ i \notin decided
  /\ decided' = decided \cup {i}
  /\ net' = net \cup {[type |-> "acc", inst |-> i, key |-> chosen[i]]}
  /\ UNCHANGED <<reqs, chosen>>
  /\ EnvUnchanged

(* mcaster_handle_map_request: re-broadcast the mapping of the key the    *)
(* instance is assigned (the chosen one once it is closed).               *)
LeaderAnswerMapRequest(r) ==
  /\ r \in reqs
  /\ r.type = "mapreq"
  /\ reqs' = reqs \ {r}
  /\ \E k \in Key :
       /\ r.inst \notin decided \/ k = chosen[r.inst]
       /\ net' = net \cup {[type |-> "map", inst |-> r.inst, key |-> k]}
  /\ UNCHANGED <<chosen, decided>>
  /\ EnvUnchanged

(* mcaster_handle_map_request when the mapping was re-broadcast recently  *)
(* (repeat_cmdmap_timeout not expired): the request is ignored.           *)
LeaderIgnoreMapRequest(r) ==
  /\ r \in reqs
  /\ r.type = "mapreq"
  /\ reqs' = reqs \ {r}
  /\ UNCHANGED <<net, chosen, decided>>
  /\ EnvUnchanged

(* mcaster_handle_chosenval_request: re-broadcast the acceptance of a     *)
(* closed instance, nothing for one still open.                           *)
LeaderAnswerChosenRequest(r) ==
  /\ r \in reqs
  /\ r.type = "finreq"
  /\ reqs' = reqs \ {r}
  /\ net' = IF r.inst \in decided
              THEN net \cup {[type |-> "acc", inst |-> r.inst, key |-> chosen[r.inst]]}
              ELSE net
  /\ UNCHANGED <<chosen, decided>>
  /\ EnvUnchanged

(* UDP multicast loses a message. *)
LoseMessage(m) ==
  /\ m \in net
  /\ net' = net \ {m}
  /\ UNCHANGED <<reqs, chosen, decided>>
  /\ EnvUnchanged

-----------------------------------------------------------------------------
Init ==
  /\ queue_array = [s \in Slot |-> ClearedEntry]
  /\ cmd_slot_array = [s \in Slot |-> NoKey]
  /\ highest_delivered = 0
  /\ highest_seen_closed = 0
  /\ highest_seen_cmdmap = 0
  /\ late_start \in BOOLEAN      \* learner_delayed_start called or not
  /\ net = {}
  /\ reqs = {}
  /\ chosen \in Decisions
  /\ decided = {}
  /\ delivered = <<>>
  /\ base = 0

LearnerNext ==
  \/ \E m \in net : HandleCommandMap(m) \/ HandleAcceptance(m)
  \/ PeriodicCheck
  \/ \E s \in Slot, t \in Timers : TimeoutExpires(s, t)

LeaderNext ==
  \/ \E i \in Inst, k \in Key : LeaderMap(i, k)
  \/ \E i \in Inst : LeaderClose(i)
  \/ \E r \in reqs : \/ LeaderAnswerMapRequest(r)
                      \/ LeaderIgnoreMapRequest(r)
                      \/ LeaderAnswerChosenRequest(r)
  \/ \E m \in net : LoseMessage(m)

Next == LearnerNext \/ LeaderNext

Spec == Init /\ [][Next]_vars

-----------------------------------------------------------------------------
TypeOK ==
  /\ queue_array \in [Slot -> [inst : 0..(MaxInst + QueueSize),
                               cmd_key : Key \cup {NoKey},
                               has_mapping : BOOLEAN,
                               has_final_value : BOOLEAN,
                               cmdmap_timeout : TimerState,
                               finval_timeout : TimerState]]
  /\ cmd_slot_array \in [Slot -> Key \cup {NoKey}]
  /\ highest_delivered \in 0..MaxInst
  /\ highest_seen_closed \in 0..MaxInst
  /\ highest_seen_cmdmap \in 0..MaxInst
  /\ late_start \in BOOLEAN
  /\ net \subseteq MapMsg \cup AccMsg
  /\ reqs \subseteq Request
  /\ chosen \in [Inst -> Key]
  /\ decided \subseteq Inst
  /\ delivered \in Seq(Key)
  /\ base \in 0..MaxInst

(***************************************************************************)
(* Ordering and exactly-once: the values handed to the deliver callback    *)
(* are the chosen values of the instances base+1, base+2, ... in order,    *)
(* with no gap, no duplicate and no stale cmd_slot content, however the    *)
(* two streams were reordered, lost and repeated (handle_command_map,      *)
(* handle_acceptance, dq_deliver_loop).                                    *)
(***************************************************************************)
DeliveredAreChosenInOrder ==
  /\ highest_delivered = base + Len(delivered)
  /\ \A j \in 1..Len(delivered) : delivered[j] = chosen[base + j]

(***************************************************************************)
(* Window safety: an entry that holds anything is tagged, and every tagged *)
(* entry belongs to an undelivered instance of the current window and sits *)
(* in that instance's slot, so no handler, delivery loop or periodic check *)
(* ever reuses a live slot (the assertions of dq_get_entry).               *)
(***************************************************************************)
EntriesInWindow ==
  \A s \in Slot :
    LET e == queue_array[s] IN
    /\ (e.has_mapping \/ e.has_final_value) => e.inst # 0
    /\ e.inst # 0 =>
         /\ highest_delivered < e.inst
         /\ e.inst < highest_delivered + QueueSize
         /\ SlotOf(e.inst) = s

(***************************************************************************)
(* A final key, once learned for an undelivered instance, is the chosen    *)
(* key and stays with the entry (edges A2, A3 and M2 never replace it).    *)
(***************************************************************************)
FinalKeyIsChosen ==
  \A s \in Slot :
    queue_array[s].has_final_value =>
      queue_array[s].cmd_key = chosen[queue_array[s].inst]

(***************************************************************************)
(* A key held by an entry is backed by the mapping or the acceptance it    *)
(* came from: after edge A3 ("save the final key (that won't change),     *)
(* drop the mapping") the entry knows its final key, as the spec's         *)
(* transition table has it (final-only).                                   *)
(***************************************************************************)
StoredKeyHasSource ==
  \A s \in Slot :
    queue_array[s].cmd_key # NoKey =>
      queue_array[s].has_mapping \/ queue_array[s].has_final_value

(***************************************************************************)
(* Rate limit of the missing-final request (dq_periodic_check): while the  *)
(* finval request timeout of an entry is armed, no new chosen-value        *)
(* request for its instance is issued.                                     *)
(***************************************************************************)
FinvalRequestRateLimited ==
  [][\A s \in Slot :
       queue_array[s].finval_timeout = "armed" /\ queue_array[s].inst # 0 =>
         [type |-> "finreq", inst |-> queue_array[s].inst] \notin reqs' \ reqs
    ]_vars

(***************************************************************************)
(* Gap repair: an instance below the highest acceptance the learner has    *)
(* seen is eventually delivered, provided lost messages are eventually     *)
(* repaired (periodic check, timeouts and the multicaster's answers are    *)
(* weakly fair, a message sent again and again is eventually received).    *)
(***************************************************************************)
GapsEventuallyFilled ==
  \A i \in Inst :
    (highest_delivered < i /\ i < highest_seen_closed) ~> (highest_delivered >= i)

(***************************************************************************)
(* Every decided instance whose mapping the learner has received is        *)
(* eventually delivered (under the same fairness): the periodic check      *)
(* must eventually obtain its acceptance, even when the acceptance of the  *)
(* highest decided instance is the one that was lost.                      *)
(***************************************************************************)
DecidedEventuallyDelivered ==
  \A i \in Inst :
    (i \in decided /\ highest_seen_cmdmap >= i) ~> (highest_delivered >= i)

(* Fairness, per instance: the periodic check and wall-clock time keep    *)
(* running, the multicaster closes every instance and eventually answers  *)
(* a request it keeps receiving, and a message for an instance that is    *)
(* sent again and again is eventually received (UDP loss is not           *)
(* permanent).  Once an instance is closed only its chosen mapping is     *)
(* sent, so fairness per instance and stream is fairness per message.     *)
(* Map and chosen-value requests are answered under separate fairness:    *)
(* mcaster_handle_map_request ignores a map request only while the        *)
(* instance's repeat_cmdmap_timeout runs, and that timer expires, so a    *)
(* map request received again and again is eventually answered whatever   *)
(* happens to the chosen-value requests of the same instance.  A          *)
(* chosen-value request leaves reqs only when it is handled, so weak      *)
(* fairness is enough for it.                                             *)
ReceiveMapFor(i) == \E m \in net : m.inst = i /\ HandleCommandMap(m)
ReceiveAccFor(i) == \E m \in net : m.inst = i /\ HandleAcceptance(m)
AnswerMapFor(i) == \E r \in reqs : r.inst = i /\ LeaderAnswerMapRequest(r)
AnswerFinFor(i) == \E r \in reqs : r.inst = i /\ LeaderAnswerChosenRequest(r)

Fairness ==
  /\ WF_vars(PeriodicCheck)
  /\ \A s \in Slot, t \in Timers : WF_vars(TimeoutExpires(s, t))
  /\ \A i \in Inst : WF_vars(LeaderClose(i))
  /\ \A i \in Inst : SF_vars(AnswerMapFor(i))
  /\ \A i \in Inst : WF_vars(AnswerFinFor(i))
  /\ \A i \in Inst : SF_vars(ReceiveMapFor(i))
  /\ \A i \in Inst : SF_vars(ReceiveAccFor(i))

FairSpec == Spec /\ Fairness


-----------------------------------------------------------------------------
(***************************************************************************)
(* The learner implements atomic broadcast: seen through the decisions of  *)
(* the multicaster, the delivery queue's behaviour is one of the           *)
(* AtomicBroadcast specification.  An instance is decided once it is       *)
(* closed; a learner started late has begun once it has handled its first *)
(* message, after the instance base.                                       *)
(***************************************************************************)
AB == INSTANCE AtomicBroadcast
        WITH decision <- [i \in Inst |-> IF i \in decided THEN chosen[i] ELSE NoKey],
             start <- base,
             started <- ~late_start

(***************************************************************************)
(* Whatever the two streams do, every step of the learner (each handler    *)
(* with its delivery loop, the periodic check) and of the multicaster is   *)
(* a step of AtomicBroadcast or leaves its state alone: the values handed  *)
(* to the deliver callback are only ever extended, with the decided        *)
(* values of the next instances, and a late start happens once, before    *)
(* anything is delivered.                                                  *)
(***************************************************************************)
ImplementsAtomicBroadcast == AB!AbsSpec

=============================================================================

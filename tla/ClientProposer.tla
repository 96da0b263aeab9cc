-------------------------- MODULE ClientProposer --------------------------
(***************************************************************************)
(* The proposing client of ring-paxos/client_proposer_learner.c together   *)
(* with the leader's client value queue (mcaster_handle_value_submit,      *)
(* lib/client_values_manager.c) and the decide-and-deliver pipeline        *)
(* behind it.                                                              *)
(*                                                                         *)
(* The client keeps Concurrent values outstanding.  Each is submitted by   *)
(* UDP to the leader, which queues it or drops it when its queue is full;  *)
(* the client submits a value again when its timeout expires, and         *)
(* replaces a value by a new one when its own learner delivers it.         *)
(*                                                                         *)
(* The leader engine and the learners are represented by what they        *)
(* guarantee (modules Leader, DeliveryQueue and AtomicBroadcast): queued   *)
(* values are popped in order and given to consecutive instances, and the  *)
(* learner delivers the decided values in instance order.  `undelivered`   *)
(* holds the values decided and not yet delivered to this client.  A value *)
(* is identified by its bytes; generate_random_value draws 128 random bits *)
(* per value, so a new value is a fresh one.  When the finite set Value is *)
(* used up, a slot whose value is delivered is retired (NoValue), the      *)
(* bound of the model.                                                     *)
(***************************************************************************)
EXTENDS Naturals, Sequences, FiniteSets

CONSTANTS
  Concurrent,    \* CONCURRENT_VALUES: outstanding values of the client
  Value,         \* values the client may generate
  NoValue,       \* a retired slot (the model's bound on generated values)
  QueueLength    \* capacity of the leader's client value queue

ASSUME Concurrent \in Nat \ {0}
ASSUME Cardinality(Value) >= Concurrent
ASSUME NoValue \notin Value
ASSUME QueueLength \in Nat \ {0}

VARIABLES
  pending,       \* [Slot -> Value \cup {NoValue}]: pending_values[i].submit_msg
  ptimeout,      \* [Slot -> TimerState]: pending_values[i].timeout
  used,          \* history: values generated so far
  submit_net,    \* client_submit messages in flight to the leader
  cvm,           \* the leader's client value queue
  undelivered,   \* values decided, not yet delivered to this client
  deliveries,    \* history: [Value -> 0..2], times a value was delivered (capped)
  deliver_count  \* cl->deliver_count

vars == <<pending, ptimeout, used, submit_net, cvm, undelivered, deliveries,
          deliver_count>>

Slot == 0..(Concurrent - 1)
TimerState == {"unset", "armed", "expired"}

PendingValues == {pending[s] : s \in Slot} \ {NoValue}

(* generate_random_value: a value never generated before, or NoValue when *)
(* the model's values are used up.                                         *)
NewValue(u) == IF Value \ u = {} THEN NoValue ELSE CHOOSE v \in Value \ u : TRUE

-----------------------------------------------------------------------------
(***************************************************************************)
(* The client.                                                             *)
(***************************************************************************)
(* Wall-clock time passes the timeout of a pending value. *)
TimeoutExpires(s) ==
  /\ ptimeout[s] = "armed"
  /\ ptimeout' = [ptimeout EXCEPT ![s] = "expired"]
  /\ UNCHANGED <<pending, used, submit_net, cvm, undelivered, deliveries,
                 deliver_count>>

(* Mutant of ValuesTimeoutCheck: the timeout is re-armed, the value is    *)
(* not sent again.                                                         *)
ValuesTimeoutCheckRearmOnly ==
  LET E == {s \in Slot : ptimeout[s] = "expired"}
  IN  /\ ptimeout' = [s \in Slot |-> IF s \in E THEN "armed" ELSE ptimeout[s]]
      /\ UNCHANGED <<pending, used, submit_net, cvm, undelivered, deliveries,
                     deliver_count>>

(* values_timeout_check: every value whose timeout expired is submitted   *)
(* again and its timeout re-armed.                                         *)
ValuesTimeoutCheck ==
  LET E == {s \in Slot : ptimeout[s] = "expired"}
  IN  /\ submit_net' = submit_net \cup {pending[s] : s \in E}
      /\ ptimeout' = [s \in Slot |-> IF s \in E THEN "armed" ELSE ptimeout[s]]
      /\ UNCHANGED <<pending, used, cvm, undelivered, deliveries, deliver_count>>

(* Replace the value of slot s by a new one, submit it and arm its         *)
(* timeout (the body of the match in on_deliver).                          *)
Resubmit(s) ==
  LET v == NewValue(used)
  IN  /\ pending' = [pending EXCEPT ![s] = v]
      /\ used' = used \cup ({v} \ {NoValue})
      /\ submit_net' = IF v = NoValue THEN submit_net ELSE submit_net \cup {v}
      /\ ptimeout' = [ptimeout EXCEPT ![s] = IF v = NoValue THEN "unset" ELSE "armed"]
      /\ deliver_count' = deliver_count + 1

(* Mutant of OnDeliver: the delivered value is counted but not replaced,  *)
(* the slot keeps it pending.                                              *)
OnDeliverKeepsValue ==
  LET v == Head(undelivered)
      M == {s \in Slot : pending[s] = v}
  IN  /\ undelivered # <<>>
      /\ undelivered' = Tail(undelivered)
      /\ deliveries' = [deliveries EXCEPT ![v] = IF @ < 2 THEN @ + 1 ELSE 2]
      /\ deliver_count' = IF M # {} THEN deliver_count + 1 ELSE deliver_count
      /\ UNCHANGED <<pending, ptimeout, used, submit_net, cvm>>

(* on_deliver: the learner delivers the next decided value; if it is one  *)
(* of the client's pending values (the first slot that holds it), a new    *)
(* value takes its slot; any other value is ignored.                       *)
OnDeliver ==
  LET v == Head(undelivered)
      M == {s \in Slot : pending[s] = v}
  IN  /\ undelivered # <<>>
      /\ undelivered' = Tail(undelivered)
      /\ deliveries' = [deliveries EXCEPT ![v] = IF @ < 2 THEN @ + 1 ELSE 2]
      /\ IF M # {}
           THEN Resubmit(CHOOSE s \in M : \A t \in M : s <= t)
           ELSE UNCHANGED <<pending, ptimeout, used, submit_net, deliver_count>>
      /\ UNCHANGED cvm

-----------------------------------------------------------------------------
(***************************************************************************)
(* The leader's value queue, the decisions and the network.                *)
(***************************************************************************)
(* Mutant of HandleValueSubmit: the value is queued whatever the queue's  *)
(* length.                                                                 *)
HandleValueSubmitUnbounded(v) ==
  /\ v \in submit_net
  /\ submit_net' = submit_net \ {v}
  /\ cvm' = Append(cvm, v)
  /\ UNCHANGED <<pending, ptimeout, used, undelivered, deliveries, deliver_count>>

(* mcaster_handle_value_submit / cvm_save_value: the value is queued, or   *)
(* dropped when the queue is full.  No check is made that the value is     *)
(* already queued or decided.                                              *)
HandleValueSubmit(v) ==
  /\ v \in submit_net
  /\ submit_net' = submit_net \ {v}
  /\ cvm' = IF Len(cvm) < QueueLength THEN Append(cvm, v) ELSE cvm
  /\ UNCHANGED <<pending, ptimeout, used, undelivered, deliveries, deliver_count>>

(* cvm_get_next_value in open_new_instances_P2: the next queued value is   *)
(* given to the next instance, which is decided; the learners deliver      *)
(* decided values in instance order.                                       *)
LeaderDecide ==
  /\ cvm # <<>>
  /\ undelivered' = Append(undelivered, Head(cvm))
  /\ cvm' = Tail(cvm)
  /\ UNCHANGED <<pending, ptimeout, used, submit_net, deliveries, deliver_count>>

(* UDP loses a client_submit message. *)
LoseSubmit(v) ==
  /\ v \in submit_net
  /\ submit_net' = submit_net \ {v}
  /\ UNCHANGED <<pending, ptimeout, used, cvm, undelivered, deliveries,
                 deliver_count>>

-----------------------------------------------------------------------------
(* clear, then client_pl_init (called from learner_init): Concurrent new  *)
(* values are generated and submitted, each with its timeout armed.        *)
Init ==
  LET first == CHOOSE f \in [Slot -> Value] :
                 \A s, t \in Slot : s # t => f[s] # f[t]
  IN  /\ pending = first
      /\ ptimeout = [s \in Slot |-> "armed"]
      /\ used = {first[s] : s \in Slot}
      /\ submit_net = {first[s] : s \in Slot}
      /\ cvm = <<>>
      /\ undelivered = <<>>
      /\ deliveries = [v \in Value |-> 0]
      /\ deliver_count = 0

Next ==
  \/ \E s \in Slot : TimeoutExpires(s)
  \/ ValuesTimeoutCheck
  \/ OnDeliver
  \/ \E v \in submit_net : HandleValueSubmit(v) \/ LoseSubmit(v)
  \/ LeaderDecide

Spec == Init /\ [][Next]_vars

(* Fairness: the periodic check and wall-clock time keep running, the      *)
(* leader keeps deciding queued values and the learner keeps delivering    *)
(* decided ones, and a value submitted again and again eventually reaches  *)
(* the leader (UDP loss is not permanent).                                 *)
Fairness ==
  /\ WF_vars(ValuesTimeoutCheck)
  /\ \A s \in Slot : WF_vars(TimeoutExpires(s))
  /\ WF_vars(LeaderDecide)
  /\ WF_vars(OnDeliver)
  /\ \A v \in Value : SF_vars(HandleValueSubmit(v))

FairSpec == Spec /\ Fairness

-----------------------------------------------------------------------------
TypeOK ==
  /\ pending \in [Slot -> Value \cup {NoValue}]
  /\ ptimeout \in [Slot -> TimerState]
  /\ used \subseteq Value
  /\ submit_net \subseteq Value
  /\ cvm \in Seq(Value) /\ Len(cvm) <= QueueLength
  /\ undelivered \in Seq(Value)
  /\ deliveries \in [Value -> 0..2]
  /\ deliver_count \in Nat

(***************************************************************************)
(* The client's bookkeeping stays exact however values are lost, resent,   *)
(* dropped by the full queue and decided twice: a generated value is       *)
(* pending exactly until its first delivery, no two slots hold the same    *)
(* value, and deliver_count counts each value once (on_deliver replaces    *)
(* the value it matched, so a second copy matches nothing).                *)
(***************************************************************************)
PendingExactlyUndelivered ==
  /\ \A v \in used : v \in PendingValues <=> deliveries[v] = 0
  /\ \A s, t \in Slot : s # t /\ pending[s] # NoValue => pending[s] # pending[t]
  /\ deliver_count = Cardinality({v \in Value : deliveries[v] > 0})

(***************************************************************************)
(* Every value the client has outstanding is eventually delivered, though  *)
(* its submissions may be lost or dropped by a full leader queue: the      *)
(* timeout of values_timeout_check keeps resending it.                     *)
(***************************************************************************)
EveryValueDelivered ==
  \A v \in Value : (v \in PendingValues) ~> (deliveries[v] > 0)

=============================================================================

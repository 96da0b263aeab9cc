-------------------------- MODULE AtomicBroadcast --------------------------
(***************************************************************************)
(* What Ring Paxos promises a learner, stated without the protocol: every  *)
(* instance is decided at most once and for good, and the learner hands    *)
(* its application the decided values of consecutive instances, in        *)
(* instance order, starting after the instance where it began.  A learner  *)
(* started late (learner_delayed_start) begins once, before delivering     *)
(* anything, at an instance of its choosing.  One delivery step may hand   *)
(* over several values (the delivery loop runs until the first gap).       *)
(***************************************************************************)
EXTENDS Naturals, Sequences

CONSTANTS MaxInst, Key, NoKey

VARIABLES
  decision,   \* [1..MaxInst -> Key \cup {NoKey}]: the value decided per instance
  delivered,  \* the values handed to the application, in order
  start,      \* delivery begins after this instance
  started     \* FALSE until a late learner has chosen where to begin

abvars == <<decision, delivered, start, started>>

AbsInst == 1..MaxInst

(* The instance whose value is delivered next. *)
NextToDeliver == start + Len(delivered) + 1

AbsInit ==
  /\ decision = [i \in AbsInst |-> NoKey]
  /\ delivered = <<>>
  /\ start = 0
  /\ started \in BOOLEAN

(* An undecided instance is decided. *)
Decide(i, k) ==
  /\ decision[i] = NoKey
  /\ decision' = [decision EXCEPT ![i] = k]
  /\ UNCHANGED <<delivered, start, started>>

(* A late learner fixes where delivery begins. *)
Begin(b) ==
  /\ ~started
  /\ delivered = <<>>
  /\ started' = TRUE
  /\ start' = b
  /\ UNCHANGED <<decision, delivered>>

(* The next n instances are decided and their values are delivered. *)
Deliver(n) ==
  LET lo == NextToDeliver
  IN  /\ started
      /\ lo + n - 1 <= MaxInst
      /\ \A j \in lo..(lo + n - 1) : decision[j] # NoKey
      /\ delivered' = delivered \o [j \in 1..n |-> decision[lo + j - 1]]
      /\ UNCHANGED <<decision, start, started>>

AbsNext ==
  \/ \E i \in AbsInst, k \in Key : Decide(i, k)
  \/ \E b \in 0..MaxInst : Begin(b)
  \/ \E n \in 1..MaxInst : Deliver(n)

AbsSpec == AbsInit /\ [][AbsNext]_abvars

=============================================================================

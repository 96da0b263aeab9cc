------------------------------ MODULE RingPaxos ------------------------------
(***************************************************************************)
(* The leader engine of module Leader composed with the ring of acceptors  *)
(* it drives, and with a crash and restart of the leader process.          *)
(*                                                                         *)
(* A restarted leader runs acceptor_init / multicaster_init again with a   *)
(* higher incarnation number from its configuration: every instance       *)
(* record, counter and queued client value is new, while the acceptors    *)
(* keep what they promised and accepted, and requests the old process     *)
(* sent are still travelling the ring.  A ballot is ordered by             *)
(* (incarnation, round); the Leader module's ballots are the rounds of    *)
(* the current incarnation.                                                *)
(*                                                                         *)
(* The non-leader acceptors (acceptor_helpers.c) are not in the            *)
(* repository.  They follow the message contract of the specification:     *)
(* each acceptor of the ring adds its promise or accept to the count the   *)
(* request carries and forwards it; a phase 1 request also carries the     *)
(* highest promised ballot of a refusal and the highest accepted ballot    *)
(* and key.  A phase1_range request cannot carry an accepted value, so an  *)
(* acceptor refuses it for a range holding an accepted instance.           *)
(***************************************************************************)
EXTENDS Naturals, Sequences, FiniteSets

CONSTANTS
  MaxInst, Key, NoKey, PreexecWindow, MaxActive, MaxP2PerIter, QueueLength,
  MaxBallot,       \* rounds 1..MaxBallot of one incarnation
  NumAcceptors,    \* acceptors of the ring, visited in the order 1..NumAcceptors
  Quorum,          \* lpconfig_get_quorum_size
  MaxInc           \* incarnations 1..MaxInc: the bound on restarts

ASSUME NumAcceptors \in Nat \ {0}
ASSUME Quorum \in 1..NumAcceptors
ASSUME MaxInc \in Nat \ {0}

VARIABLES
  status, ballot, assigned, timeout, p1_ready_count, p1_highest_open,
  highest_open_iid, highest_closed_iid, cvm, submitted, ring, replies, mcast,
  incarnation,   \* lpconfig_get_incarnation_number of the running leader
  promised,      \* [Acceptor -> [Inst -> FullBallot \cup {0}]]
  votes,         \* history: <<acceptor, instance, ballot, key>> accepted
  transit        \* requests between two acceptors of the ring

leader_vars == <<status, ballot, assigned, timeout, p1_ready_count,
                 p1_highest_open, highest_open_iid, highest_closed_iid, cvm,
                 submitted, ring, replies, mcast>>
vars == <<leader_vars, incarnation, promised, votes, transit>>

LD == INSTANCE Leader

Inst == 1..MaxInst
Acceptor == 1..NumAcceptors

(* make_first_ballot / is_my_ballot: a ballot is ordered by incarnation,   *)
(* then by round; 0 is below every ballot.                                 *)
FullBallot == 1..(MaxInc * MaxBallot)
FB(inc, round) == (inc - 1) * MaxBallot + round
RoundOf(fb) == fb - (incarnation - 1) * MaxBallot

(* A request in the ring: the leader's request, the incarnation that sent  *)
(* it, the next acceptor, and what the acceptors so far have added.        *)
TransitMsg == [req : LD!RingMsg, inc : 1..MaxInc, pos : Acceptor,
               count : 0..NumAcceptors, hp : 0..(MaxInc * MaxBallot),
               ab : 0..(MaxInc * MaxBallot), ak : Key \cup {NoKey}]

(* The highest ballot and key acceptor a accepted for instance i. *)
AcceptedOf(a, i) ==
  LET V == {v \in votes : v[1] = a /\ v[2] = i}
  IN  IF V = {} THEN <<0, NoKey>>
      ELSE LET v == CHOOSE v \in V : \A w \in V : w[3] <= v[3] IN <<v[3], v[4]>>

(* Key k is chosen for instance i: a quorum accepted it at one ballot.     *)
Chosen(i, k) ==
  \E b \in FullBallot : Cardinality({a \in Acceptor : <<a, i, b, k>> \in votes}) >= Quorum

-----------------------------------------------------------------------------
(***************************************************************************)
(* The acceptors of the ring (the specification's contract).               *)
(***************************************************************************)
(* A request the leader sent, as the first acceptor of the ring gets it: *)
(* mcaster_do_phase1, _phase1_range and _phase2 send it with the promise  *)
(* or accept count and the reported ballots and key zeroed.               *)
Entering(m) == [req |-> m, inc |-> incarnation, pos |-> 1, count |-> 0,
                hp |-> 0, ab |-> 0, ak |-> NoKey]

(* Mutant of Forward: the last acceptor forwards to a successor too. *)
ForwardPastLast(others, u) ==
  IF u.pos > NumAcceptors
    THEN /\ replies' = replies \cup
              {[req |-> u.req, inc |-> u.inc, ok |-> u.count >= Quorum,
                hp |-> u.hp, ab |-> u.ab, ak |-> u.ak]}
         /\ transit' = others
    ELSE /\ transit' = others \cup {[u EXCEPT !.pos = @ + 1]}
         /\ UNCHANGED replies

(* The acceptor forwards the request u to lptopo_get_successor_id: the    *)
(* next acceptor, or the leader (configuration id 1, where the ring wraps) *)
(* after the last one; the model's acceptor a has configuration id a + 1   *)
(* (am_i_first_in_ring is id 2).  `others` are the other requests in the   *)
(* ring.                                                                   *)
Forward(others, u) ==
  IF u.pos = NumAcceptors
    THEN /\ replies' = replies \cup
              {[req |-> u.req, inc |-> u.inc, ok |-> u.count >= Quorum,
                hp |-> u.hp, ab |-> u.ab, ak |-> u.ak]}
         /\ transit' = others
    ELSE /\ transit' = others \cup {[u EXCEPT !.pos = @ + 1]}
         /\ UNCHANGED replies

(* phase1_range: promise every instance of the range, or refuse when one  *)
(* is promised to a higher ballot or already holds an accepted value.      *)
RangePromise(others, t) ==
  LET a == t.pos
      R == t.req.inst..t.req.to
      b == FB(t.inc, t.req.bal)
      ok == \A i \in R : promised[a][i] <= b /\ AcceptedOf(a, i)[1] = 0
  IN  /\ promised' = [promised EXCEPT ![a] =
                        [i \in Inst |-> IF ok /\ i \in R THEN b ELSE @[i]]]
      /\ UNCHANGED votes
      /\ Forward(others, [t EXCEPT !.count = IF ok THEN @ + 1 ELSE @])

(* Mutant of Promise: an acceptor refuses a phase 1 at the ballot it has  *)
(* already promised (a strict comparison).                                 *)
PromiseStrict(others, t) ==
  LET a == t.pos
      i == t.req.inst
      b == FB(t.inc, t.req.bal)
      acc == AcceptedOf(a, i)
  IN  /\ UNCHANGED votes
      /\ IF promised[a][i] < b
           THEN /\ promised' = [promised EXCEPT ![a][i] = b]
                /\ Forward(others, [t EXCEPT !.count = @ + 1,
                                     !.ab = IF acc[1] > @ THEN acc[1] ELSE @,
                                     !.ak = IF acc[1] > t.ab THEN acc[2] ELSE @])
           ELSE /\ UNCHANGED promised
                /\ Forward(others, [t EXCEPT !.hp = LD!MaxOf(@, promised[a][i])])

(* phase1: promise and report the highest accepted ballot and key, or     *)
(* refuse and report the higher promised ballot.                           *)
Promise(others, t) ==
  LET a == t.pos
      i == t.req.inst
      b == FB(t.inc, t.req.bal)
      acc == AcceptedOf(a, i)
  IN  /\ UNCHANGED votes
      /\ IF promised[a][i] <= b
           THEN /\ promised' = [promised EXCEPT ![a][i] = b]
                /\ Forward(others, [t EXCEPT !.count = @ + 1,
                                     !.ab = IF acc[1] > @ THEN acc[1] ELSE @,
                                     !.ak = IF acc[1] > t.ab THEN acc[2] ELSE @])
           ELSE /\ UNCHANGED promised
                /\ Forward(others, [t EXCEPT !.hp = LD!MaxOf(@, promised[a][i])])

(* phase2: accept the key unless promised to a higher ballot. *)
Accept(others, t) ==
  LET a == t.pos
      i == t.req.inst
      b == FB(t.inc, t.req.bal)
  IN  IF promised[a][i] <= b
        THEN /\ promised' = [promised EXCEPT ![a][i] = b]
             /\ votes' = votes \cup {<<a, i, b, t.req.key>>}
             /\ Forward(others, [t EXCEPT !.count = @ + 1])
        ELSE /\ UNCHANGED <<promised, votes>>
             /\ Forward(others, t)

Visit(others, t) ==
  /\ CASE t.req.type = "phase1_range" -> RangePromise(others, t)
       [] t.req.type = "phase1"       -> Promise(others, t)
       [] t.req.type = "phase2"       -> Accept(others, t)
  /\ UNCHANGED <<status, ballot, assigned, timeout, p1_ready_count,
                 p1_highest_open, highest_open_iid, highest_closed_iid, cvm,
                 submitted, mcast, incarnation>>

(* The first acceptor receives a request from the leader. *)
FirstAcceptor(m) ==
  /\ m \in ring
  /\ ring' = ring \ {m}
  /\ Visit(transit, Entering(m))

(* The next acceptor receives a request from its predecessor. *)
AcceptorStep(t) ==
  /\ t \in transit
  /\ UNCHANGED ring
  /\ Visit(transit \ {t}, t)

(* UDP loses a request between two acceptors. *)
LoseTransit(t) ==
  /\ t \in transit
  /\ transit' = transit \ {t}
  /\ UNCHANGED <<leader_vars, incarnation, promised, votes>>

-----------------------------------------------------------------------------
(***************************************************************************)
(* The leader's reply handlers, with the incarnation check.               *)
(***************************************************************************)
ext_vars == <<incarnation, promised, votes, transit>>

(* A reply the leader discards. *)
Drop(r) ==
  /\ replies' = replies \ {r}
  /\ UNCHANGED <<status, ballot, assigned, timeout, p1_ready_count,
                 p1_highest_open, highest_open_iid, highest_closed_iid, cvm,
                 submitted, ring, mcast>>

(* Mutant of HandlePhase1Range: the range is done whatever the count of    *)
(* promises.                                                               *)
HandlePhase1RangeNoQuorum(r) ==
  /\ r \in replies
  /\ r.req.type = "phase1_range"
  /\ IF r.inc = incarnation
       THEN LET R == r.req.inst..r.req.to
            IN  /\ replies' = replies \ {r}
                /\ LD!Commit([LD!P1Completed(LD!L0, Cardinality(R)) EXCEPT
                      !.status = [i \in Inst |-> IF i \in R THEN "p1_done" ELSE @[i]]])
                /\ UNCHANGED submitted
       ELSE Drop(r)
  /\ UNCHANGED ext_vars

(* mcaster_handle_phase1_range_msg: a reply for another incarnation's      *)
(* ballot is discarded (is_my_ballot); otherwise as in module Leader.      *)
HandlePhase1Range(r) ==
  /\ r \in replies
  /\ r.req.type = "phase1_range"
  /\ IF r.inc = incarnation THEN LD!HandlePhase1Range(r) ELSE Drop(r)
  /\ UNCHANGED ext_vars

(* The end of a successful phase 1 of an instance: one without a value     *)
(* stays p1_done for later, whatever the acceptors reported accepted; one  *)
(* with a value goes on to phase 2 with it when nothing or its own key was *)
(* reported accepted, and otherwise with the reported key.                 *)
AfterPhase1(L, i, r) ==
  IF L.assigned[i] = NoKey THEN L
  ELSE IF r.ab = 0 \/ r.ak = L.assigned[i] THEN LD!DoPhase2(L, i)
  ELSE LD!DoPhase2([L EXCEPT !.assigned[i] = r.ak], i)

(* mcaster_handle_phase1_msg: discard a reply for a closed instance, for   *)
(* another incarnation's ballot, for an instance not p1_pending or for an  *)
(* older round; on too few promises raise the round above a reported      *)
(* promise and retry; on success the instance is p1_done (AfterPhase1).    *)
HandlePhase1(r) ==
  LET m == r.req
      i == m.inst
      live == /\ i > highest_closed_iid
              /\ r.inc = incarnation
              /\ status[i] = "p1_pending"
              /\ ballot[i] = m.bal
  IN
  /\ r \in replies
  /\ m.type = "phase1"
  /\ \/ ~live /\ Drop(r)
     \/ /\ live
        /\ ~r.ok
        /\ replies' = replies \ {r}
        /\ LD!Commit(LD!DoPhase1(IF r.hp # 0
                                   THEN [LD!L0 EXCEPT !.ballot[i] = LD!RaiseBallot(@, RoundOf(r.hp))]
                                   ELSE LD!L0, i))
        /\ UNCHANGED submitted
     \/ /\ live
        /\ r.ok
        /\ replies' = replies \ {r}
        /\ LD!Commit(AfterPhase1([LD!P1Completed(LD!L0, 1) EXCEPT !.status[i] = "p1_done"], i, r))
        /\ UNCHANGED submitted
  /\ UNCHANGED ext_vars

(* Mutant of HandlePhase2: the ballot is compared by round only, not by   *)
(* incarnation.                                                            *)
HandlePhase2RoundOnly(r) ==
  /\ r \in replies
  /\ r.req.type = "phase2"
  /\ LD!HandlePhase2(r)
  /\ UNCHANGED ext_vars

(* mcaster_handle_phase2_msg: the instance's ballot (incarnation and       *)
(* round) must match the reply's; otherwise as in module Leader.           *)
HandlePhase2(r) ==
  /\ r \in replies
  /\ r.req.type = "phase2"
  /\ IF r.inc = incarnation THEN LD!HandlePhase2(r) ELSE Drop(r)
  /\ UNCHANGED ext_vars

-----------------------------------------------------------------------------
(* The leader process crashes and is started again with the next          *)
(* incarnation: acceptor_init memsets the acceptor, multicaster_init       *)
(* creates a new client value queue and mcaster_storage.  Requests it has  *)
(* sent travel on; replies on their way to it are received by the new     *)
(* process.                                                                *)
Restart ==
  /\ incarnation < MaxInc
  /\ incarnation' = incarnation + 1
  /\ status' = [i \in Inst |-> "ready"]
  /\ ballot' = [i \in Inst |-> 0]
  /\ assigned' = [i \in Inst |-> NoKey]
  /\ timeout' = [i \in Inst |-> "unset"]
  /\ p1_ready_count' = 0
  /\ p1_highest_open' = 0
  /\ highest_open_iid' = 0
  /\ highest_closed_iid' = 0
  /\ cvm' = <<>>
  /\ ring' = {}
  /\ transit' = transit \cup {Entering(m) : m \in ring}
  /\ UNCHANGED <<submitted, replies, mcast, promised, votes>>

Init ==
  /\ LD!Init
  /\ incarnation = 1
  /\ promised = [a \in Acceptor |-> [i \in Inst |-> 0]]
  /\ votes = {}
  /\ transit = {}

Next ==
  \/ LD!PeriodicCheck /\ UNCHANGED ext_vars
  \/ \E r \in replies : HandlePhase1Range(r) \/ HandlePhase1(r) \/ HandlePhase2(r)
  \/ \E k \in Key : LD!HandleValueSubmit(k) /\ UNCHANGED ext_vars
  \/ \E m \in ring : FirstAcceptor(m) \/ (LD!LoseRingMsg(m) /\ UNCHANGED ext_vars)
  \/ \E t \in transit : AcceptorStep(t) \/ LoseTransit(t)
  \/ \E i \in Inst : LD!TimeoutExpires(i) /\ UNCHANGED ext_vars
  \/ Restart

Spec == Init /\ [][Next]_vars

-----------------------------------------------------------------------------
TypeOK ==
  /\ status \in [Inst -> LD!Status]
  /\ ballot \in [Inst -> 0..MaxBallot]
  /\ assigned \in [Inst -> Key \cup {NoKey}]
  /\ cvm \in Seq(Key)
  /\ incarnation \in 1..MaxInc
  /\ promised \in [Acceptor -> [Inst -> 0..(MaxInc * MaxBallot)]]
  /\ votes \subseteq Acceptor \X Inst \X FullBallot \X Key
  /\ transit \subseteq TransitMsg
  /\ ring \subseteq LD!RingMsg

(***************************************************************************)
(* The leader announces to the learners only what the acceptors chose:    *)
(* every acceptance multicast carries a key that a quorum of acceptors     *)
(* accepted at one ballot.  handle_phase2_msg must count the accepts of    *)
(* its own current ballot, not those of a request an earlier incarnation   *)
(* sent that comes back after the restart.                                 *)
(***************************************************************************)
AnnouncedIsChosen ==
  \A a \in mcast : a.type = "acc" => Chosen(a.inst, a.key)

(***************************************************************************)
(* Phase 2 follows a phase 1 of the same ballot: whenever an acceptor has  *)
(* accepted a key at a ballot, a quorum of acceptors has promised that     *)
(* ballot or a higher one.  The leader may start phase 2 of an instance   *)
(* only after a phase1_range or phase1 reply with a quorum of promises     *)
(* for the instance's current ballot.                                      *)
(***************************************************************************)
VotedBallotPromisedByQuorum ==
  \A v \in votes : Cardinality({x \in Acceptor : promised[x][v[2]] >= v[3]}) >= Quorum

(***************************************************************************)
(* Agreement (consensus safety): no instance is chosen with two different  *)
(* keys, across leader restarts.                                           *)
(***************************************************************************)
Agreement ==
  \A i \in Inst, k1, k2 \in Key : Chosen(i, k1) /\ Chosen(i, k2) => k1 = k2

-----------------------------------------------------------------------------
(***************************************************************************)
(* Module Leader abstracts the acceptors into RingPass: a request comes   *)
(* back with any outcome, a refusal only of a phase 1 and only with a     *)
(* higher round, and no reply reports an accepted value.  Seen through    *)
(* this mapping, the leader with the ring of acceptors is a Leader: a     *)
(* request of the running incarnation is in the abstract ring until the   *)
(* last acceptor returns it, and a reply of the running incarnation is    *)
(* the Leader reply it projects to.                                        *)
(***************************************************************************)
AbsRing == ring \cup {t.req : t \in {u \in transit : u.inc = incarnation}}
AbsReplies ==
  {[req |-> r.req, ok |-> r.ok, hp |-> IF r.hp = 0 THEN 0 ELSE RoundOf(r.hp)] :
     r \in {s \in replies : s.inc = incarnation}}

LA == INSTANCE Leader WITH ring <- AbsRing, replies <- AbsReplies

(***************************************************************************)
(* Until the leader restarts, every step of the leader and the acceptors  *)
(* is a step of module Leader or leaves its state alone, so what the      *)
(* Leader runs show with the abstract ring holds of the real one: the     *)
(* acceptors of mcaster_do_phase1 / do_phase2 requests report a refusal   *)
(* only for a phase 1 and never an accepted value the leader would have   *)
(* to adopt (handle_phase1_msg, line 400).                                 *)
(***************************************************************************)
ImplementsLeader ==
  LA!Init /\ [][incarnation' = 1 => [LA!Next]_(LA!vars)]_vars

=============================================================================

----------------------------- MODULE SynchProofs -----------------------------
(***************************************************************************)
(* For every net, every automaton and every set of propositions: what      *)
(* SYNCH builds keeps the automaton in one state and lets the automaton    *)
(* and the visible transitions of the net take turns.                      *)
(***************************************************************************)
EXTENDS Synch, SequenceTheorems, TLAPS

\* Every state passed by the first loop of ba2cpn has a place.
Placed ==
  /\ \A v \in DOMAIN inst.vertics :
       inst.vertics[v].alive /\ (phase = "places" => v < next) =>
         \E k \in DOMAIN qstate : qstate[k] = v
  /\ phase = "places" /\ next = 1 => qstate = <<>>

\* From the first place on there is one token in the Q places.
OneToken == (phase = "places" /\ next = 1) \/ \E k \in DOMAIN qstate : In(k)

\* The scheduler places are filled last.
Scheduler == (phase = "run" /\ B + S = 1) \/ (phase # "run" /\ B = 0 /\ S = 0)

IInv == TypeOK /\ Placed /\ OneToken /\ Scheduler

\* Every instance is of its type.
LEMMA InstanceFacts ==
  ASSUME TypeOK
  PROVE  /\ inst \in InstanceType
         /\ inst.vertics \in Seq(BA_state)
         /\ inst.vertics # <<>> /\ inst.vertics[1].alive
         /\ Len(inst.vertics) \in Nat \ {0}
         /\ DOMAIN inst.vertics = 1 .. Len(inst.vertics)
         /\ inst.m0 \in Markings
BY InstancesAssumption, EmptySeq DEF TypeOK, IsAutomaton, InstanceType

\* Arcs lead to states that are there.
LEMMA ArcFacts ==
  ASSUME TypeOK, NEW v \in DOMAIN inst.vertics
  PROVE  /\ inst.vertics[v].arcs \in Seq(BA_delta)
         /\ inst.vertics[v].accepted \in BOOLEAN
         /\ \A k \in DOMAIN inst.vertics[v].arcs :
              /\ inst.vertics[v].arcs[k].dest \in DOMAIN inst.vertics
              /\ inst.vertics[inst.vertics[v].arcs[k].dest].alive
              /\ inst.vertics[v].arcs[k].preds \in SUBSET Propositions
<1>1. inst \in Instances
  BY DEF TypeOK
<1>2. inst.vertics \in Seq(BA_state) /\ IsAutomaton(inst.vertics)
  BY <1>1, InstancesAssumption DEF InstanceType
<1>3. inst.vertics[v] \in BA_state
  BY <1>2, ElementOfSeq, LenProperties
<1>4. inst.vertics[v].arcs \in Seq(BA_delta) /\ inst.vertics[v].accepted \in BOOLEAN
  BY <1>3 DEF BA_state
<1>5. ASSUME NEW k \in DOMAIN inst.vertics[v].arcs
      PROVE  inst.vertics[v].arcs[k].preds \in SUBSET Propositions
  <2>1. inst.vertics[v].arcs[k] \in BA_delta
    BY <1>4, ElementOfSeq, LenProperties
  <2> QED BY <2>1 DEF BA_delta
<1> QED BY <1>2, <1>4, <1>5 DEF IsAutomaton

\* A marking stays one when a transition fires.
LEMMA FireMarking ==
  ASSUME TypeOK, NEW t \in Transitions
  PROVE  Fire(t) \in Markings
<1>1. m \in Markings /\ inst.post[t] \in PartialMarkings
  BY InstancesAssumption DEF TypeOK, InstanceType
<1>2. \A p \in DOMAIN inst.post[t] : inst.post[t][p] \in Colors
  BY <1>1 DEF PartialMarkings
<1> QED BY <1>1, <1>2 DEF Fire, Markings

LEMMA InitIInv == Init => IInv
<1> SUFFICES ASSUME Init PROVE IInv
  OBVIOUS
<1>1. inst \in InstanceType /\ inst.m0 \in Markings
  BY InstancesAssumption DEF Init, InstanceType
<1>2. TypeOK
  <2>1. qstate \in Seq(DOMAIN inst.vertics) /\ qtokens \in Seq(Nat) /\ Len(qtokens) = Len(qstate)
    BY DEF Init
  <2>2. batrans \in Seq(BATransition) /\ DOMAIN batrans = {}
    BY DEF Init
  <2>3. /\ inst \in Instances /\ phase \in {"places", "arcs", "observe", "run", "exit"}
        /\ next \in Nat \ {0} /\ m \in Markings
    BY <1>1 DEF Init
  <2>6. is_accept \in BOOLEAN
    BY Zenon DEF Init
  <2>4. copies \subseteq Transitions /\ visible \subseteq Transitions /\ B \in Nat /\ S \in Nat
    BY DEF Init
  <2>5. \A k \in DOMAIN batrans : {batrans[k].source, batrans[k].target} \subseteq DOMAIN qstate
    BY <2>2
  <2> QED BY <2>1, <2>2, <2>3, <2>4, <2>5, <2>6 DEF TypeOK
<1>3. Placed
  <2>1. DOMAIN inst.vertics = 1 .. Len(inst.vertics)
    BY <1>2, InstanceFacts
  <2> QED BY <2>1 DEF Init, Placed
<1> QED BY <1>2, <1>3 DEF Init, IInv, OneToken, Scheduler

\* A place for a state: the token goes to the first.
LEMMA AddPlaceIInv == ASSUME IInv, AddPlace PROVE IInv'
<1>a. TypeOK /\ Placed /\ OneToken /\ Scheduler
  BY DEF IInv
<1>b. /\ next \in Nat \ {0} /\ next \in DOMAIN inst.vertics
      /\ DOMAIN inst.vertics = 1 .. Len(inst.vertics)
  BY <1>a, InstanceFacts DEF AddPlace, Building, TypeOK
<1>c. /\ qstate \in Seq(DOMAIN inst.vertics) /\ qtokens \in Seq(Nat)
      /\ Len(qtokens) = Len(qstate) /\ Len(qstate) \in Nat
      /\ DOMAIN qstate = 1 .. Len(qstate) /\ DOMAIN qtokens = 1 .. Len(qstate)
  BY <1>a DEF TypeOK
<1>d. PICK token \in {0, 1} : qtokens' = Append(qtokens, token) /\ (token = 1 <=> next = 1)
  BY DEF AddPlace
<1>e. /\ qstate' = Append(qstate, next) /\ next' = next + 1 /\ phase' = "places" /\ phase = "places"
      /\ UNCHANGED <<inst, batrans, copies, visible, B, S, m, is_accept>>
  BY DEF AddPlace, Building, synchvars, netvars
<1>f. /\ qstate' \in Seq(DOMAIN inst.vertics) /\ Len(qstate') = Len(qstate) + 1
      /\ DOMAIN qstate' = 1 .. Len(qstate) + 1
      /\ qstate'[Len(qstate) + 1] = next
      /\ \A k \in 1 .. Len(qstate) : qstate'[k] = qstate[k]
  BY <1>b, <1>c, <1>e
<1>g. /\ qtokens' \in Seq(Nat) /\ Len(qtokens') = Len(qstate) + 1
      /\ qtokens'[Len(qstate) + 1] = token
      /\ \A k \in 1 .. Len(qstate) : qtokens'[k] = qtokens[k]
  BY <1>c, <1>d
<1>1. TypeOK'
  <2>1. \A k \in DOMAIN batrans : {batrans[k].source, batrans[k].target} \subseteq DOMAIN qstate'
    BY <1>a, <1>c, <1>f DEF TypeOK
  <2>2. next' \in Nat \ {0}
    BY <1>b, <1>e
  <2> QED BY <2>1, <2>2, <1>a, <1>e, <1>f, <1>g DEF TypeOK
<1>2. Placed'
  <2>1. ASSUME NEW v \in DOMAIN inst.vertics, inst.vertics[v].alive, v < next'
        PROVE  \E k \in DOMAIN qstate' : qstate'[k] = v
    <3>1. CASE v = next
      BY <3>1, <1>c, <1>f
    <3>2. CASE v < next
      BY <3>2, <2>1, <1>a, <1>c, <1>e, <1>f DEF Placed
    <3> QED BY <3>1, <3>2, <2>1, <1>b, <1>e
  <2>2. next' # 1
    BY <1>b, <1>e
  <2> QED BY <2>1, <2>2, <1>e DEF Placed
<1>3. OneToken'
  <2>1. CASE next = 1
    <3>1. Len(qstate) = 0
      BY <2>1, <1>a, <1>e DEF Placed
    <3>2. In(1)'
      BY <3>1, <2>1, <1>d, <1>f, <1>g DEF In
    <3> QED BY <3>1, <3>2, <1>f DEF OneToken
  <2>2. CASE next # 1
    <3>1. PICK k \in DOMAIN qstate : In(k)
      BY <2>2, <1>a DEF OneToken
    <3>2. In(k)'
      BY <3>1, <2>2, <1>c, <1>d, <1>f, <1>g DEF In
    <3> QED BY <3>1, <3>2, <1>c, <1>f DEF OneToken
  <2> QED BY <2>1, <2>2
<1>4. Scheduler'
  BY <1>a, <1>e DEF Scheduler
<1> QED BY <1>1, <1>2, <1>3, <1>4 DEF IInv

\* The transitions of a state lead to places that are there.
LEMMA AddArcsIInv == ASSUME IInv, AddArcs PROVE IInv'
<1>a. TypeOK /\ Placed /\ OneToken /\ Scheduler
  BY DEF IInv
<1>b. /\ next \in Nat \ {0} /\ next \in DOMAIN inst.vertics
      /\ DOMAIN inst.vertics = 1 .. Len(inst.vertics)
  BY <1>a, InstanceFacts DEF AddArcs, Building, TypeOK
<1>c. /\ phase = "arcs" /\ phase' = "arcs" /\ next' = next + 1
      /\ batrans' = batrans \o
           [k \in DOMAIN Arcs |-> Transition(next, PlaceOf(Arcs[k].dest), Arcs[k].preds)]
      /\ UNCHANGED <<inst, qstate, qtokens, copies, visible, B, S, m, is_accept>>
  BY DEF AddArcs, Building, synchvars, netvars
<1>d. Arcs \in Seq(BA_delta) /\ DOMAIN Arcs = 1 .. Len(Arcs) /\ Len(Arcs) \in Nat
  BY <1>a, <1>b, ArcFacts DEF Arcs
<1>1. ASSUME NEW k \in DOMAIN Arcs
      PROVE  /\ PlaceOf(Arcs[k].dest) \in DOMAIN qstate
             /\ next \in DOMAIN qstate
             /\ Arcs[k].preds \in SUBSET Propositions
  <2>1. /\ Arcs[k].dest \in DOMAIN inst.vertics /\ inst.vertics[Arcs[k].dest].alive
        /\ Arcs[k].preds \in SUBSET Propositions
    BY <1>a, <1>b, ArcFacts DEF Arcs
  <2>2. \E l \in DOMAIN qstate : qstate[l] = Arcs[k].dest
    BY <2>1, <1>a, <1>c DEF Placed
  <2>3. next \in DOMAIN qstate
    BY <1>d DEF AddArcs
  <2> QED BY <2>1, <2>2, <2>3 DEF PlaceOf
<1>2. DOMAIN qstate \subseteq Nat \ {0}
  BY <1>a DEF TypeOK
<1> DEFINE new == [k \in DOMAIN Arcs |-> Transition(next, PlaceOf(Arcs[k].dest), Arcs[k].preds)]
<1>3. new \in Seq(BATransition) /\ Len(new) = Len(Arcs)
  BY <1>1, <1>2, <1>d DEF Transition, BATransition
<1>4. batrans \in Seq(BATransition) /\ batrans' = batrans \o new
  BY <1>a, <1>c DEF TypeOK
<1>5. \A k \in DOMAIN new : {new[k].source, new[k].target} \subseteq DOMAIN qstate
  BY <1>1 DEF Transition
<1>6. \A k \in DOMAIN batrans : {batrans[k].source, batrans[k].target} \subseteq DOMAIN qstate
  BY <1>a DEF TypeOK
<1> HIDE DEF new
<1>7. batrans' \in Seq(BATransition)
      /\ \A k \in DOMAIN batrans' : {batrans'[k].source, batrans'[k].target} \subseteq DOMAIN qstate
  <2>1. /\ batrans' \in Seq(BATransition) /\ DOMAIN batrans' = 1 .. Len(batrans) + Len(new)
        /\ Len(batrans) \in Nat /\ Len(new) \in Nat
        /\ DOMAIN batrans = 1 .. Len(batrans) /\ DOMAIN new = 1 .. Len(new)
        /\ \A k \in 1 .. Len(batrans) + Len(new) :
             batrans'[k] = IF k <= Len(batrans) THEN batrans[k] ELSE new[k - Len(batrans)]
    <3>1. /\ DOMAIN batrans = 1 .. Len(batrans) /\ DOMAIN new = 1 .. Len(new)
          /\ Len(batrans) \in Nat /\ Len(new) \in Nat
      BY <1>3, <1>4
    <3>2. /\ batrans \o new \in Seq(BATransition)
          /\ Len(batrans \o new) = Len(batrans) + Len(new)
          /\ \A k \in 1 .. Len(batrans) + Len(new) :
               (batrans \o new)[k] = IF k <= Len(batrans) THEN batrans[k] ELSE new[k - Len(batrans)]
      BY <1>3, <1>4, ConcatProperties
    <3> QED BY <3>1, <3>2, <1>4, LenProperties
  <2>2. ASSUME NEW k \in DOMAIN batrans'
        PROVE  {batrans'[k].source, batrans'[k].target} \subseteq DOMAIN qstate
    <3>1. CASE k <= Len(batrans)
      BY <3>1, <2>1, <1>6
    <3>2. CASE k > Len(batrans)
      <4>1. k - Len(batrans) \in DOMAIN new
        BY <3>2, <2>1
      <4> QED BY <3>2, <4>1, <2>1, <1>5
    <3> QED BY <3>1, <3>2, <2>1
  <2> QED BY <2>1, <2>2
<1>8. TypeOK'
  <2>1. next' \in Nat \ {0}
    BY <1>b, <1>c
  <2> QED BY <2>1, <1>7, <1>a, <1>c DEF TypeOK
<1> QED BY <1>8, <1>a, <1>c DEF IInv, Placed, OneToken, In, Scheduler

\* An automaton transition moves the one token of the Q places and passes the
\* one token of the scheduler.
LEMMA FireAutomatonIInv ==
  ASSUME NEW k \in DOMAIN batrans, IInv, FireAutomaton(k)
  PROVE  IInv'
<1>a. TypeOK /\ Placed /\ OneToken /\ Scheduler
  BY DEF IInv
<1>b. PICK s, t \in DOMAIN qstate : s = batrans[k].source /\ t = batrans[k].target
  BY <1>a DEF TypeOK
<1>c. /\ phase = "run" /\ qtokens[s] > 0 /\ B > 0
      /\ qtokens' = Moved(qtokens, s, t) /\ B' = B - 1 /\ S' = S + 1
      /\ is_accept' = inst.vertics[qstate[t]].accepted
      /\ UNCHANGED <<inst, phase, next, qstate, batrans, copies, visible, m>>
  BY <1>b DEF FireAutomaton, synchvars
<1>d. PICK o \in DOMAIN qstate : In(o)
  BY <1>a, <1>c DEF OneToken
<1>e. /\ DOMAIN qstate = 1 .. Len(qstate) /\ qtokens \in Seq(Nat) /\ Len(qtokens) = Len(qstate)
      /\ Len(qstate) \in Nat /\ B \in Nat /\ S \in Nat
      /\ qtokens \in [1 .. Len(qstate) -> Nat] /\ qstate[t] \in DOMAIN inst.vertics
  BY <1>a DEF TypeOK
<1>f. s = o /\ qtokens[s] = 1
  BY <1>c, <1>d DEF In
<1>g. DOMAIN qtokens' = 1 .. Len(qstate)
      /\ \A l \in 1 .. Len(qstate) : qtokens'[l] = IF l = t THEN 1 ELSE 0
  <2> DEFINE taken == [qtokens EXCEPT ![s] = @ - 1]
  <2>1. taken \in [1 .. Len(qstate) -> Nat] /\ \A l \in 1 .. Len(qstate) : taken[l] = 0
    BY <1>d, <1>e, <1>f DEF In
  <2>2. qtokens' = [taken EXCEPT ![t] = @ + 1]
    BY <1>c DEF Moved
  <2> HIDE DEF taken
  <2> QED BY <2>1, <2>2, <1>e
<1>h. qtokens' \in Seq(Nat) /\ Len(qtokens') = Len(qstate)
  <2>1. qtokens' = [l \in 1 .. Len(qstate) |-> IF l = t THEN 1 ELSE 0]
    <3>1. qtokens' = [l \in DOMAIN qtokens' |-> qtokens'[l]]
      BY <1>c DEF Moved
    <3> QED BY <3>1, <1>g
  <2> QED BY <2>1, <1>e
<1>1. TypeOK'
  <2>1. is_accept' \in BOOLEAN
    BY <1>a, <1>c, <1>e, ArcFacts
  <2>2. B' \in Nat /\ S' \in Nat
    BY <1>c, <1>e
  <2> QED BY <2>1, <2>2, <1>a, <1>c, <1>h DEF TypeOK
<1>2. OneToken'
  BY <1>b, <1>c, <1>e, <1>g DEF OneToken, In
<1>3. Scheduler'
  BY <1>a, <1>c, <1>e DEF Scheduler
<1>4. Placed'
  BY <1>a, <1>c DEF Placed
<1> QED BY <1>1, <1>2, <1>3, <1>4 DEF IInv

\* A transition of the net leaves the automaton alone.
LEMMA FireNetIInv ==
  ASSUME NEW t \in Transitions, IInv, FireVisible(t) \/ FireInvisible(t)
  PROVE  IInv'
<1>a. TypeOK /\ Placed /\ OneToken /\ Scheduler
  BY DEF IInv
<1>b. /\ m' \in Markings /\ phase = "run"
      /\ UNCHANGED <<inst, phase, next, qstate, qtokens, batrans, copies, visible, is_accept>>
  BY <1>a, FireMarking DEF FireVisible, FireInvisible, synchvars
<1>c. B' \in Nat /\ S' \in Nat /\ B' + S' = B + S
  <2>1. B \in Nat /\ S \in Nat
    BY <1>a DEF TypeOK
  <2>2. CASE FireVisible(t)
    <3>1. S > 0 /\ S' = S - 1 /\ B' = B + 1
      BY <2>2 DEF FireVisible
    <3> QED BY <2>1, <3>1
  <2>3. CASE FireInvisible(t)
    <3>1. S' = S /\ B' = B
      BY <2>3 DEF FireInvisible
    <3> QED BY <2>1, <3>1
  <2> QED BY <2>2, <2>3
<1>1. TypeOK'
  BY <1>a, <1>b, <1>c DEF TypeOK
<1>2. Scheduler'
  BY <1>a, <1>b, <1>c DEF Scheduler
<1> QED BY <1>1, <1>2, <1>a, <1>b DEF IInv, Placed, OneToken, In

\* The other steps of the construction.
LEMMA BuildIInv == ASSUME IInv, Build PROVE IInv'
<1>a. TypeOK /\ Placed /\ OneToken /\ Scheduler
  BY DEF IInv
<1>b. /\ DOMAIN inst.vertics = 1 .. Len(inst.vertics) /\ Len(inst.vertics) \in Nat \ {0}
      /\ next \in Nat \ {0} /\ inst.vertics[1].alive
  BY <1>a, InstanceFacts DEF TypeOK
<1>1. CASE AddPlace
  BY <1>1, AddPlaceIInv
<1>2. CASE AddArcs
  BY <1>2, AddArcsIInv
<1>3. CASE SkipState
  <2>1. /\ phase = "places" /\ phase' = phase /\ next' = next + 1 /\ ~inst.vertics[next].alive
        /\ UNCHANGED <<inst, qstate, qtokens, batrans, copies, visible, B, S, m, is_accept>>
    BY <1>3 DEF SkipState, Building, synchvars, netvars
  <2>2. TypeOK'
    BY <2>1, <1>a, <1>b DEF TypeOK
  <2>3. next # 1
    BY <2>1, <1>b
  <2>4. Placed'
    <3>1. \A v \in DOMAIN inst.vertics : inst.vertics[v].alive /\ v < next + 1 => v < next
      BY <2>1, <1>b
    <3> QED BY <3>1, <2>1, <2>3, <1>a, <1>b DEF Placed
  <2> QED BY <2>1, <2>2, <2>3, <2>4, <1>a DEF IInv, OneToken, In, Scheduler
<1>4. CASE PlacesDone
  <2>1. /\ phase = "places" /\ phase' = "arcs" /\ next' = 1 /\ next \notin 1 .. Len(inst.vertics)
        /\ UNCHANGED <<inst, qstate, qtokens, batrans, copies, visible, B, S, m, is_accept>>
    BY <1>4 DEF PlacesDone, Built, synchvars, netvars
  <2>2. TypeOK'
    BY <2>1, <1>a DEF TypeOK
  <2>3. next # 1 /\ \A v \in DOMAIN inst.vertics : v < next
    BY <2>1, <1>b
  <2> QED BY <2>1, <2>2, <2>3, <1>a DEF IInv, Placed, OneToken, In, Scheduler
<1>5. CASE SkipArcs \/ NoSourcePlace \/ ArcsDone
  <2>1. /\ phase = "arcs" /\ phase' \in {"arcs", "exit", "observe"} /\ next' \in {next, next + 1, 1}
        /\ UNCHANGED <<inst, qstate, qtokens, batrans, copies, visible, B, S, m, is_accept>>
    BY <1>5 DEF SkipArcs, NoSourcePlace, ArcsDone, Building, Built, synchvars, netvars
  <2>2. TypeOK'
    BY <2>1, <1>a, <1>b DEF TypeOK
  <2> QED BY <2>1, <2>2, <1>a DEF IInv, Placed, OneToken, In, Scheduler
<1>6. CASE Observe \/ NotUnique
  <2>1. /\ phase = "observe" /\ phase' \in {"observe", "exit"} /\ next' \in {next, next + 1}
        /\ UNCHANGED <<inst, qstate, qtokens, batrans, B, S, m, is_accept>>
    BY <1>6 DEF Observe, NotUnique, Building, synchvars, netvars
  <2>2. copies' \subseteq Transitions /\ visible' \subseteq Transitions
    <3>1. CASE NotUnique
      BY <3>1, <1>a DEF NotUnique, synchvars, TypeOK
    <3>2. CASE Observe
      <4>1. next \in DOMAIN batrans /\ batrans[next] \in BATransition
        BY <3>2, <1>a, <1>b, ElementOfSeq, LenProperties DEF Observe, Building, TypeOK
      <4>2. \A a \in Guard(next) : a.kind = "LTLF" => a.obs \subseteq Transitions
        BY <4>1, PropositionsAssumption DEF Guard, BATransition, IsProposition
      <4>3. ObservedT(next) \subseteq Transitions
        BY <4>2 DEF ObservedT
      <4> QED BY <3>2, <4>3, <1>a DEF Observe, TypeOK
    <3> QED BY <1>6, <3>1, <3>2
  <2>3. TypeOK'
    BY <2>1, <2>2, <1>a, <1>b DEF TypeOK
  <2> QED BY <2>1, <2>3, <1>a DEF IInv, Placed, OneToken, In, Scheduler
<1>7. CASE AddScheduler
  <2>1. /\ phase = "observe" /\ phase' = "run" /\ B' = 1 /\ S' = S
        /\ UNCHANGED <<inst, next, qstate, qtokens, batrans, copies, visible, m, is_accept>>
    BY <1>7 DEF AddScheduler, Built, synchvars
  <2>2. TypeOK'
    BY <2>1, <1>a DEF TypeOK
  <2> QED BY <2>1, <2>2, <1>a DEF IInv, Placed, OneToken, In, Scheduler
<1> QED BY <1>1, <1>2, <1>3, <1>4, <1>5, <1>6, <1>7 DEF Build

LEMMA NextIInv == IInv /\ [Next]_vars => IInv'
<1> SUFFICES ASSUME IInv, [Next]_vars PROVE IInv'
  OBVIOUS
<1>1. CASE Build
  BY <1>1, BuildIInv
<1>2. CASE \E k \in DOMAIN batrans : FireAutomaton(k)
  BY <1>2, FireAutomatonIInv
<1>3. CASE \E t \in Transitions : FireVisible(t) \/ FireInvisible(t)
  BY <1>3, FireNetIInv
<1>4. CASE UNCHANGED vars
  BY <1>4 DEF vars, synchvars, netvars, IInv, TypeOK, Placed, OneToken, In, Scheduler
<1> QED BY <1>1, <1>2, <1>3, <1>4 DEF Next

LEMMA Invariance == Spec => []IInv
BY InitIInv, NextIInv, PTL DEF Spec

\* The variables keep their types; every transition built has its places.
THEOREM SynchTypeCorrect == Spec => []TypeOK
<1>1. IInv => TypeOK
  BY DEF IInv
<1> QED BY <1>1, Invariance, PTL

\* While the net runs the automaton is in exactly one state.
THEOREM AutomatonInOneState == Spec => []OneState
<1>1. IInv => OneState
  BY DEF IInv, OneState, OneToken
<1> QED BY <1>1, Invariance, PTL

\* While the net runs, the automaton and the visible transitions take turns.
THEOREM TakeTurns == Spec => []Scheduled
<1>1. IInv => Scheduled
  BY DEF IInv, Scheduled, Scheduler
<1> QED BY <1>1, Invariance, PTL
-----------------------------------------------------------------------------
(***************************************************************************)
(* What the first loop of synch leaves behind: the transitions at a place  *)
(* that some automaton transition observes are visible, and no others.     *)
(***************************************************************************)
Passed(k) == phase = "run" \/ (phase = "observe" /\ k < next)

Noticed(k) == {t \in Transitions : Adjacent(t) \cap ObservedP(k) # {}}

VisibleAsObserved ==
  /\ \A k \in DOMAIN batrans : Passed(k) => ObservedT(k) \subseteq copies /\ Noticed(k) \subseteq visible
  /\ visible \subseteq UNION {Noticed(k) : k \in DOMAIN batrans}
  /\ phase \in {"places", "arcs"} => visible = {}

\* What is observed depends on the instance and the automaton transitions only.
LEMMA ObservedStays ==
  ASSUME inst' = inst, batrans' = batrans
  PROVE  \A k : ObservedT(k)' = ObservedT(k) /\ ObservedP(k)' = ObservedP(k) /\ Noticed(k)' = Noticed(k)
BY DEF ObservedT, ObservedP, ObservedValues, Noticed, Adjacent, Guard

LEMMA NextVisibleAsObserved ==
  ASSUME IInv, VisibleAsObserved, [Next]_vars
  PROVE  VisibleAsObserved'
<1>a. TypeOK /\ next \in Nat \ {0} /\ batrans \in Seq(BATransition)
      /\ DOMAIN batrans = 1 .. Len(batrans) /\ Len(batrans) \in Nat
  BY DEF IInv, TypeOK
<1>1. CASE SkipState \/ AddPlace \/ PlacesDone \/ SkipArcs \/ AddArcs \/ NoSourcePlace
  <2>1. phase \in {"places", "arcs"} /\ phase' \in {"places", "arcs", "exit"} /\ visible' = visible
    BY <1>1 DEF SkipState, AddPlace, PlacesDone, SkipArcs, AddArcs, NoSourcePlace,
                Building, Built, synchvars
  <2> QED BY <2>1 DEF VisibleAsObserved, Passed
<1>2. CASE ArcsDone
  <2>1. phase = "arcs" /\ phase' = "observe" /\ next' = 1 /\ visible' = visible /\ batrans' = batrans
    BY <1>2 DEF ArcsDone, Built, synchvars
  <2>2. \A k \in DOMAIN batrans : ~(k < 1)
    BY <1>a
  <2> QED BY <2>1, <2>2 DEF VisibleAsObserved, Passed
<1>3. CASE Observe
  <2>1. /\ phase = "observe" /\ phase' = "observe" /\ next' = next + 1 /\ next \in DOMAIN batrans
        /\ inst' = inst /\ batrans' = batrans
        /\ copies' = copies \cup ObservedT(next) /\ visible' = visible \cup Noticed(next)
    BY <1>3, <1>a DEF Observe, Building, netvars, Noticed
  <2>2. \A k \in DOMAIN batrans : Passed(k)' => Passed(k) \/ k = next
    BY <2>1, <1>a DEF Passed
  <2> QED BY <2>1, <2>2, ObservedStays DEF VisibleAsObserved
<1>4. CASE NotUnique
  <2>1. phase' = "exit" /\ inst' = inst /\ batrans' = batrans /\ visible' = visible
    BY <1>4 DEF NotUnique, synchvars
  <2> QED BY <2>1, ObservedStays DEF VisibleAsObserved, Passed
<1>5. CASE AddScheduler
  <2>1. /\ phase = "observe" /\ phase' = "run" /\ inst' = inst /\ batrans' = batrans
        /\ visible' = visible /\ copies' = copies /\ next \notin 1 .. Len(batrans)
    BY <1>5 DEF AddScheduler, Built, synchvars
  <2>2. \A k \in DOMAIN batrans : Passed(k)
    BY <2>1, <1>a DEF Passed
  <2> QED BY <2>1, <2>2, ObservedStays DEF VisibleAsObserved
<1>6. CASE \/ \E k \in DOMAIN batrans : FireAutomaton(k)
           \/ \E t \in Transitions : FireVisible(t) \/ FireInvisible(t)
           \/ UNCHANGED vars
  <2>1. UNCHANGED <<inst, phase, next, batrans, visible, copies>>
    BY <1>6 DEF FireAutomaton, FireVisible, FireInvisible, vars, synchvars
  <2> QED BY <2>1, ObservedStays DEF VisibleAsObserved, Passed
<1> QED BY <1>1, <1>2, <1>3, <1>4, <1>5, <1>6 DEF Next, Build

LEMMA VisibleIsObserved == Spec => [](IInv /\ VisibleAsObserved)
<1>1. Init => VisibleAsObserved
  BY DEF Init, VisibleAsObserved, Passed
<1>2. IInv /\ VisibleAsObserved /\ [Next]_vars => (IInv /\ VisibleAsObserved)'
  BY NextVisibleAsObserved, NextIInv
<1> QED BY <1>1, <1>2, InitIInv, PTL DEF Spec

\* Automaton transitions and propositions observe transitions and places.
LEMMA GuardFacts ==
  ASSUME TypeOK, NEW k \in DOMAIN batrans
  PROVE  /\ batrans[k] \in BATransition
         /\ \A a \in Guard(k) :
              \/ a.kind = "LTLF" /\ a.obs \subseteq Transitions /\ a.obs \subseteq ObservedT(k)
                 /\ \A t \in a.obs : DOMAIN inst.pre[t] \subseteq ObservedP(k)
              \/ a.kind = "LTLV" /\ a.obs \subseteq ObservedP(k)
         /\ ObservedP(k) \subseteq Places
<1>1. batrans[k] \in BATransition
  BY ElementOfSeq, LenProperties DEF TypeOK
<1>2. \A a \in Guard(k) : a.kind \in {"LTLF", "LTLV"} /\ IsProposition(a)
  BY <1>1, PropositionsAssumption DEF Guard, BATransition
<1>3. \A a \in Guard(k) : a.kind = "LTLF" => a.obs \subseteq Transitions /\ a.obs \subseteq ObservedT(k)
  BY <1>2 DEF IsProposition, ObservedT
<1>4. \A t \in ObservedT(k) : DOMAIN inst.pre[t] \subseteq ObservedP(k)
  BY DEF ObservedP
<1>5. \A a \in Guard(k) : a.kind = "LTLV" => a.obs \subseteq ObservedP(k) /\ a.obs \subseteq Places
  BY <1>2 DEF IsProposition, ObservedP, ObservedValues
<1>6. ObservedT(k) \subseteq Transitions
  BY <1>3 DEF ObservedT
<1>7. \A t \in Transitions : DOMAIN inst.pre[t] \subseteq Places
  BY InstancesAssumption DEF TypeOK, InstanceType, PartialMarkings
<1>8. ObservedValues(k) \subseteq Places
  BY <1>5 DEF ObservedValues
<1>9. ObservedP(k) \subseteq Places
  BY <1>6, <1>7, <1>8 DEF ObservedP
<1> QED BY <1>1, <1>2, <1>3, <1>4, <1>5, <1>9

\* A transition that is not visible leaves every place observed as it is.
LEMMA InvisibleStays ==
  ASSUME IInv, VisibleAsObserved,
         NEW t \in Transitions, FireInvisible(t), NEW k \in DOMAIN batrans
  PROVE  \A p \in ObservedP(k) : m'[p] = m[p]
<1>1. phase = "run" /\ t \notin visible /\ m' = Fire(t)
  BY DEF FireInvisible
<1>2. Adjacent(t) \cap ObservedP(k) = {}
  BY <1>1 DEF VisibleAsObserved, Passed, Noticed
<1>3. ObservedP(k) \subseteq Places
  BY GuardFacts DEF IInv
<1> QED BY <1>1, <1>2, <1>3 DEF Fire, Adjacent

\* Steps the scheduler leaves free change no proposition of the automaton, for
\* any net and automaton: what is read later is what would be read now.
THEOREM FreeMovesAreUnnoticed == Spec => FreeMovesUnnoticed
<1>1. ASSUME IInv, VisibleAsObserved, [Next]_vars
      PROVE  [phase = "run" /\ m' # m /\ <<B, S>>' = <<B, S>> =>
                \A k \in DOMAIN batrans : \A a \in Guard(k) :
                  \/ a.kind = "LTLF" /\ \A t \in a.obs : Enabled(t)' = Enabled(t)
                  \/ a.kind = "LTLV" /\ handleLTLV(a)' = handleLTLV(a)]_vars
  <2> SUFFICES ASSUME phase = "run", m' # m, B' = B, S' = S,
                      NEW k \in DOMAIN batrans, NEW a \in Guard(k)
               PROVE  \/ a.kind = "LTLF" /\ \A t \in a.obs : Enabled(t)' = Enabled(t)
                      \/ a.kind = "LTLV" /\ handleLTLV(a)' = handleLTLV(a)
    OBVIOUS
  <2>1. PICK u \in Transitions : FireInvisible(u)
    <3>1. ~Build
      BY DEF Build, SkipState, AddPlace, PlacesDone, SkipArcs, AddArcs, NoSourcePlace,
             ArcsDone, Observe, NotUnique, AddScheduler, Building, Built, netvars
    <3>2. \A l \in DOMAIN batrans : ~FireAutomaton(l)
      BY DEF FireAutomaton
    <3>3. \A t \in Transitions : ~FireVisible(t)
      BY <1>1 DEF FireVisible, IInv, TypeOK
    <3> QED BY <1>1, <3>1, <3>2, <3>3 DEF Next, vars
  <2>2. inst' = inst /\ \A p \in ObservedP(k) : m'[p] = m[p]
    BY <1>1, <2>1, InvisibleStays DEF FireInvisible
  <2>3. TypeOK
    BY <1>1 DEF IInv
  <2>4. CASE a.kind = "LTLF"
    <3>1. \A t \in a.obs : DOMAIN inst.pre[t] \subseteq ObservedP(k)
      BY <2>3, <2>4, GuardFacts
    <3>2. \A t \in a.obs : Enabled(t)' = Enabled(t)
      BY <2>2, <3>1 DEF Enabled
    <3> QED BY <2>4, <3>2
  <2>5. CASE a.kind = "LTLV"
    <3>1. a.obs \subseteq ObservedP(k)
      BY <2>3, <2>5, GuardFacts
    <3>2. handleLTLV(a)' = handleLTLV(a)
      BY <2>2, <3>1 DEF handleLTLV
    <3> QED BY <2>5, <3>2
  <2> QED BY <2>3, <2>4, <2>5, GuardFacts
<1> QED BY <1>1, VisibleIsObserved, PTL DEF Spec, FreeMovesUnnoticed
-----------------------------------------------------------------------------
(***************************************************************************)
(* The refinement of the synchronous product, for automata in whose array  *)
(* no living state comes after one that was merged away: behind such a     *)
(* hole ba2cpn takes the place of another state for the input place.       *)
(***************************************************************************)
NoHoles ==
  \A i \in Instances : \A v, w \in DOMAIN i.vertics :
    v < w /\ i.vertics[w].alive => i.vertics[v].alive

TransitionOf(v, k) ==
  Transition(v, inst.vertics[v].arcs[k].dest, inst.vertics[v].arcs[k].preds)

\* A place stands for the state of its number, the transitions built are those
\* of the arcs, and nothing has moved before the net runs.
ArcsKept ==
  /\ \A k \in DOMAIN qstate : qstate[k] = k
  /\ \A v \in DOMAIN inst.vertics :
       v \in DOMAIN qstate <=> inst.vertics[v].alive /\ (phase = "places" => v < next)
  /\ phase = "places" => batrans = <<>>
  /\ \A k \in DOMAIN batrans :
       \E j \in DOMAIN inst.vertics[batrans[k].source].arcs :
         batrans[k] = TransitionOf(batrans[k].source, j)
  /\ \A v \in DOMAIN inst.vertics :
       /\ inst.vertics[v].alive
       /\ phase \in {"observe", "run"} \/ (phase = "arcs" /\ v < next)
       => \A j \in DOMAIN inst.vertics[v].arcs :
            \E k \in DOMAIN batrans : batrans[k] = TransitionOf(v, j)
  /\ phase # "run" => m = inst.m0 /\ is_accept = FALSE /\ (qstate # <<>> => In(1))

LEMMA AddPlaceKeeps ==
  ASSUME NoHoles, IInv, ArcsKept, AddPlace
  PROVE  ArcsKept'
<1>a. TypeOK /\ inst \in Instances /\ next \in Nat \ {0} /\ DOMAIN inst.vertics = 1 .. Len(inst.vertics)
      /\ Len(inst.vertics) \in Nat \ {0}
  BY InstanceFacts DEF IInv, TypeOK
<1>b. /\ qstate \in Seq(DOMAIN inst.vertics) /\ qtokens \in Seq(Nat)
      /\ Len(qtokens) = Len(qstate) /\ Len(qstate) \in Nat
      /\ DOMAIN qstate = 1 .. Len(qstate) /\ DOMAIN qtokens = 1 .. Len(qstate)
  BY <1>a DEF TypeOK
<1>c. /\ phase = "places" /\ phase' = "places" /\ next' = next + 1
      /\ next \in DOMAIN inst.vertics /\ inst.vertics[next].alive
      /\ qstate' = Append(qstate, next)
      /\ UNCHANGED <<inst, batrans, m, is_accept>>
  BY <1>a DEF AddPlace, Building, netvars
<1>d. PICK token \in {0, 1} : qtokens' = Append(qtokens, token) /\ (token = 1 <=> next = 1)
  BY DEF AddPlace
<1>1. \A v \in DOMAIN inst.vertics : v < next => inst.vertics[v].alive
  BY <1>a, <1>c DEF NoHoles
<1>2. \A k \in 1 .. Len(qstate) : qstate[k] = k /\ k \in DOMAIN inst.vertics
  BY <1>b DEF ArcsKept
<1>3. Len(qstate) = next - 1
  <2>1. \A v \in DOMAIN inst.vertics : v \in 1 .. Len(qstate) <=> v < next
    BY <1>1, <1>b, <1>c DEF ArcsKept
  <2>2. Len(qstate) < next
    <3>1. CASE Len(qstate) = 0
      BY <3>1, <1>a
    <3>2. CASE Len(qstate) # 0
      <4>1. Len(qstate) \in 1 .. Len(qstate)
        BY <3>2, <1>b
      <4> QED BY <4>1, <2>1, <1>2
    <3> QED BY <3>1, <3>2
  <2>3. next - 1 <= Len(qstate)
    <3>1. CASE next = 1
      BY <3>1, <1>b
    <3>2. CASE next # 1
      <4>1. next - 1 \in DOMAIN inst.vertics /\ next - 1 < next
        BY <3>2, <1>a, <1>c
      <4> QED BY <4>1, <2>1
    <3> QED BY <3>1, <3>2
  <2> QED BY <2>2, <2>3, <1>a, <1>b
<1>4. /\ DOMAIN qstate' = 1 .. next
      /\ \A k \in 1 .. next : qstate'[k] = k
  BY <1>2, <1>3, <1>b, <1>c, <1>a
<1>5. In(1)'
  <2>1. CASE next = 1
    <3>1. DOMAIN qtokens' = 1 .. 1 /\ qtokens'[1] = 1
      BY <2>1, <1>3, <1>b, <1>d
    <3> QED BY <3>1, <2>1, <1>4 DEF In
  <2>2. CASE next # 1
    <3>1. qstate # <<>>
      BY <2>2, <1>a, <1>b, <1>3
    <3>2. In(1)
      BY <3>1, <1>c DEF ArcsKept
    <3>3. \A l \in 1 .. Len(qstate) : qtokens'[l] = qtokens[l]
      BY <1>b, <1>d
    <3>4. qtokens'[next] = 0
      BY <2>2, <1>3, <1>b, <1>d, <1>a
    <3> QED BY <2>2, <3>2, <3>3, <3>4, <1>3, <1>4, <1>b, <1>a DEF In
  <2> QED BY <2>1, <2>2
<1>6. \A v \in DOMAIN inst.vertics :
        v \in DOMAIN qstate' <=> inst.vertics[v].alive /\ v < next + 1
  BY <1>1, <1>4, <1>a, <1>c
<1>7. batrans' = <<>> /\ DOMAIN batrans' = {}
  BY <1>c DEF ArcsKept
<1> QED BY <1>4, <1>5, <1>6, <1>7, <1>c DEF ArcsKept

LEMMA AddArcsKeeps ==
  ASSUME IInv, ArcsKept, AddArcs
  PROVE  ArcsKept'
<1>a. TypeOK /\ inst \in Instances /\ next \in Nat \ {0} /\ DOMAIN inst.vertics = 1 .. Len(inst.vertics)
      /\ Len(inst.vertics) \in Nat \ {0}
  BY InstanceFacts DEF IInv, TypeOK
<1>b. /\ phase = "arcs" /\ phase' = "arcs" /\ next' = next + 1
      /\ next \in DOMAIN inst.vertics /\ inst.vertics[next].alive
      /\ batrans' = batrans \o
           [k \in DOMAIN Arcs |-> Transition(next, PlaceOf(Arcs[k].dest), Arcs[k].preds)]
      /\ UNCHANGED <<inst, qstate, qtokens, m, is_accept>>
  BY <1>a DEF AddArcs, Building, netvars
<1>c. Arcs = inst.vertics[next].arcs /\ Arcs \in Seq(BA_delta)
      /\ \A k \in DOMAIN Arcs : Arcs[k].dest \in DOMAIN inst.vertics
                                /\ inst.vertics[Arcs[k].dest].alive
  BY <1>a, <1>b, ArcFacts DEF Arcs
<1> DEFINE new == [k \in DOMAIN Arcs |-> TransitionOf(next, k)]
<1>1. \A k \in DOMAIN Arcs : PlaceOf(Arcs[k].dest) = Arcs[k].dest
  <2>1. \A v \in DOMAIN qstate : PlaceOf(v) = v
    BY DEF ArcsKept, PlaceOf
  <2> QED BY <2>1, <1>b, <1>c DEF ArcsKept
<1>2. batrans' = batrans \o new
  BY <1>1, <1>b, <1>c DEF TransitionOf
<1> DEFINE U == BATransition \cup {TransitionOf(next, k) : k \in DOMAIN Arcs}
<1>3. /\ batrans \in Seq(U) /\ Len(batrans) \in Nat /\ DOMAIN batrans = 1 .. Len(batrans)
      /\ new \in Seq(U) /\ Len(new) = Len(Arcs) /\ Len(Arcs) \in Nat /\ DOMAIN new = DOMAIN Arcs
      /\ DOMAIN Arcs = 1 .. Len(Arcs)
      /\ \A k \in DOMAIN Arcs : new[k] = TransitionOf(next, k)
  <2>1. batrans \in Seq(BATransition)
    BY <1>a DEF TypeOK
  <2>2. Len(Arcs) \in Nat /\ DOMAIN Arcs = 1 .. Len(Arcs)
    BY <1>c
  <2>3. \A k \in DOMAIN Arcs : new[k] = TransitionOf(next, k) /\ new[k] \in U
    OBVIOUS
  <2>4. DOMAIN new = DOMAIN Arcs /\ new = [k \in DOMAIN Arcs |-> new[k]]
    OBVIOUS
  <2>5. BATransition \subseteq U
    OBVIOUS
  <2> HIDE DEF new, U
  <2>6. batrans \in Seq(U) /\ Len(batrans) \in Nat /\ DOMAIN batrans = 1 .. Len(batrans)
    BY <2>1, <2>5
  <2>7. new \in Seq(U) /\ Len(new) = Len(Arcs)
    BY <2>2, <2>3, <2>4
  <2> QED BY <2>2, <2>3, <2>4, <2>6, <2>7
<1> HIDE DEF new, U
<1>4. /\ DOMAIN batrans' = 1 .. Len(batrans) + Len(new)
      /\ \A k \in 1 .. Len(batrans) + Len(new) :
           batrans'[k] = IF k <= Len(batrans) THEN batrans[k] ELSE new[k - Len(batrans)]
  <2>2. /\ batrans \o new \in Seq(U)
        /\ Len(batrans \o new) = Len(batrans) + Len(new)
        /\ \A k \in 1 .. Len(batrans) + Len(new) :
             (batrans \o new)[k] = IF k <= Len(batrans) THEN batrans[k] ELSE new[k - Len(batrans)]
    BY <1>3, ConcatProperties
  <2>3. DOMAIN (batrans \o new) = 1 .. Len(batrans \o new)
    BY <2>2, LenProperties
  <2> QED BY <2>2, <2>3, <1>2
<1>5. \A v, j : TransitionOf(v, j)' = TransitionOf(v, j)
  BY <1>b DEF TransitionOf
<1>6. \A k \in DOMAIN batrans' : \E j \in DOMAIN inst.vertics[batrans'[k].source].arcs :
        batrans'[k] = TransitionOf(batrans'[k].source, j)
  <2> SUFFICES ASSUME NEW k \in DOMAIN batrans'
               PROVE  \E j \in DOMAIN inst.vertics[batrans'[k].source].arcs :
                        batrans'[k] = TransitionOf(batrans'[k].source, j)
    OBVIOUS
  <2>1. CASE k <= Len(batrans)
    <3>1. k \in DOMAIN batrans /\ batrans'[k] = batrans[k]
      BY <2>1, <1>3, <1>4
    <3> QED BY <3>1 DEF ArcsKept
  <2>2. CASE ~(k <= Len(batrans))
    <3>1. k - Len(batrans) \in DOMAIN Arcs /\ batrans'[k] = new[k - Len(batrans)]
      BY <2>2, <1>3, <1>4
    <3>2. batrans'[k] = TransitionOf(next, k - Len(batrans))
      BY <3>1, <1>3
    <3>3. batrans'[k].source = next
      BY <3>2 DEF TransitionOf, Transition
    <3> QED BY <3>1, <3>2, <3>3, <1>c
  <2> QED BY <2>1, <2>2
<1>7. \A v \in DOMAIN inst.vertics : inst.vertics[v].alive /\ v < next + 1 =>
        \A j \in DOMAIN inst.vertics[v].arcs : \E k \in DOMAIN batrans' : batrans'[k] = TransitionOf(v, j)
  <2> SUFFICES ASSUME NEW v \in DOMAIN inst.vertics, inst.vertics[v].alive, v < next + 1,
                      NEW j \in DOMAIN inst.vertics[v].arcs
               PROVE  \E k \in DOMAIN batrans' : batrans'[k] = TransitionOf(v, j)
    OBVIOUS
  <2>1. CASE v < next
    <3>1. PICK k \in DOMAIN batrans : batrans[k] = TransitionOf(v, j)
      BY <2>1, <1>b DEF ArcsKept
    <3>2. k \in DOMAIN batrans' /\ batrans'[k] = batrans[k]
      BY <1>3, <1>4
    <3> QED BY <3>1, <3>2
  <2>2. CASE v = next
    <3>1. j \in DOMAIN Arcs
      BY <2>2, <1>c
    <3>2. Len(batrans) + j \in DOMAIN batrans' /\ batrans'[Len(batrans) + j] = new[j]
      BY <3>1, <1>3, <1>4
    <3>3. new[j] = TransitionOf(v, j)
      BY <3>1, <2>2, <1>3
    <3> QED BY <3>2, <3>3
  <2> QED BY <2>1, <2>2, <1>a
<1>8. phase' = "arcs" /\ next' = next + 1 /\ UNCHANGED <<inst, qstate, qtokens, m, is_accept>>
  BY <1>b
<1>9. qstate # <<>> => In(1)'
  BY <1>8, <1>b DEF ArcsKept, In
<1>10. \A v \in DOMAIN inst.vertics : v \in DOMAIN qstate <=> inst.vertics[v].alive
  BY <1>b DEF ArcsKept
<1>11. m = inst.m0 /\ is_accept = FALSE /\ \A k \in DOMAIN qstate : qstate[k] = k
  BY <1>b DEF ArcsKept
<1> QED BY <1>5, <1>6, <1>7, <1>8, <1>9, <1>10, <1>11 DEF ArcsKept

LEMMA NextArcsKept ==
  ASSUME NoHoles, IInv, ArcsKept, [Next]_vars
  PROVE  ArcsKept'
<1>a. TypeOK /\ next \in Nat \ {0} /\ DOMAIN inst.vertics = 1 .. Len(inst.vertics)
      /\ Len(inst.vertics) \in Nat \ {0}
  BY InstanceFacts DEF IInv, TypeOK
<1>b. inst' = inst => \A v, j : TransitionOf(v, j)' = TransitionOf(v, j)
  BY DEF TransitionOf
<1>1. CASE AddPlace
  BY <1>1, AddPlaceKeeps
<1>2. CASE AddArcs
  BY <1>2, AddArcsKeeps
<1>3. CASE SkipState \/ PlacesDone
  <2>1. /\ phase = "places" /\ phase' \in {"places", "arcs"}
        /\ phase' = "places" => next' = next + 1 /\ ~inst.vertics[next].alive
        /\ phase' = "arcs" => next' = 1 /\ next \notin 1 .. Len(inst.vertics)
        /\ UNCHANGED <<inst, qstate, qtokens, batrans, m, is_accept>>
    BY <1>3 DEF SkipState, PlacesDone, Building, Built, netvars
  <2>2. \A v \in DOMAIN inst.vertics :
          v \in DOMAIN qstate' <=> inst.vertics[v].alive /\ (phase' = "places" => v < next')
    BY <2>1, <1>a DEF ArcsKept
  <2>3. DOMAIN batrans = {}
    BY <2>1 DEF ArcsKept
  <2>4. phase' = "arcs" => \A v \in DOMAIN inst.vertics : ~(v < next')
    BY <2>1, <1>a
  <2> QED BY <2>1, <2>2, <2>3, <2>4 DEF ArcsKept, In
<1>4. CASE SkipArcs \/ NoSourcePlace \/ ArcsDone
  <2>1. /\ phase = "arcs" /\ phase' \in {"arcs", "observe", "exit"}
        /\ phase' = "arcs" => next' = next + 1 /\ ~inst.vertics[next].alive
        /\ phase' = "observe" => next \notin 1 .. Len(inst.vertics)
        /\ UNCHANGED <<inst, qstate, qtokens, batrans, m, is_accept>>
    BY <1>4 DEF SkipArcs, NoSourcePlace, ArcsDone, Building, Built, netvars
  <2>2. \A v \in DOMAIN inst.vertics :
          /\ inst.vertics[v].alive
          /\ phase' \in {"observe", "run"} \/ (phase' = "arcs" /\ v < next')
          => v < next
    BY <2>1, <1>a
  <2>3. \A v \in DOMAIN inst.vertics :
          /\ inst.vertics[v].alive
          /\ phase' \in {"observe", "run"} \/ (phase' = "arcs" /\ v < next')
          => \A j \in DOMAIN inst.vertics[v].arcs :
               \E k \in DOMAIN batrans : batrans[k] = TransitionOf(v, j)
    BY <2>1, <2>2 DEF ArcsKept
  <2> QED BY <2>1, <2>3, <1>b DEF ArcsKept, In
<1>5. CASE \/ Observe \/ NotUnique \/ AddScheduler
           \/ \E k \in DOMAIN batrans : FireAutomaton(k)
           \/ \E t \in Transitions : FireVisible(t) \/ FireInvisible(t)
           \/ UNCHANGED vars
  <2>1. /\ UNCHANGED <<inst, qstate, batrans>>
        /\ \/ phase = "observe" /\ phase' \in {"observe", "exit", "run"}
              /\ UNCHANGED <<qtokens, m, is_accept>>
           \/ phase = "run" /\ phase' = "run"
           \/ UNCHANGED <<phase, next, qtokens, m, is_accept>>
    BY <1>5 DEF Observe, NotUnique, AddScheduler, FireAutomaton, FireVisible, FireInvisible,
                vars, netvars, synchvars, Building, Built
  <2>2. CASE phase = "observe" /\ phase' \in {"observe", "exit", "run"}
             /\ UNCHANGED <<qtokens, m, is_accept>>
    BY <2>1, <2>2, <1>b DEF ArcsKept, In
  <2>3. CASE phase = "run" /\ phase' = "run"
    BY <2>1, <2>3, <1>b DEF ArcsKept, In
  <2>4. CASE UNCHANGED <<phase, next, qtokens, m, is_accept>>
    BY <2>1, <2>4, <1>b DEF ArcsKept, In
  <2> QED BY <2>1, <2>2, <2>3, <2>4
<1> QED BY <1>1, <1>2, <1>3, <1>4, <1>5 DEF Next, Build
Mapped == IInv /\ VisibleAsObserved /\ ArcsKept

\* The state the automaton is in is the one whose place has the token.
LEMMA StateIs ==
  IInv /\ ArcsKept /\ phase = "run" =>
    \A k \in DOMAIN qstate : qtokens[k] > 0 => State = k /\ In(k)
<1> SUFFICES ASSUME IInv, ArcsKept, phase = "run", NEW k \in DOMAIN qstate, qtokens[k] > 0
             PROVE  State = k /\ In(k)
  OBVIOUS
<1>1. PICK o \in DOMAIN qstate : In(o)
  BY DEF IInv, OneToken
<1>2. o = k
  BY <1>1 DEF In
<1>3. \A l \in DOMAIN qstate : qtokens[l] > 0 <=> l = k
  BY <1>1, <1>2 DEF In
<1>4. qstate[CHOOSE l \in DOMAIN qstate : qtokens[l] > 0] = k
  BY <1>3 DEF ArcsKept
<1> QED BY <1>1, <1>2, <1>4 DEF State

LEMMA StateIsNext ==
  ASSUME IInv', ArcsKept', phase' = "run", NEW l \in DOMAIN qstate', qtokens'[l] > 0
  PROVE  State' = l
<1>1. (IInv /\ ArcsKept /\ phase = "run" =>
         \A k \in DOMAIN qstate : qtokens[k] > 0 => State = k /\ In(k))'
  BY StateIs, PTL
<1> QED BY <1>1

\* The transitions the product calls visible are the ones synch found.
LEMMA VisibleIsVisible ==
  ASSUME Mapped, phase = "run", NEW t \in Transitions
  PROVE  Abs!Visible(t) <=> t \in visible
<1>a. TypeOK /\ DOMAIN qstate \subseteq DOMAIN inst.vertics
  BY DEF Mapped, IInv, TypeOK, ArcsKept
<1>1. \A a : a \in Abs!Atoms <=> \E k \in DOMAIN batrans : a \in batrans[k].preds
  <2>1. ASSUME NEW v \in DOMAIN inst.vertics, inst.vertics[v].alive,
               NEW j \in DOMAIN inst.vertics[v].arcs
        PROVE  \E k \in DOMAIN batrans : batrans[k].preds = inst.vertics[v].arcs[j].preds
    <3>1. PICK k \in DOMAIN batrans : batrans[k] = TransitionOf(v, j)
      BY <2>1 DEF Mapped, ArcsKept
    <3> QED BY <3>1 DEF TransitionOf, Transition
  <2>2. ASSUME NEW k \in DOMAIN batrans
        PROVE  \E v \in DOMAIN inst.vertics :
                 /\ inst.vertics[v].alive
                 /\ \E j \in DOMAIN inst.vertics[v].arcs :
                      batrans[k].preds = inst.vertics[v].arcs[j].preds
    <3>1. batrans[k].source \in DOMAIN qstate
      BY <1>a DEF TypeOK
    <3>2. batrans[k].source \in DOMAIN inst.vertics /\ inst.vertics[batrans[k].source].alive
      BY <3>1, <1>a DEF Mapped, ArcsKept
    <3>3. PICK j \in DOMAIN inst.vertics[batrans[k].source].arcs :
            batrans[k] = TransitionOf(batrans[k].source, j)
      BY DEF Mapped, ArcsKept
    <3>4. batrans[k].preds = inst.vertics[batrans[k].source].arcs[j].preds
      BY <3>3 DEF TransitionOf, Transition
    <3> QED BY <3>2, <3>4
  <2>3. \A a : a \in Abs!Atoms <=>
          \E v \in DOMAIN inst.vertics :
            /\ inst.vertics[v].alive
            /\ \E j \in DOMAIN inst.vertics[v].arcs : a \in inst.vertics[v].arcs[j].preds
    BY DEF Abs!Atoms
  <2> QED BY <2>1, <2>2, <2>3
<1>2. \A k \in DOMAIN batrans : \A p :
        p \in ObservedP(k) <=> \E a \in batrans[k].preds : p \in Abs!Scope(a)
  <2> SUFFICES ASSUME NEW k \in DOMAIN batrans, NEW p
               PROVE  p \in ObservedP(k) <=> \E a \in batrans[k].preds : p \in Abs!Scope(a)
    OBVIOUS
  <2>1. p \in ObservedP(k) <=>
          \/ \E a \in batrans[k].preds : a.kind = "LTLV" /\ p \in a.obs
          \/ \E a \in batrans[k].preds : a.kind = "LTLF" /\ \E u \in a.obs : p \in DOMAIN inst.pre[u]
    BY DEF ObservedP, ObservedT, ObservedValues, Guard
  <2>2. \A a : p \in Abs!Scope(a) <=>
          \/ a.kind = "LTLV" /\ p \in a.obs
          \/ a.kind = "LTLF" /\ \E u \in a.obs : p \in DOMAIN inst.pre[u]
    BY DEF Abs!Scope
  <2> QED BY <2>1, <2>2
<1>3. Abs!Visible(t) <=> \E a \in Abs!Atoms : \E p \in Adjacent(t) : p \in Abs!Scope(a)
  BY DEF Abs!Visible, Adjacent
<1>4. t \in visible <=> \E k \in DOMAIN batrans : \E p \in Adjacent(t) : p \in ObservedP(k)
  BY DEF Mapped, VisibleAsObserved, Passed, Noticed
<1> QED BY <1>1, <1>2, <1>3, <1>4

\* The construction is no step of the product.
LEMMA BuildIsStutter == ASSUME Mapped, Mapped', Build PROVE UNCHANGED Abs!spvars
<1>1. phase # "run" /\ UNCHANGED <<inst, m, is_accept>> /\ S' = S
  BY DEF Build, SkipState, AddPlace, PlacesDone, SkipArcs, AddArcs, NoSourcePlace, ArcsDone,
         Observe, NotUnique, AddScheduler, Building, Built, netvars
<1>2. Turn' = Turn
  BY <1>1 DEF Turn
<1>3. State = 1
  BY <1>1 DEF State
<1>4. State' = 1
  <2>1. CASE phase' # "run"
    BY <2>1 DEF State
  <2>2. CASE phase' = "run"
    <3>1. AddScheduler
      BY <2>2, <1>1 DEF Build, SkipState, AddPlace, PlacesDone, SkipArcs, AddArcs,
            NoSourcePlace, ArcsDone, Observe, NotUnique, Building, Built
    <3>2. phase = "observe" /\ UNCHANGED <<qstate, qtokens>>
      BY <3>1 DEF AddScheduler, Built
    <3>3. PICK k \in DOMAIN qstate : In(k)
      BY <3>2 DEF Mapped, IInv, OneToken
    <3>4. In(1) /\ 1 \in DOMAIN qstate
      <4>1. qstate # <<>>
        BY <3>3
      <4>2. 1 \in DOMAIN qstate
        BY <4>1 DEF Mapped, IInv, TypeOK
      <4> QED BY <4>1, <4>2, <1>1 DEF Mapped, ArcsKept
    <3>5. 1 \in DOMAIN qstate' /\ qtokens'[1] > 0
      BY <3>2, <3>4 DEF In
    <3> QED BY <3>5, <2>2, StateIsNext DEF Mapped
  <2> QED BY <2>1, <2>2
<1> QED BY <1>1, <1>2, <1>3, <1>4 DEF Abs!spvars

\* An automaton transition is a move of the automaton along the arc it was
\* built for, its guard read as the product reads it.
LEMMA AutomatonImplements ==
  ASSUME Mapped, Mapped', NEW k \in DOMAIN batrans, FireAutomaton(k)
  PROVE  Abs!AutomatonMoves
<1>a. TypeOK
  BY DEF Mapped, IInv
<1>b. PICK s, t \in DOMAIN qstate : s = batrans[k].source /\ t = batrans[k].target
  BY <1>a DEF TypeOK
<1>c. /\ phase = "run" /\ qtokens[s] > 0 /\ B > 0 /\ S' = S + 1
      /\ \A a \in Guard(k) : Satisfied(a)
      /\ qtokens' = Moved(qtokens, s, t)
      /\ is_accept' = inst.vertics[qstate[t]].accepted
      /\ UNCHANGED <<inst, phase, qstate, m>>
  BY <1>b DEF FireAutomaton
<1>1. Turn = "ba" /\ Turn' = "net"
  <2>1. B + S = 1 /\ B \in Nat /\ S \in Nat
    BY <1>a, <1>c DEF Mapped, IInv, Scheduler, TypeOK
  <2> QED BY <2>1, <1>c DEF Turn
<1>2. State = s
  BY <1>b, <1>c, StateIs DEF Mapped
<1>3. State' = t
  <2>1. qtokens'[t] > 0
    <3> DEFINE taken == [qtokens EXCEPT ![s] = @ - 1]
    <3>1. qtokens \in [DOMAIN qstate -> Nat]
      BY <1>a DEF TypeOK
    <3>2. taken \in [DOMAIN qstate -> Nat]
      BY <3>1, <1>c
    <3>3. qtokens' = [taken EXCEPT ![t] = @ + 1]
      BY <1>c DEF Moved
    <3> HIDE DEF taken
    <3> QED BY <3>2, <3>3
  <2>2. IInv' /\ ArcsKept' /\ phase' = "run" /\ t \in DOMAIN qstate'
    BY <1>b, <1>c DEF Mapped
  <2> QED BY <2>1, <2>2, StateIsNext
<1>4. PICK j \in DOMAIN inst.vertics[s].arcs : batrans[k] = TransitionOf(s, j)
  BY <1>b DEF Mapped, ArcsKept
<1>5. inst.vertics[s].arcs[j].dest = t /\ inst.vertics[s].arcs[j].preds = batrans[k].preds
  BY <1>b, <1>4 DEF TransitionOf, Transition
<1>6. \A a \in batrans[k].preds : a.kind \in {"LTLF", "LTLV"} => Abs!Holds(a, m)
  <2> SUFFICES ASSUME NEW a \in batrans[k].preds, a.kind \in {"LTLF", "LTLV"}
               PROVE  Abs!Holds(a, m)
    OBVIOUS
  <2>1. a \in Guard(k) /\ Satisfied(a)
    BY <1>c DEF Guard
  <2>2. CASE a.kind = "LTLV"
    <3>1. handleLTLV(a)
      BY <2>1, <2>2 DEF Satisfied
    <3> QED BY <2>2, <3>1 DEF handleLTLV, Abs!Holds
  <2>3. CASE a.kind = "LTLF"
    <3>1. handleLTLF(a)
      BY <2>1, <2>3 DEF Satisfied
    <3>2. a.obs \subseteq copies
      BY <2>1, <2>3, <1>a, <1>c, GuardFacts DEF Mapped, VisibleAsObserved, Passed
    <3>3. \A u \in a.obs : CopyFirable(u) <=> Abs!Enabled(u, m)
      BY <3>2, <1>c DEF CopyFirable, Enabled, Abs!Enabled
    <3> QED BY <2>3, <3>1, <3>3 DEF handleLTLF, Abs!Holds
  <2> QED BY <2>2, <2>3
<1>7. qstate[t] = t
  BY <1>b DEF Mapped, ArcsKept
<1> QED BY <1>1, <1>2, <1>3, <1>5, <1>6, <1>7, <1>c DEF Abs!AutomatonMoves

\* A transition of the net moves the net; only the visible ones wait for the
\* automaton.
LEMMA NetImplements ==
  ASSUME Mapped, NEW t \in Transitions, FireVisible(t) \/ FireInvisible(t)
  PROVE  t \notin inst.abort /\ Abs!NetMoves(t)
<1>1. /\ phase = "run" /\ t \notin inst.abort /\ Enabled(t) /\ m' = Fire(t)
      /\ UNCHANGED <<inst, phase, qstate, qtokens, is_accept>>
  BY DEF FireVisible, FireInvisible
<1>2. State' = State
  BY <1>1 DEF State
<1>3. Abs!Enabled(t, m) /\ m' = Abs!Fire(t, m)
  BY <1>1 DEF Enabled, Fire, Abs!Enabled, Abs!Fire
<1>4. CASE FireVisible(t)
  <2>1. t \in visible /\ S > 0 /\ S' = S - 1
    BY <1>4 DEF FireVisible
  <2>2. B + S = 1 /\ B \in Nat /\ S \in Nat
    BY <1>1 DEF Mapped, IInv, Scheduler, TypeOK
  <2>3. Turn = "net" /\ Turn' = "ba"
    BY <2>1, <2>2 DEF Turn
  <2>4. Abs!Visible(t)
    BY <2>1, <1>1, VisibleIsVisible
  <2> QED BY <2>3, <2>4, <1>1, <1>2, <1>3 DEF Abs!NetMoves
<1>5. CASE FireInvisible(t)
  <2>1. t \notin visible /\ Turn' = Turn
    BY <1>5 DEF FireInvisible, Turn
  <2>2. ~Abs!Visible(t)
    BY <2>1, <1>1, VisibleIsVisible
  <2> QED BY <2>1, <2>2, <1>1, <1>2, <1>3 DEF Abs!NetMoves
<1> QED BY <1>4, <1>5

LEMMA StepImplements ==
  ASSUME Mapped, Mapped', [Next]_vars
  PROVE  [Abs!SPNext]_(Abs!spvars)
<1>1. CASE Build
  BY <1>1, BuildIsStutter
<1>2. CASE \E k \in DOMAIN batrans : FireAutomaton(k)
  BY <1>2, AutomatonImplements DEF Abs!SPNext
<1>3. CASE \E t \in Transitions : FireVisible(t) \/ FireInvisible(t)
  BY <1>3, NetImplements DEF Abs!SPNext
<1>4. CASE UNCHANGED vars
  BY <1>4 DEF vars, Abs!spvars, State, Turn
<1> QED BY <1>1, <1>2, <1>3, <1>4 DEF Next

LEMMA InitImplements == Init => ArcsKept /\ Abs!SPInit
<1> SUFFICES ASSUME Init PROVE ArcsKept /\ Abs!SPInit
  OBVIOUS
<1>1. TypeOK /\ DOMAIN inst.vertics = 1 .. Len(inst.vertics)
  BY InitIInv, InstanceFacts DEF IInv
<1>2. \A v \in DOMAIN inst.vertics : ~(v < 1)
  BY <1>1
<1>3. ArcsKept
  BY <1>2 DEF Init, ArcsKept
<1> QED BY <1>3 DEF Init, Abs!SPInit, State, Turn

\* For every net and every automaton without a hole before a state: the net
\* that SYNCH builds is the synchronous product.  The automaton takes exactly
\* its own arcs, reads the propositions as they are, moves once after every
\* step of the net that they can notice, and leaves the other steps free.
THEOREM SynchImplementsProduct == ASSUME NoHoles PROVE Spec => ImplementsProduct
<1>1. Mapped /\ [Next]_vars => Mapped'
  BY NextIInv, NextVisibleAsObserved, NextArcsKept DEF Mapped
<1>2. Mapped /\ Mapped' /\ [Next]_vars => [Abs!SPNext]_(Abs!spvars)
  BY StepImplements
<1>3. Init => Mapped /\ Abs!SPInit
  BY InitIInv, InitImplements DEF Mapped, Init, VisibleAsObserved, Passed
<1> QED BY <1>1, <1>2, <1>3, PTL DEF Spec, ImplementsProduct, Abs!SPSpec
=============================================================================

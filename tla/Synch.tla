-------------------------------- MODULE Synch --------------------------------
(***************************************************************************)
(* SYNCH (synchronization.cpp): the synchronization of a PDNet with the    *)
(* Buechi automaton of the negated formula, and the runs of the net it     *)
(* builds as the unfolding sees them (get_bindings, is_firable, Extend and *)
(* get_Config_add of unfolding.cpp).                                       *)
(*                                                                         *)
(* ba2cpn adds a place Q<k> for every state of the automaton and a         *)
(* transition for every arc; synch finds the transitions of the net that   *)
(* the propositions can notice, copies the ones whose fireability they     *)
(* name, and adds the two scheduler places: B, marked, in front of every   *)
(* automaton transition, and S, empty, in front of every visible one.      *)
(*                                                                         *)
(* The PDNet is abstract: a place holds at most one coloured token, a      *)
(* transition consumes given colours and produces given colours.           *)
(***************************************************************************)
EXTENDS Integers, Sequences, FiniteSets

CONSTANTS
  Places, Transitions,    \* of the PDNet
  Colors,                 \* the colours a token can have
  EMPTY,                  \* the content of a place without token
  Propositions,           \* the atomic propositions of the formulas
  Instances               \* the nets with their automata

Markings == [Places -> Colors \cup {EMPTY}]

\* The colours of the tokens consumed from, or produced in, some places.
PartialMarkings == UNION {[D -> Colors] : D \in SUBSET Places}

\* An atomic proposition, possibly negated: is-fireable of one of some
\* transitions, token-value of a place, or token-count.
IsProposition(a) ==
  /\ a.neg \in BOOLEAN
  /\ \/ a.kind = "LTLF" /\ a.obs \subseteq Transitions /\ a.obs # {}
     \/ a.kind = "LTLV" /\ a.obs \subseteq Places /\ a.obs # {} /\ a.val \in Colors
     \/ a.kind = "LTLC"

\* vertics is the array of automaton states.  Simplify merges states: the slot
\* of a state merged away has id -1, here alive = FALSE, and no arc leads to
\* it.  The initial state has the first slot and is never merged away.
BA_delta == [dest : Nat \ {0}, preds : SUBSET Propositions]
BA_state == [alive : BOOLEAN, accepted : BOOLEAN, arcs : Seq(BA_delta)]

IsAutomaton(vertics) ==
  /\ vertics \in Seq(BA_state)
  /\ vertics # <<>> /\ vertics[1].alive
  /\ \A v \in DOMAIN vertics : \A k \in DOMAIN vertics[v].arcs :
       /\ vertics[v].arcs[k].dest \in DOMAIN vertics
       /\ vertics[vertics[v].arcs[k].dest].alive

InstanceType ==
  [m0 : Markings,
   pre : [Transitions -> PartialMarkings],
   post : [Transitions -> PartialMarkings],
   abort : SUBSET Transitions,     \* isabort: never extended
   vertics : Seq(BA_state)]

ASSUME PropositionsAssumption == \A a \in Propositions : IsProposition(a)
ASSUME EmptyAssumption == EMPTY \notin Colors
ASSUME InstancesAssumption ==
  Instances \subseteq InstanceType /\ \A i \in Instances : IsAutomaton(i.vertics)

VARIABLES
  inst,      \* the instance
  phase,     \* "places", "arcs" (ba2cpn), "observe" (synch), "run", "exit"
  next,      \* the loop counter of the phase
  qstate,    \* map_place2state: the automaton state of each place Q<k>
  qtokens,   \* the tokens of each place Q<k>
  batrans,   \* the automaton transitions
  copies,    \* CP_tran: the transitions that have a copy CP<idx>
  visible,   \* visible_T
  B, S,      \* the tokens of the scheduler places
  m,         \* the marking of the PDNet
  is_accept  \* the configuration's flag

vars == <<inst, phase, next, qstate, qtokens, batrans, copies, visible, B, S,
          m, is_accept>>
netvars == <<B, S, m, is_accept>>
synchvars == <<copies, visible>>

\* A place Q<k> is entry k + 1 of qstate and qtokens.  A transition has its
\* input place, its output place and the propositions of its arc.
BATransition == [source : Nat \ {0}, target : Nat \ {0}, preds : SUBSET Propositions]
Transition(from, to, preds) == [source |-> from, target |-> to, preds |-> preds]

\* Transitions of the net.
Enabled(t) == \A p \in DOMAIN inst.pre[t] : m[p] = inst.pre[t][p]

Fire(t) ==
  [p \in Places |-> IF p \in DOMAIN inst.post[t] THEN inst.post[t][p]
                    ELSE IF p \in DOMAIN inst.pre[t] THEN EMPTY
                    ELSE m[p]]

Adjacent(t) == DOMAIN inst.pre[t] \cup DOMAIN inst.post[t]
-----------------------------------------------------------------------------
Init ==
  /\ inst \in Instances
  /\ phase = "places"
  /\ next = 1
  /\ qstate = <<>>
  /\ qtokens = <<>>
  /\ batrans = <<>>
  /\ copies = {}
  /\ visible = {}
  /\ B = 0
  /\ S = 0
  /\ m = inst.m0
  /\ is_accept = FALSE

Building(p, bound) == phase = p /\ next \in 1 .. bound
Built(p, bound) == phase = p /\ next \notin 1 .. bound

\* ba2cpn, first loop: a place for a state; the first slot gets the token.
SkipState ==
  /\ Building("places", Len(inst.vertics))
  /\ ~inst.vertics[next].alive
  /\ next' = next + 1
  /\ UNCHANGED <<inst, phase, qstate, qtokens, batrans, synchvars, netvars>>

\* Slip: every place gets a token.
AddPlaceMarkingAll ==
  /\ Building("places", Len(inst.vertics))
  /\ inst.vertics[next].alive
  /\ qstate' = Append(qstate, next)
  /\ qtokens' = Append(qtokens, 1)
  /\ next' = next + 1
  /\ UNCHANGED <<inst, phase, batrans, synchvars, netvars>>

AddPlace ==
  /\ Building("places", Len(inst.vertics))
  /\ inst.vertics[next].alive
  /\ qstate' = Append(qstate, next)
  /\ qtokens' = Append(qtokens, IF next = 1 THEN 1 ELSE 0)
  /\ next' = next + 1
  /\ UNCHANGED <<inst, phase, batrans, synchvars, netvars>>

PlacesDone ==
  /\ Built("places", Len(inst.vertics))
  /\ phase' = "arcs"
  /\ next' = 1
  /\ UNCHANGED <<inst, qstate, qtokens, batrans, synchvars, netvars>>

\* ba2cpn, second loop: the transitions of a state.  The input place is found
\* by the slot of the state, 'Q' + i, the output place by map_state2place.
Arcs == inst.vertics[next].arcs

\* Slip: the number of the place, which counts from 0, taken for its position.
PlaceNumber(v) == (CHOOSE k \in DOMAIN qstate : qstate[k] = v) - 1

PlaceOf(v) == CHOOSE k \in DOMAIN qstate : qstate[k] = v

SkipArcs ==
  /\ Building("arcs", Len(inst.vertics))
  /\ ~inst.vertics[next].alive
  /\ next' = next + 1
  /\ UNCHANGED <<inst, phase, qstate, qtokens, batrans, synchvars, netvars>>

AddArcs ==
  /\ Building("arcs", Len(inst.vertics))
  /\ inst.vertics[next].alive
  /\ Arcs = <<>> \/ next \in DOMAIN qstate
  /\ batrans' = batrans \o
       [k \in DOMAIN Arcs |-> Transition(next, PlaceOf(Arcs[k].dest), Arcs[k].preds)]
  /\ next' = next + 1
  /\ UNCHANGED <<inst, phase, qstate, qtokens, synchvars, netvars>>

\* There is no place 'Q' + i: findP_byid exits.
NoSourcePlace ==
  /\ Building("arcs", Len(inst.vertics))
  /\ inst.vertics[next].alive
  /\ Arcs # <<>> /\ next \notin DOMAIN qstate
  /\ phase' = "exit"
  /\ UNCHANGED <<inst, next, qstate, qtokens, batrans, synchvars, netvars>>

ArcsDone ==
  /\ Built("arcs", Len(inst.vertics))
  /\ phase' = "observe"
  /\ next' = 1
  /\ UNCHANGED <<inst, qstate, qtokens, batrans, synchvars, netvars>>

\* synch, first loop: what an automaton transition observes.  A token-count
\* proposition is of no case of the switch: it observes nothing and is no part
\* of the guard.
Guard(k) == {a \in batrans[k].preds : a.kind \in {"LTLF", "LTLV"}}

ObservedT(k) == UNION {a.obs : a \in {x \in Guard(k) : x.kind = "LTLF"}}

\* Slip: the input places of the observed transitions are forgotten.
ObservedValues(k) == UNION {a.obs : a \in {x \in Guard(k) : x.kind = "LTLV"}}

ObservedP(k) ==
  ObservedValues(k) \cup UNION {DOMAIN inst.pre[t] : t \in ObservedT(k)}

\* A transition is copied once for every proposition that names it, under the
\* same name: the second time its arcs exist already.
CopiedTwice(k) ==
  \/ ObservedT(k) \cap copies # {}
  \/ \E a, b \in Guard(k) :
       a # b /\ a.kind = "LTLF" /\ b.kind = "LTLF" /\ a.obs \cap b.obs # {}

Observe ==
  /\ Building("observe", Len(batrans))
  /\ ~CopiedTwice(next)
  /\ copies' = copies \cup ObservedT(next)
  /\ visible' = visible \cup {t \in Transitions : Adjacent(t) \cap ObservedP(next) # {}}
  /\ next' = next + 1
  /\ UNCHANGED <<inst, phase, qstate, qtokens, batrans, netvars>>

\* "normal Add_arc should be unique!": Add_Arc exits.
NotUnique ==
  /\ Building("observe", Len(batrans))
  /\ CopiedTwice(next)
  /\ phase' = "exit"
  /\ UNCHANGED <<inst, next, qstate, qtokens, batrans, synchvars, netvars>>

\* synch, rest: the scheduler places.
AddScheduler ==
  /\ Built("observe", Len(batrans))
  /\ phase' = "run"
  /\ B' = 1
  /\ UNCHANGED <<inst, next, qstate, qtokens, batrans, synchvars, S, m, is_accept>>
-----------------------------------------------------------------------------
(***************************************************************************)
(* Runs of the synchronized net.                                           *)
(***************************************************************************)
\* Slip: the transition itself is asked, whose scheduler place S is empty when
\* the automaton is to move.
TransitionFirable(t) == t \in copies /\ S > 0 /\ Enabled(t)

\* A copy has the input places of its transition and, like every transition
\* added after ba_t_begin_idx, the scheduler place B.
CopyFirable(t) == t \in copies /\ B > 0 /\ Enabled(t)

handleLTLF(a) == (\E t \in a.obs : CopyFirable(t)) # a.neg
handleLTLV(a) == \A p \in a.obs : m[p] # EMPTY /\ ((m[p] = a.val) # a.neg)

Satisfied(a) ==
  /\ a.kind = "LTLF" => handleLTLF(a)
  /\ a.kind = "LTLV" => handleLTLV(a)

\* Moving a token from one Q place to another one.
Moved(tokens, from, to) ==
  LET taken == [tokens EXCEPT ![from] = @ - 1]
  IN  [taken EXCEPT ![to] = @ + 1]

\* An automaton transition; the ones called I enter an accepting state.
FireAutomaton(k) ==
  /\ phase = "run"
  /\ qtokens[batrans[k].source] > 0 /\ B > 0
  /\ \A a \in Guard(k) : Satisfied(a)
  /\ qtokens' = Moved(qtokens, batrans[k].source, batrans[k].target)
  /\ B' = B - 1
  /\ S' = S + 1
  /\ is_accept' = inst.vertics[qstate[batrans[k].target]].accepted
  /\ UNCHANGED <<inst, phase, next, qstate, batrans, synchvars, m>>

\* A visible transition of the net.
FireVisible(t) ==
  /\ phase = "run"
  /\ t \in visible \ inst.abort
  /\ Enabled(t) /\ S > 0
  /\ m' = Fire(t)
  /\ S' = S - 1
  /\ B' = B + 1
  /\ UNCHANGED <<inst, phase, next, qstate, qtokens, batrans, synchvars, is_accept>>

FireInvisible(t) ==
  /\ phase = "run"
  /\ t \in Transitions \ (visible \cup inst.abort)
  /\ Enabled(t)
  /\ m' = Fire(t)
  /\ UNCHANGED <<inst, phase, next, qstate, qtokens, batrans, synchvars, B, S, is_accept>>

Build ==
  \/ SkipState \/ AddPlace \/ PlacesDone
  \/ SkipArcs \/ AddArcs \/ NoSourcePlace \/ ArcsDone
  \/ Observe \/ NotUnique \/ AddScheduler

Next ==
  \/ Build
  \/ \E k \in DOMAIN batrans : FireAutomaton(k)
  \/ \E t \in Transitions : FireVisible(t) \/ FireInvisible(t)

Spec == Init /\ [][Next]_vars
-----------------------------------------------------------------------------
TypeOK ==
  /\ inst \in Instances
  /\ phase \in {"places", "arcs", "observe", "run", "exit"}
  /\ next \in Nat \ {0}
  /\ qstate \in Seq(DOMAIN inst.vertics)
  /\ qtokens \in Seq(Nat) /\ Len(qtokens) = Len(qstate)
  /\ batrans \in Seq(BATransition)
  /\ \A k \in DOMAIN batrans : {batrans[k].source, batrans[k].target} \subseteq DOMAIN qstate
  /\ copies \subseteq Transitions
  /\ visible \subseteq Transitions
  /\ B \in Nat /\ S \in Nat
  /\ m \in Markings
  /\ is_accept \in BOOLEAN

\* The automaton is in one state: one token in one Q place.
In(k) == \A l \in DOMAIN qstate : qtokens[l] = IF l = k THEN 1 ELSE 0

OneState == phase = "run" => \E k \in DOMAIN qstate : In(k)

\* B and S share one token: visible moves and automaton moves alternate.
Scheduled == phase = "run" => B + S = 1

\* A move of the net that the scheduler leaves free changes the truth of no
\* proposition of the automaton: reading them later reads the same.
FreeMovesUnnoticed ==
  [][phase = "run" /\ m' # m /\ <<B, S>>' = <<B, S>> =>
       \A k \in DOMAIN batrans : \A a \in Guard(k) :
         \/ a.kind = "LTLF" /\ \A t \in a.obs : Enabled(t)' = Enabled(t)
         \/ a.kind = "LTLV" /\ handleLTLV(a)' = handleLTLV(a)]_vars

\* The automaton state the net is in; 1, the initial one, until the net runs.
State ==
  IF phase = "run" THEN qstate[CHOOSE k \in DOMAIN qstate : qtokens[k] > 0] ELSE 1

Turn == IF S > 0 THEN "net" ELSE "ba"

Abs == INSTANCE SyncProduct WITH q <- State, turn <- Turn, accept <- is_accept

\* The synchronized net is the synchronous product: the automaton follows its
\* own arcs, reads the propositions truly, and no visible step is missed.
ImplementsProduct == Abs!SPSpec

=============================================================================

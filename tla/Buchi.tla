-------------------------------- MODULE Buchi --------------------------------
(***************************************************************************)
(* From a very weak alternating automaton (VWAA) to the Büchi automaton    *)
(* the searches use (BA/buchi.cpp): class General builds a generalised     *)
(* Büchi automaton, Buchi a plain one by counting, StateBuchi moves the    *)
(* labels onto the states; each is simplified by dropping redundant arcs   *)
(* and merging equivalent states.  One step is one turn of one loop.       *)
(*                                                                         *)
(* The three classes have the same fields vertics, state_num, simplest.    *)
(* They run one after the other, so one set of variables serves: kind is   *)
(* the class at work, given the automaton the class before it left.        *)
(***************************************************************************)
EXTENDS Integers, Sequences, FiniteSets

CONSTANTS Literal,   \* propositions and their negations
          Automata   \* the alternating automata formula trees turn into

(* delta: the transitions of each node, in order; uid: the number of each  *)
(* until node; start: the conjuncts of the root; addr: where each node is  *)
(* in memory, the order of a set<STNode*>.                                 *)
IsVWAA(a) ==
  LET Node == DOMAIN a.delta IN
  /\ a.delta \in [Node -> Seq([pred : SUBSET Literal, dests : SUBSET Node])]
  /\ \A n \in Node : n \in a.start \/ (\E m \in Node : \E k \in DOMAIN a.delta[m] : n \in a.delta[m][k].dests)
       => a.delta[n] # <<>>
  /\ DOMAIN a.uid \subseteq Node
  /\ \A u, v \in DOMAIN a.uid : a.uid[u] \in 1..Cardinality(DOMAIN a.uid) /\ (a.uid[u] = a.uid[v] => u = v)
  /\ IsFiniteSet(DOMAIN a.uid)
  /\ a.start \subseteq Node /\ a.start # {}
  /\ a.addr \in [Node -> Nat]
  /\ \A m, n \in Node : a.addr[m] = a.addr[n] => m = n

ASSUME AutomataAssumption == \A a \in Automata : IsVWAA(a)

VARIABLES vwaa,
          kind, given,                      \* the class at work; its input
          vertics, state_num, simplest,     \* its members
          pc, i, j,                         \* the loop it is in, its indices
          trans, rest                       \* locals of Build_GBA and Build_SBA

vars == <<vwaa, kind, given, vertics, state_num, simplest, pc, i, j, trans, rest>>

NONE == -1      \* the id of a state merged away
Alive(s)   == s.id # NONE
Node       == DOMAIN vwaa.delta
Untils     == DOMAIN vwaa.uid
ustacksize == Cardinality(Untils)

Init ==
  /\ vwaa \in Automata
  /\ kind = "General" /\ given = <<>>
  /\ vertics = << [id |-> 1, arcnum |-> 0, explored |-> FALSE, arcs |-> <<>>, subformulas |-> vwaa.start] >>
  /\ state_num = 0 /\ simplest = TRUE
  /\ pc = "build" /\ i = 1 /\ j = 1
  /\ trans = <<>> /\ rest = {}

Goto(loop, m, n) == pc' = loop /\ i' = m /\ j' = n

-----------------------------------------------------------------------------
(* Adding an arc. *)

RemoveAt(arcs, k) == SubSeq(arcs, 1, k - 1) \o SubSeq(arcs, k + 1, Len(arcs))

(* The list is searched for the first arc at least as good as d (above)    *)
(* or no better (below).                                                   *)
AddArc(s, d, above, below) ==
  LET hits  == above \cup below
      first == CHOOSE k \in hits : \A m \in hits : k <= m
  IN  IF hits = {} THEN [s EXCEPT !.arcs = <<d>> \o @, !.arcnum = @ + 1]
      ELSE IF first \in above THEN s
      ELSE [s EXCEPT !.arcs = <<d>> \o RemoveAt(@, first)]

(* General's order on arcs does not look at where they lead; uids are the  *)
(* untils an arc fulfils.                                                  *)
GBA_leq(p, d) == p.pred \subseteq d.pred /\ p.dests \subseteq d.dests /\ d.uids \subseteq p.uids

GBA_AddArc(s, d) == AddArc(s, d, {k \in DOMAIN s.arcs : GBA_leq(s.arcs[k], d)},
                                 {k \in DOMAIN s.arcs : GBA_leq(d, s.arcs[k])})

BA_implies(p, d) == p.to = d.to /\ p.pred \subseteq d.pred

BA_AddArc(s, d) == AddArc(s, d, {k \in DOMAIN s.arcs : BA_implies(s.arcs[k], d)},
                                {k \in DOMAIN s.arcs : BA_implies(d, s.arcs[k])})

-----------------------------------------------------------------------------
(* General::Build_GBA: a state is a set of nodes that must all hold. *)

TT == [pred |-> {}, dests |-> {}]

(* Every transition of ts with every one of us. *)
Product(ts, us) ==
  [k \in 1..Len(ts) * Len(us) |->
     LET t == ts[((k - 1) \div Len(us)) + 1]
         u == us[((k - 1) % Len(us)) + 1]
     IN  [pred |-> t.pred \cup u.pred, dests |-> t.dests \cup u.dests]]

(* An until is fulfilled where it is not promised again, or could have     *)
(* been left.                                                              *)
CreateTransition(t) ==
  LET left(u) == \E k \in DOMAIN vwaa.delta[u] :
                   LET d == vwaa.delta[u][k]
                   IN  d.pred \subseteq t.pred /\ d.dests \subseteq t.dests /\ u \notin d.dests
  IN  [pred |-> t.pred, dests |-> t.dests, to |-> 0, readyremove |-> FALSE,
       uids |-> {vwaa.uid[u] : u \in {v \in Untils : v \notin t.dests \/ left(v)}}]

GBA_Building == kind = "General" /\ pc = "build" /\ i <= Len(vertics)

(* Nothing left to hold: a loop that asks for nothing. *)
ExpandTrue ==
  /\ GBA_Building /\ vertics[i].subformulas = {}
  /\ vertics' = [vertics EXCEPT ![i] = [GBA_AddArc(@, [CreateTransition(TT) EXCEPT !.to = i]) EXCEPT !.explored = TRUE]]
  /\ Goto("build", i + 1, 1)
  /\ UNCHANGED <<vwaa, kind, given, state_num, simplest, trans, rest>>

Expand ==
  /\ GBA_Building /\ vertics[i].subformulas # {}
  /\ trans' = <<TT>> /\ rest' = vertics[i].subformulas
  /\ Goto("product", i, 1)
  /\ UNCHANGED <<vwaa, kind, given, vertics, state_num, simplest>>

MultiplyNext ==
  /\ kind = "General" /\ pc = "product"
  /\ \E n \in rest : /\ \A m \in rest : vwaa.addr[n] <= vwaa.addr[m]
                     /\ trans' = Product(trans, vwaa.delta[n])
                     /\ rest' = rest \ {n}
  /\ UNCHANGED <<vwaa, kind, given, vertics, state_num, simplest, pc, i, j>>

AddTransition ==
  /\ kind = "General" /\ pc = "product" /\ rest = {} /\ trans # <<>>
  /\ vertics' = [vertics EXCEPT ![i] = GBA_AddArc(@, CreateTransition(Head(trans)))]
  /\ trans' = Tail(trans)
  /\ UNCHANGED <<vwaa, kind, given, state_num, simplest, pc, i, j, rest>>

Explored ==
  /\ kind = "General" /\ pc = "product" /\ rest = {} /\ trans = <<>>
  /\ vertics' = [vertics EXCEPT ![i].explored = TRUE]
  /\ Goto("successors", i, 1)
  /\ UNCHANGED <<vwaa, kind, given, state_num, simplest, trans, rest>>

(* General::AddState for the arcs of state i, one after the other. *)
CreateSuccessorState ==
  LET subs == vertics[i].arcs[j].dests
      same == {k \in DOMAIN vertics : vertics[k].subformulas = subs}
      dest == IF same = {} THEN Len(vertics) + 1 ELSE CHOOSE k \in same : \A m \in same : k <= m
      new  == [id |-> dest, arcnum |-> 0, explored |-> FALSE, arcs |-> <<>>, subformulas |-> subs]
      all  == IF same = {} THEN Append(vertics, new) ELSE vertics
  IN  /\ kind = "General" /\ pc = "successors" /\ j <= Len(vertics[i].arcs)
      /\ vertics' = [all EXCEPT ![i].arcs[j].to = dest]
      /\ Goto(pc, i, j + 1)
      /\ UNCHANGED <<vwaa, kind, given, state_num, simplest, trans, rest>>

SuccessorsDone ==
  /\ kind = "General" /\ pc = "successors" /\ j > Len(vertics[i].arcs)
  /\ Goto("build", i + 1, 1)
  /\ UNCHANGED <<vwaa, kind, given, vertics, state_num, simplest, trans, rest>>

-----------------------------------------------------------------------------
(* Buchi::Build_BA: a state is a state of the generalised automaton and    *)
(* the number of untils seen fulfilled, in the order of their uids, since  *)
(* the last accepting state.                                               *)

BA_State(id, gid, num) ==
  [id |-> id, arcnum |-> 0, explored |-> FALSE, arcs |-> <<>>,
   gba_stateid |-> gid, marknum |-> num, accepted |-> num = ustacksize]

Count(marknum, uids) ==
  LET base == IF ustacksize = 0 THEN 0 ELSE marknum % ustacksize
  IN  CHOOSE n \in base..ustacksize :
        /\ \A m \in base + 1..n : m \in uids
        /\ n = ustacksize \/ n + 1 \notin uids

BA_Building == kind = "Buchi" /\ pc = "build" /\ i <= Len(vertics)

Source == given[vertics[i].gba_stateid]

BuildArc ==
  LET a    == Source.arcs[j]
      num  == Count(vertics[i].marknum, a.uids)
      same == {k \in DOMAIN vertics : vertics[k].gba_stateid = a.to /\ vertics[k].marknum = num}
      dest == IF same = {} THEN Len(vertics) + 1 ELSE CHOOSE k \in same : \A m \in same : k <= m
      all  == IF same = {} THEN Append(vertics, BA_State(dest, a.to, num)) ELSE vertics
  IN  /\ BA_Building /\ j <= Len(Source.arcs)
      /\ vertics' = [all EXCEPT ![i] = BA_AddArc(@, [pred |-> a.pred, to |-> dest, readyremove |-> FALSE])]
      /\ Goto(pc, i, j + 1)
      /\ UNCHANGED <<vwaa, kind, given, state_num, simplest, trans, rest>>

BuildNext ==
  /\ BA_Building /\ j > Len(Source.arcs)
  /\ vertics' = [vertics EXCEPT ![i].explored = TRUE]
  /\ Goto(pc, i + 1, 1)
  /\ UNCHANGED <<vwaa, kind, given, state_num, simplest, trans, rest>>

-----------------------------------------------------------------------------
(* Simplify, of General and of Buchi: Simplify_transition marks the arcs   *)
(* another arc of the state implies and unlinks them; Simplify_state       *)
(* merges the second of two equivalent states into the first; again, until *)
(* neither changes anything.                                               *)

GBA_implies(p, d) == p.to = d.to /\ p.pred \subseteq d.pred /\ d.uids \subseteq p.uids

implies(p, d) == IF kind = "General" THEN GBA_implies(p, d) ELSE BA_implies(p, d)

Built ==
  /\ kind \in {"General", "Buchi"} /\ pc = "build" /\ i > Len(vertics)
  /\ state_num' = Len(vertics) /\ simplest' = TRUE
  /\ Goto("mark", 1, 1)
  /\ UNCHANGED <<vwaa, kind, given, vertics, trans, rest>>

Simplifying(loop) == kind \in {"General", "Buchi"} /\ pc = loop /\ i <= Len(vertics)

SkipDead ==
  /\ Simplifying("mark") /\ ~Alive(vertics[i])
  /\ Goto("mark", i + 1, 1)
  /\ UNCHANGED <<vwaa, kind, given, vertics, state_num, simplest, trans, rest>>

MarkSlip ==
  LET arcs == vertics[i].arcs
      hits == {k \in DOMAIN arcs \ {j} : ~arcs[k].readyremove /\ implies(arcs[j], arcs[k])}
  IN  /\ Simplifying("mark") /\ Alive(vertics[i]) /\ j <= Len(arcs)
      /\ vertics' = [vertics EXCEPT ![i].arcs =
                       [k \in DOMAIN arcs |-> [arcs[k] EXCEPT !.readyremove = @ \/ k \in hits]]]
      /\ simplest' = (simplest /\ hits = {})
      /\ Goto(pc, i, j + 1)
      /\ UNCHANGED <<vwaa, kind, given, state_num, trans, rest>>

Mark ==
  LET arcs == vertics[i].arcs
      hits == {k \in DOMAIN arcs \ {j} : /\ ~arcs[j].readyremove /\ ~arcs[k].readyremove
                                         /\ implies(arcs[j], arcs[k])}
  IN  /\ Simplifying("mark") /\ Alive(vertics[i]) /\ j <= Len(arcs)
      /\ vertics' = [vertics EXCEPT ![i].arcs =
                       [k \in DOMAIN arcs |-> [arcs[k] EXCEPT !.readyremove = @ \/ k \in hits]]]
      /\ simplest' = (simplest /\ hits = {})
      /\ Goto(pc, i, j + 1)
      /\ UNCHANGED <<vwaa, kind, given, state_num, trans, rest>>

Marked ==
  /\ Simplifying("mark") /\ Alive(vertics[i]) /\ j > Len(vertics[i].arcs)
  /\ Goto("unlink", i, 1)
  /\ UNCHANGED <<vwaa, kind, given, vertics, state_num, simplest, trans, rest>>

WithoutArc(s, k) == [s EXCEPT !.arcs = RemoveAt(@, k), !.arcnum = @ - 1]

Unlink ==
  /\ Simplifying("unlink") /\ j <= Len(vertics[i].arcs)
  /\ IF vertics[i].arcs[j].readyremove
     THEN /\ vertics' = [vertics EXCEPT ![i] = WithoutArc(@, j)]
          /\ UNCHANGED j
     ELSE j' = j + 1 /\ UNCHANGED vertics
  /\ UNCHANGED <<vwaa, kind, given, state_num, simplest, pc, i, trans, rest>>

Unlinked ==
  /\ Simplifying("unlink") /\ j > Len(vertics[i].arcs)
  /\ Goto("mark", i + 1, 1)
  /\ UNCHANGED <<vwaa, kind, given, vertics, state_num, simplest, trans, rest>>

TransitionsDone ==
  /\ kind \in {"General", "Buchi"} /\ pc = "mark" /\ i > Len(vertics)
  /\ Goto("merge", 1, 2)
  /\ UNCHANGED <<vwaa, kind, given, vertics, state_num, simplest, trans, rest>>

(* The successors of General's arcs are compared by the nodes they stand   *)
(* for; arcs of b that a has not are looked for by number only.            *)
GBA_EQUIVALENT(a, b) ==
  /\ a.arcnum = b.arcnum
  /\ \A k \in DOMAIN a.arcs : \E m \in DOMAIN b.arcs :
       a.arcs[k].pred = b.arcs[m].pred /\ a.arcs[k].dests = b.arcs[m].dests

BA_EQUIVALENTSlip(a, b) ==
  /\ a.arcnum = b.arcnum
  /\ \A k \in DOMAIN a.arcs : \E m \in DOMAIN b.arcs :
       a.arcs[k].pred = b.arcs[m].pred /\ a.arcs[k].to = b.arcs[m].to

BA_EQUIVALENT(a, b) ==
  /\ a.arcnum = b.arcnum /\ a.accepted = b.accepted
  /\ \A k \in DOMAIN a.arcs : \E m \in DOMAIN b.arcs :
       a.arcs[k].pred = b.arcs[m].pred /\ a.arcs[k].to = b.arcs[m].to

EQUIVALENT(a, b) == IF kind = "General" THEN GBA_EQUIVALENT(a, b) ELSE BA_EQUIVALENT(a, b)

RedirectedSlip(states, s1, s2) ==
  [m \in DOMAIN states |->
     IF m = s2 THEN [states[m] EXCEPT !.id = NONE]
     ELSE [states[m] EXCEPT !.arcs = [k \in DOMAIN @ |-> IF k = 1 /\ @[k].to = s2 THEN [@[k] EXCEPT !.to = s1] ELSE @[k]]]]

Redirected(states, s1, s2) ==
  [m \in DOMAIN states |->
     IF m = s2 THEN [states[m] EXCEPT !.id = NONE]
     ELSE IF ~Alive(states[m]) THEN states[m]
     ELSE [states[m] EXCEPT !.arcs = [k \in DOMAIN @ |-> IF @[k].to = s2 THEN [@[k] EXCEPT !.to = s1] ELSE @[k]]]]

(* The pairs of states: all second states of a first one, then the next. *)
NextPair == IF j < Len(vertics) THEN Goto(pc, i, j + 1) ELSE Goto(pc, i + 1, i + 2)

Merging(kinds) == kind \in kinds /\ pc = "merge" /\ j <= Len(vertics)
BothAlive == Alive(vertics[i]) /\ Alive(vertics[j])

Merge_states ==
  /\ Merging({"General", "Buchi"}) /\ BothAlive /\ EQUIVALENT(vertics[i], vertics[j])
  /\ vertics' = Redirected(vertics, i, j)
  /\ state_num' = state_num - 1 /\ simplest' = FALSE
  /\ NextPair
  /\ UNCHANGED <<vwaa, kind, given, trans, rest>>

KeepBoth ==
  /\ Merging({"General", "Buchi"}) /\ ~(BothAlive /\ EQUIVALENT(vertics[i], vertics[j]))
  /\ NextPair
  /\ UNCHANGED <<vwaa, kind, given, vertics, state_num, simplest, trans, rest>>

MergeDone == pc = "merge" /\ j > Len(vertics)

AgainSlip ==
  /\ MergeDone /\ ~simplest
  /\ IF kind = "StateBuchi" THEN Goto("merge", 1, 2) ELSE Goto("mark", 1, 1)
  /\ UNCHANGED <<vwaa, kind, given, vertics, state_num, simplest, trans, rest>>

Again ==
  /\ MergeDone /\ ~simplest
  /\ simplest' = TRUE
  /\ IF kind = "StateBuchi" THEN Goto("merge", 1, 2) ELSE Goto("mark", 1, 1)
  /\ UNCHANGED <<vwaa, kind, given, vertics, state_num, trans, rest>>

(* The generalised automaton is handed to Buchi, whose first state is its  *)
(* first state with nothing counted.                                       *)
StartBuchi ==
  /\ MergeDone /\ simplest /\ kind = "General"
  /\ kind' = "Buchi" /\ given' = vertics
  /\ vertics' = <<BA_State(1, 1, 0)>>
  /\ Goto("build", 1, 1)
  /\ UNCHANGED <<vwaa, state_num, simplest, trans, rest>>

StartStateBuchi ==
  /\ MergeDone /\ simplest /\ kind = "Buchi"
  /\ kind' = "StateBuchi" /\ given' = vertics
  /\ vertics' = <<>>
  /\ Goto("build", 1, 1)
  /\ UNCHANGED <<vwaa, state_num, simplest, trans, rest>>

-----------------------------------------------------------------------------
(* StateBuchi: a state for each arc of the Büchi automaton (field of, for  *)
(* sstateloc), an arc where one arc may follow the other.                  *)

SlotsOf(s)     == {<<s, k>> : k \in DOMAIN given[s].arcs}
Arc(a)         == given[a[1]].arcs[a[2]]
sstateloc(a)   == {v \in DOMAIN vertics : vertics[v].of = a}
SBA_State(id, initial, accepted, a) ==
  [id |-> id, initial |-> initial, accepted |-> accepted, label |-> Arc(a).pred, consumers |-> {}, of |-> a]

FirstSlot(a) == a \in rest /\ \A b \in rest : a[1] < b[1] \/ (a[1] = b[1] /\ a[2] <= b[2])

SBA_Building(loop) == kind = "StateBuchi" /\ pc = loop

(* The arcs into state i, from the states Backward_chaining has noted. *)
Visit ==
  /\ SBA_Building("build") /\ i <= Len(given)
  /\ IF Alive(given[i])
     THEN /\ rest' = {a \in UNION {SlotsOf(s) : s \in {m \in DOMAIN given : Alive(given[m])}} : Arc(a).to = i}
          /\ Goto("in", i, 1)
     ELSE Goto("build", i + 1, 1) /\ UNCHANGED rest
  /\ UNCHANGED <<vwaa, kind, given, vertics, state_num, simplest, trans>>

ArcIn ==
  /\ SBA_Building("in")
  /\ \E a \in rest :
       /\ FirstSlot(a) /\ rest' = rest \ {a}
       /\ vertics' = IF sstateloc(a) = {}
                     THEN Append(vertics, SBA_State(Len(vertics) + 1, FALSE, given[i].accepted, a))
                     ELSE [v \in DOMAIN vertics |->
                             IF vertics[v].of = a THEN [vertics[v] EXCEPT !.accepted = given[i].accepted]
                             ELSE vertics[v]]
  /\ UNCHANGED <<vwaa, kind, given, state_num, simplest, pc, i, j, trans>>

AllIn ==
  /\ SBA_Building("in") /\ rest = {}
  /\ rest' = SlotsOf(i)
  /\ Goto("out", i, 1)
  /\ UNCHANGED <<vwaa, kind, given, vertics, state_num, simplest, trans>>

ArcOut ==
  /\ SBA_Building("out")
  /\ \E a \in rest :
       /\ FirstSlot(a) /\ rest' = rest \ {a}
       /\ vertics' = IF sstateloc(a) = {}
                     THEN Append(vertics, SBA_State(Len(vertics) + 1, i = 1, given[Arc(a).to].accepted, a))
                     ELSE [v \in DOMAIN vertics |->
                             IF vertics[v].of = a THEN [vertics[v] EXCEPT !.initial = (i = 1)] ELSE vertics[v]]
  /\ UNCHANGED <<vwaa, kind, given, state_num, simplest, pc, i, j, trans>>

Link ==
  /\ SBA_Building("out") /\ rest = {}
  /\ vertics' = [v \in DOMAIN vertics |->
                   IF Arc(vertics[v].of).to = i
                   THEN [vertics[v] EXCEPT !.consumers = @ \cup UNION {sstateloc(a) : a \in SlotsOf(i)}]
                   ELSE vertics[v]]
  /\ Goto("build", i + 1, 1)
  /\ UNCHANGED <<vwaa, kind, given, state_num, simplest, trans, rest>>

SBA_Built ==
  /\ SBA_Building("build") /\ i > Len(given)
  /\ state_num' = Len(vertics) /\ simplest' = TRUE
  /\ Goto("merge", 1, 2)
  /\ UNCHANGED <<vwaa, kind, given, vertics, trans, rest>>

SameVertex(v, w) == v.label = w.label /\ v.accepted = w.accepted /\ v.consumers = w.consumers

(* Redirect_transitions included. *)
Merge_state ==
  /\ Merging({"StateBuchi"}) /\ BothAlive /\ SameVertex(vertics[i], vertics[j])
  /\ vertics' = [v \in DOMAIN vertics |->
                   IF v = j THEN [vertics[v] EXCEPT !.id = NONE]
                   ELSE IF ~Alive(vertics[v]) THEN vertics[v]
                   ELSE [vertics[v] EXCEPT
                           !.initial = @ \/ (v = i /\ vertics[j].initial),
                           !.consumers = IF j \in @ THEN (@ \ {j}) \cup {i} ELSE @]]
  /\ state_num' = state_num - 1 /\ simplest' = FALSE
  /\ NextPair
  /\ UNCHANGED <<vwaa, kind, given, trans, rest>>

KeepVertices ==
  /\ Merging({"StateBuchi"}) /\ ~(BothAlive /\ SameVertex(vertics[i], vertics[j]))
  /\ NextPair
  /\ UNCHANGED <<vwaa, kind, given, vertics, state_num, simplest, trans, rest>>

Finish ==
  /\ MergeDone /\ simplest /\ kind = "StateBuchi"
  /\ Goto("done", i, j)
  /\ UNCHANGED <<vwaa, kind, given, vertics, state_num, simplest, trans, rest>>

-----------------------------------------------------------------------------
Build_GBA == ExpandTrue \/ Expand \/ MultiplyNext \/ AddTransition \/ Explored
               \/ CreateSuccessorState \/ SuccessorsDone
Build_BA  == BuildArc \/ BuildNext
Build_SBA == Visit \/ ArcIn \/ AllIn \/ ArcOut \/ Link \/ SBA_Built
Simplify  == Built \/ SkipDead \/ Mark \/ Marked \/ Unlink \/ Unlinked \/ TransitionsDone
               \/ Merge_states \/ KeepBoth \/ Merge_state \/ KeepVertices \/ Again

Step == Build_GBA \/ Build_BA \/ Build_SBA \/ Simplify \/ StartBuchi \/ StartStateBuchi \/ Finish
Done == pc = "done" /\ UNCHANGED vars
Next == Step \/ Done

Spec == Init /\ [][Next]_vars /\ WF_vars(Step)

-----------------------------------------------------------------------------
Living == {s \in DOMAIN vertics : Alive(vertics[s])}

Transition == [pred : SUBSET Literal, dests : SUBSET Node]
GBA_Arc    == [pred : SUBSET Literal, dests : SUBSET Node, uids : SUBSET Nat, to : Nat, readyremove : BOOLEAN]
GBA_State  == [id : Int, arcnum : Int, explored : BOOLEAN, arcs : Seq(GBA_Arc), subformulas : SUBSET Node]
BA_Arc     == [pred : SUBSET Literal, to : Nat, readyremove : BOOLEAN]
BA_States  == [id : Int, arcnum : Int, explored : BOOLEAN, arcs : Seq(BA_Arc),
               gba_stateid : Nat, marknum : 0..ustacksize, accepted : BOOLEAN]
Vertex     == [id : Int, initial : BOOLEAN, accepted : BOOLEAN, label : SUBSET Literal,
               consumers : SUBSET Nat, of : Nat \X Nat]

(* The members of the three classes and the indices of their loops. *)
TypeOK ==
  /\ IsVWAA(vwaa)
  /\ kind \in {"General", "Buchi", "StateBuchi"}
  /\ CASE kind = "General"    -> vertics \in Seq(GBA_State) /\ rest \in SUBSET Node
       [] kind = "Buchi"      -> vertics \in Seq(BA_States) /\ given \in Seq(GBA_State)
       [] kind = "StateBuchi" -> vertics \in Seq(Vertex) /\ given \in Seq(BA_States) /\ rest \in SUBSET (Nat \X Nat)
  /\ state_num \in Int /\ simplest \in BOOLEAN
  /\ pc \in {"build", "product", "successors", "mark", "unlink", "merge", "in", "out", "done"}
  /\ i \in Nat \ {0} /\ j \in Nat \ {0}
  /\ trans \in Seq(Transition)

(* The self_check of the classes, at every step instead of at the end.     *)
(* A state not merged away knows where it is,                              *)
IdsArePositions == \A s \in Living : vertics[s].id = s

(* arcnum is the length of the list through all the insertions,            *)
(* replacements and deletions,                                             *)
ArcsCounted == kind # "StateBuchi" => \A s \in DOMAIN vertics : vertics[s].arcnum = Len(vertics[s].arcs)

(* state_num the number of states not merged away,                         *)
StatesCounted == pc \in {"mark", "unlink", "merge", "done"} => state_num = Cardinality(Living)

(* and no arc leads to a state merged away: each merge finds all arcs to   *)
(* the state it removes.  (CreateSuccessorState has not yet set the last   *)
(* arcs of the state being expanded.)                                      *)
Resolved(s, k) ==
  kind = "General" /\ s = i => pc # "product" /\ (pc = "successors" => k < j)

NoArcToDead ==
  \A s \in Living :
    IF kind = "StateBuchi" THEN vertics[s].consumers \subseteq Living
    ELSE \A k \in DOMAIN vertics[s].arcs : Resolved(s, k) => vertics[s].arcs[k].to \in Living

SelfCheck == IdsArePositions /\ ArcsCounted /\ StatesCounted /\ NoArcToDead

(* Simplify_transition reads firstarc before it looks whether there is     *)
(* one: every state expanded keeps an arc that is not to be removed.       *)
SomeArcStays ==
  kind # "StateBuchi" =>
    \A s \in Living : vertics[s].explored =>
      \E k \in DOMAIN vertics[s].arcs : ~vertics[s].arcs[k].readyremove

(* The three loops of Simplify reach a pass that changes nothing. *)
Finishes == <>(pc = "done")
=============================================================================

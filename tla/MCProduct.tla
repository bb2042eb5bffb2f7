----------------------------- MODULE MCProduct -----------------------------
(***************************************************************************)
(* Instances for Product: every net of two markings against every          *)
(* automaton of two states, and every net of three markings against two    *)
(* automata that have nested and consecutive components.                   *)
(***************************************************************************)
EXTENDS Product

MCMarkings == {0, 1, 2}
MCStates   == {0, 1}

\* Lists of at most two different entries.
Lists(S) == {<<>>} \cup {<<x>> : x \in S} \cup {s \in [1 .. 2 -> S] : s[1] # s[2]}

\* Everything but the labels over a set of nets and a set of automata.
Instances(nets, automata, accepting, initials, labels) ==
  [init    : {0},
   succ    : nets,
   arcs    : automata,
   vertics : {<<0, 1>>},
   accepted: accepting,
   initial : initials,
   label   : labels]

AllButOne == {(MCMarkings \X MCStates) \ {pair} : pair \in {<<1, 0>>, <<1, 1>>}}

\* Marking 2 is never reached.
TwoMarkings == {n \in [MCMarkings -> Lists({0, 1})] : n[2] = <<>>}

SmallSystems ==
  Instances(TwoMarkings, [MCStates -> Lists(MCStates)], {{0}, {1}, {0, 1}},
            {{0}, {0, 1}}, AllButOne \cup {MCMarkings \X MCStates})

\* Automata of the shape of "eventually always" and "infinitely often".
ThreeMarkings == {n \in [MCMarkings -> Lists(MCMarkings)] : n[0] # <<>> /\ n[0] # <<0>>}

NestedArcs == {[b \in MCStates |-> a[b + 1]] :
                 a \in {<<<<0, 1>>, <<1>>>>, <<<<1, 0>>, <<0, 1>>>>}}

MCSystems ==
  SmallSystems \cup
  Instances(ThreeMarkings, NestedArcs, {{1}}, {{0}},
            {MCMarkings \X MCStates, (MCMarkings \X {0}) \cup ({1, 2} \X {1})})
=============================================================================

------------------------------- MODULE MCSynch -------------------------------
(***************************************************************************)
(* A net of three places and five transitions: the value of x is set and   *)
(* reset, c is toggled independently, and the token of x may be taken away *)
(* for good, which leaves it empty.  The propositions read x through its   *)
(* value and through the transitions it enables, and c.                    *)
(*                                                                         *)
(* The automata: every pair of states with at most one arc from each state *)
(* to each, over the guards below, some of which name the same transition; *)
(* and automata of which Simplify has merged away a state.                 *)
(***************************************************************************)
EXTENDS Synch, TLC

V(p, c, neg) == [kind |-> "LTLV", neg |-> neg, obs |-> {p}, val |-> c]
F(ts, neg)   == [kind |-> "LTLF", neg |-> neg, obs |-> ts]
C            == [kind |-> "LTLC", neg |-> FALSE, obs |-> {}]

MCPlaces == {"x", "c", "d"}
MCTransitions == {"set", "reset", "on", "off", "take"}
MCPropositions ==
  {V("x", 1, TRUE), V("c", 1, FALSE),
   F({"set"}, FALSE), F({"reset", "take"}, TRUE), C}

At(p, c) == p :> c

Net(vertics) ==
  [m0    |-> [p \in MCPlaces |-> IF p = "d" THEN EMPTY ELSE 0],
   pre   |-> [t \in MCTransitions |->
                CASE t = "set" -> At("x", 0)   [] t = "reset" -> At("x", 1)
                  [] t = "on"  -> At("c", 0)   [] t = "off"   -> At("c", 1)
                  [] t = "take" -> At("x", 1)],
   post  |-> [t \in MCTransitions |->
                CASE t = "set" -> At("x", 1)   [] t = "reset" -> At("x", 0)
                  [] t = "on"  -> At("c", 1)   [] t = "off"   -> At("c", 0)
                  [] t = "take" -> At("d", 0)],
   abort |-> {"off"},
   vertics |-> vertics]

Guards ==
  {{}, {V("x", 1, TRUE), C}, {F({"set"}, FALSE)},
   {F({"reset", "take"}, TRUE), V("c", 1, FALSE)}}

ArcsTo(dest) == {<<>>} \cup {<<[dest |-> dest, preds |-> g]>> : g \in Guards}

\* The second state is accepting.
Vertex(acc, arcs) == [alive |-> TRUE, accepted |-> acc, arcs |-> arcs]
Hole == [alive |-> FALSE, accepted |-> FALSE, arcs |-> <<>>]

TwoStates ==
  {<<Vertex(FALSE, a \o b), Vertex(TRUE, c \o d)>> :
     a \in ArcsTo(1), b \in ArcsTo(2), c \in ArcsTo(1), d \in ArcsTo(2)}

\* The third of three states was merged into the second; or the second of
\* three into the first.
LastMerged == {v \o <<Hole>> : v \in {w \in TwoStates : w[1].arcs = w[2].arcs}}

MiddleMerged ==
  {<<Vertex(FALSE, a), Hole, Vertex(TRUE, b)>> : a, b \in ArcsTo(3) \ {<<>>}}

MCInstances == {Net(v) : v \in TwoStates \cup LastMerged \cup MiddleMerged}
=============================================================================

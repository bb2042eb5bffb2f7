------------------------------ MODULE MCBuchi ------------------------------
(***************************************************************************)
(* Instances of Buchi: the alternating automata of formulas, made as       *)
(* module Translation makes them, with the nodes in memory in the order    *)
(* they are numbered or in the opposite order.  And what each class of     *)
(* Buchi promises to the next one, compared on words that end in a loop.   *)
(***************************************************************************)
EXTENDS Buchi, LTL

T == INSTANCE SyntaxTree

MCProps   == {"p", "q"}
MCLiteral == MCProps \X BOOLEAN

p == <<"pred", "p", TRUE>>
q == <<"pred", "q", TRUE>>

Simple == {p, <<"neg", q>>, <<"X", q>>, <<"F", p>>, <<"F", q>>, <<"G", q>>, <<"U", p, q>>, <<"U", q, p>>}

Composed == {<<op, f>> : op \in {"X", "F", "G"}, f \in Simple}
              \cup {<<op, f, g>> : op \in {"and", "or", "U"}, f \in Simple, g \in Simple}

(* Fairness, persistence and delays: more untils at a time, an arc that    *)
(* replaces another, an until that could have been left, vertices that     *)
(* differ only in acceptance.                                              *)
Nested ==
  LET GF(f) == <<"G", <<"F", f>>>>
      FG(f) == <<"F", <<"G", f>>>>
  IN  {<<"and", GF(p), GF(q)>>, <<"or", FG(p), FG(q)>>, <<"U", GF(p), q>>,
       <<"F", <<"X", <<"G", p>>>>>>, <<"X", FG(q)>>, <<"U", p, <<"X", <<"G", q>>>>>>,
       <<"F", <<"and", <<"G", p>>, <<"G", q>>>>>>, <<"F", <<"and", <<"X", q>>, <<"G", p>>>>>>,
       <<"F", <<"and", <<"G", q>>, <<"U", q, p>>>>>>, <<"X", <<"U", q, <<"G", p>>>>>>,
       <<"G", <<"or", p, <<"X", <<"U", p, q>>>>>>>>}

Formulas == Composed \cup Nested \cup {<<"neg", f>> : f \in Composed \cup Nested}

RECURSIVE Fix(_)
Fix(n) == IF T!Rewrite(n) = n THEN n ELSE Fix(T!Rewrite(n))

Automaton(f) == T!VWAA(T!Universe(Fix(T!Negation_Down(f))))

Placed(a, up) == [delta |-> a.delta, uid |-> a.uid, start |-> a.start,
                  addr |-> [n \in DOMAIN a.delta |-> IF up THEN n ELSE Len(a.delta) - n]]

MCAutomata == {Placed(Automaton(f), up) : f \in Formulas, up \in BOOLEAN}

-----------------------------------------------------------------------------
(* The arcs of General and Buchi; an accepting state marks the arcs that   *)
(* leave it.                                                               *)
Marks(s, a) == IF kind = "General" THEN a.uids ELSE IF vertics[s].accepted THEN {1} ELSE {}

ArcEdges ==
  UNION {{LET a == vertics[s].arcs[k] IN [src |-> s, pred |-> a.pred, dst |-> a.to, marks |-> Marks(s, a)]
            : k \in DOMAIN vertics[s].arcs} : s \in Living}

(* In a StateBuchi a letter is read in the state it is a label of. *)
VertexEdges ==
  UNION {{[src |-> s, pred |-> vertics[s].label, dst |-> t, marks |-> IF vertics[s].accepted THEN {1} ELSE {}]
            : t \in vertics[s].consumers} : s \in Living}

Language ==
  LET edges == IF kind = "StateBuchi" THEN VertexEdges ELSE ArcEdges
      init  == IF kind = "StateBuchi" THEN {s \in Living : vertics[s].initial} ELSE {1}
      marks == IF kind = "General" THEN {vwaa.uid[u] : u \in Untils} ELSE {1}
  IN  {w \in Words : BuchiAccepts(init, edges, marks, w)}

Accepted == {w \in Words : AlternatingAccepts(vwaa, w)}

(* Between two passes of Simplify. *)
Settled == pc = "done" \/ (pc = "mark" /\ i = 1 /\ j = 1) \/ (pc = "merge" /\ i = 1)

(* The automaton being worked on accepts the words the alternating one     *)
(* accepts: when it is built, after arcs have been dropped, after states   *)
(* have been merged, with the fulfilled untils counted instead of marked,  *)
(* and with the letters moved from the arcs to the states.                 *)
LanguageKept == Settled => Language = Accepted
=============================================================================

--------------------------- MODULE MCTranslation ---------------------------
(***************************************************************************)
(* Instances of Translation: the formulas of one or two operators over two *)
(* propositions, and their negations, whose untils have operands that are  *)
(* literals, next, eventual, universal, until or a conjunction.            *)
(***************************************************************************)
EXTENDS Translation

MCProps == {"p", "q"}

p == <<"pred", "p", TRUE>>
q == <<"pred", "q", TRUE>>

Simple == {p, q, <<"neg", q>>, <<"X", p>>, <<"F", p>>, <<"F", q>>, <<"G", q>>,
           <<"U", p, q>>, <<"U", q, p>>, <<"and", p, q>>}

Composed == {<<op, f>> : op \in {"neg", "X", "F", "G"}, f \in Simple}
              \cup {<<op, f, g>> : op \in {"and", "or", "U"}, f \in Simple, g \in Simple}

(* Untils that share one operand. *)
Sharing == {<<"and", <<"U", p, q>>, <<"U", <<"X", p>>, q>>>>, <<"or", <<"U", p, q>>, <<"U", p, <<"X", q>>>>>>,
            <<"F", <<"and", <<"U", p, q>>, <<"U", <<"G", p>>, q>>>>>>}

AllFormulas == Composed \cup Sharing \cup {<<"neg", f>> : f \in Composed \cup Sharing}

(* An until that pure_even marks after its left operand although its right *)
(* operand is not pure eventual.                                           *)
RECURSIVE Mismarked(_)
Mismarked(n) ==
  \/ n[1] = "U" /\ pure_even(n[2]) /\ ~pure_even(n[3])
  \/ n[1] \in {"neg", "X", "G", "F", "and", "or", "U", "V"} /\ Mismarked(n[2])
  \/ n[1] \in {"and", "or", "U", "V"} /\ Mismarked(n[3])

MCFormulas == {f \in AllFormulas : ~Mismarked(Push_Negation(f))}
=============================================================================

---------------------------- MODULE Translation ----------------------------
(***************************************************************************)
(* What SYNCH::ba2cpn and the product search do with a formula before the  *)
(* Büchi automaton: negate the tree, rewrite it until a pass changes       *)
(* nothing, replace G and F, and turn it into an alternating automaton.    *)
(***************************************************************************)
EXTENDS SyntaxTree, LTL

CONSTANT Formulas     \* what ParseXML can give: no "true", "false" or "V"

VARIABLES property, tree, phase
vars == <<property, tree, phase>>

Init == property \in Formulas /\ tree = property /\ phase = "parsed"

Negate ==
  /\ phase = "parsed" /\ phase' = "negated"
  /\ tree' = Push_Negation(tree)
  /\ UNCHANGED property

SimplifyLTLSlip ==
  /\ phase = "negated"
  /\ tree' = Rewrite(tree)
  /\ phase' = IF tree' = tree /\ tree = Push_Negation(property) THEN "simple" ELSE phase
  /\ UNCHANGED property

SimplifyLTL ==
  /\ phase = "negated"
  /\ tree' = Rewrite(tree)
  /\ phase' = IF tree' = tree THEN "simple" ELSE phase
  /\ UNCHANGED property

ReplaceGF ==
  /\ phase = "simple" /\ phase' = "basic"
  /\ tree' = Universe(tree)
  /\ UNCHANGED property

MakeVWAA ==
  /\ phase = "basic" /\ phase' = "vwaa"
  /\ UNCHANGED <<property, tree>>

Step == Negate \/ SimplifyLTL \/ ReplaceGF \/ MakeVWAA
Done == phase = "vwaa" /\ UNCHANGED vars
Next == Step \/ Done

Spec == Init /\ [][Next]_vars /\ WF_vars(Step)

-----------------------------------------------------------------------------
(* From the negation on the tree holds on exactly the words on which the   *)
(* property does not: a word kept by mistake is a false alarm, a word lost *)
(* a missed one.                                                           *)
MeaningKept == phase # "parsed" => Models(tree) = Words \ Models(property)

(* The alternating automaton accepts those words, after its transitions    *)
(* have been simplified.                                                   *)
AutomatonAgrees ==
  phase = "vwaa" => LET a == VWAA(tree) IN {w \in Words : AlternatingAccepts(a, w)} = Words \ Models(property)

(* SimplifyLTL's loop ends and the automaton is made. *)
Translated == <>(phase = "vwaa")
=============================================================================

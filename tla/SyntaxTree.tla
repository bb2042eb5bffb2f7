------------------------------ MODULE SyntaxTree ------------------------------
(***************************************************************************)
(* The formula tree of a property (BA/Syntax_Tree.cpp): negation, rewriting *)
(* and the very weak alternating automaton (VWAA) it becomes.  A tree is   *)
(* written as a formula of module LTL; the fields pure_even, pure_univ and *)
(* formula that Perfect_Node fills in are functions of it.                 *)
(***************************************************************************)
EXTENDS Integers, Sequences, FiniteSets, SequencesExt

LOCAL Unary  == {"neg", "X", "G", "F"}
LOCAL Binary == {"and", "or", "U", "V"}

DualSlip == [and |-> "or", or |-> "and", G |-> "F", F |-> "G", U |-> "U", V |-> "U", X |-> "X"]

(* The operator an operator becomes under a negation. *)
Dual == [and |-> "or", or |-> "and", G |-> "F", F |-> "G", U |-> "V", V |-> "U", X |-> "X"]

RECURSIVE Push_Negation(_), Negation_Down(_)

(* The tree that stands for the negation of n, with negations at the      *)
(* propositions only.                                                     *)
Push_Negation(n) ==
  CASE n[1] = "pred"   -> [n EXCEPT ![3] = ~@]
    [] n[1] = "neg"    -> Negation_Down(n[2])
    [] n[1] \in Binary -> <<Dual[n[1]], Push_Negation(n[2]), Push_Negation(n[3])>>
    [] OTHER           -> <<Dual[n[1]], Push_Negation(n[2])>>

Negation_Down(n) ==
  CASE n[1] = "neg"    -> Push_Negation(n[2])
    [] n[1] = "pred"   -> n
    [] n[1] \in Binary -> <<n[1], Negation_Down(n[2]), Negation_Down(n[3])>>
    [] OTHER           -> <<n[1], Negation_Down(n[2])>>

-----------------------------------------------------------------------------
(* Perfect_Node and Rewrite. *)

(* An until is marked pure eventual after its left operand. *)
RECURSIVE pure_even(_), pure_univ(_)
pure_even(n) ==
  CASE n[1] = "F" -> TRUE
    [] n[1] \in {"and", "or", "V"} -> pure_even(n[2]) /\ pure_even(n[3])
    [] n[1] \in {"X", "G", "U"} -> pure_even(n[2])
    [] OTHER -> FALSE

pure_univ(n) ==
  CASE n[1] = "G" -> TRUE
    [] n[1] \in Binary -> pure_univ(n[2]) /\ pure_univ(n[3])
    [] n[1] \in {"X", "F"} -> pure_univ(n[2])
    [] OTHER -> FALSE

(* One pass from the root.  A conjunction or disjunction of two untils that *)
(* do not share an operand is left as it is, and so is all below it.       *)
RECURSIVE Rewrite(_)
Rewrite(n) ==
  LET both(op) == n[1] = op /\ n[2][1] = "U" /\ n[3][1] = "U" IN
  CASE both("and") ->
         IF n[2][3] = n[3][3] THEN <<"U", Rewrite(<<"and", n[2][2], n[3][2]>>), Rewrite(n[2][3])>>
         ELSE n
    [] both("or") ->
         IF n[2][2] = n[3][2] THEN <<"U", Rewrite(n[2][2]), Rewrite(<<"or", n[2][3], n[3][3]>>)>>
         ELSE n
    [] n[1] = "F" /\ n[2][1] = "U"    -> <<"F", Rewrite(n[2][3])>>
    [] n[1] = "U" /\ pure_even(n[3])  -> Rewrite(n[3])
    [] n[1] = "F" /\ n[2][1] # "U" /\ pure_even(n[2]) -> Rewrite(n[2])
    [] n[1] = "V" /\ pure_univ(n[3])  -> Rewrite(n[3])
    [] n[1] = "G" /\ pure_univ(n[2])  -> Rewrite(n[2])
    [] n[1] \in {"pred", "true", "false"} -> n
    [] OTHER -> IF n[1] \in Unary THEN <<n[1], Rewrite(n[2])>>
                ELSE <<n[1], Rewrite(n[2]), Rewrite(n[3])>>

(* G and F become V and U. *)
RECURSIVE Universe(_)
Universe(n) ==
  CASE n[1] = "G" -> <<"V", <<"false">>, Universe(n[2])>>
    [] n[1] = "F" -> <<"U", <<"true">>, Universe(n[2])>>
    [] n[1] = "X" -> <<"X", Universe(n[2])>>
    [] n[1] \in Binary -> <<n[1], Universe(n[2]), Universe(n[3])>>
    [] OTHER -> n

-----------------------------------------------------------------------------
(* Get_DNF, Build_VWAA, VWAA_Simplify.  The nodes are numbered from the    *)
(* root down, left before right: the order in which Universe hands out     *)
(* uids.                                                                   *)

RECURSIVE Nodes(_)
Nodes(n) ==
  CASE n[1] \in Binary -> <<n>> \o Nodes(n[2]) \o Nodes(n[3])
    [] n[1] \in Unary  -> <<n>> \o Nodes(n[2])
    [] OTHER -> <<n>>

Left(k)     == k + 1
Right(t, k) == k + 1 + Len(Nodes(t[k][2]))

RECURSIVE DNF(_, _)
DNF(t, k) ==
  CASE t[k][1] = "and" -> LET l == DNF(t, Left(k))  r == DNF(t, Right(t, k)) IN
                          [m \in 1..Len(l) * Len(r) |-> l[((m - 1) \div Len(r)) + 1] \cup r[((m - 1) % Len(r)) + 1]]
    [] t[k][1] = "or"  -> DNF(t, Left(k)) \o DNF(t, Right(t, k))
    [] OTHER -> << {k} >>

(* Set union and product of lists of transitions. *)
Plus(l, r)  == l \o SelectSeq(r, LAMBDA d : d \notin ToSet(l))
Times(l, r) == [m \in 1..Len(l) * Len(r) |->
                  LET d == l[((m - 1) \div Len(r)) + 1]
                      e == r[((m - 1) % Len(r)) + 1]
                  IN  [pred |-> d.pred \cup e.pred, dests |-> d.dests \cup e.dests]]

RECURSIVE Build_VWAA(_, _)
Build_VWAA(t, k) ==
  LET l    == Build_VWAA(t, Left(k))
      r    == Build_VWAA(t, Right(t, k))
      self == << [pred |-> {}, dests |-> {k}] >>
  IN  CASE t[k][1] = "true"  -> << [pred |-> {}, dests |-> {}] >>
        [] t[k][1] = "false" -> <<>>
        [] t[k][1] = "pred"  -> << [pred |-> {<<t[k][2], t[k][3]>>}, dests |-> {}] >>
        [] t[k][1] = "and"   -> Times(l, r)
        [] t[k][1] = "or"    -> Plus(l, r)
        [] t[k][1] = "X"     -> [m \in DOMAIN DNF(t, Left(k)) |-> [pred |-> {}, dests |-> DNF(t, Left(k))[m]]]
        [] t[k][1] = "U"     -> Plus(r, Times(l, self))
        [] t[k][1] = "V"     -> Times(r, Plus(l, self))

Transition_SimplifySlip(ds) ==
  LET implies(d, e) == d.pred \subseteq e.pred /\ e.dests \subseteq d.dests
      keep == {m \in DOMAIN ds : ~\E n \in DOMAIN ds \ {m} :
                 implies(ds[n], ds[m]) /\ (n < m \/ ~implies(ds[m], ds[n]))}
      kept == SetToSortSeq(keep, <)
  IN  [m \in DOMAIN kept |-> ds[kept[m]]]

(* Transitions another one implies are erased; of equal ones the first     *)
(* stays.                                                                  *)
Transition_Simplify(ds) ==
  LET implies(d, e) == d.pred \subseteq e.pred /\ d.dests \subseteq e.dests
      keep == {m \in DOMAIN ds : ~\E n \in DOMAIN ds \ {m} :
                 implies(ds[n], ds[m]) /\ (n < m \/ ~implies(ds[m], ds[n]))}
      kept == SetToSortSeq(keep, <)
  IN  [m \in DOMAIN kept |-> ds[kept[m]]]

(* The conjuncts the initial state of the automaton starts from: the right *)
(* spine of the conjunction at the root.                                   *)
RECURSIVE Conjuncts(_, _)
Conjuncts(t, k) == IF t[k][1] = "and" THEN {Left(k)} \cup Conjuncts(t, Right(t, k)) ELSE {k}

VWAA(tree) ==
  LET t    == Nodes(tree)
      us   == {k \in DOMAIN t : t[k][1] = "U"}
      simp(k) == IF t[k][1] \in {"pred", "true", "false"} THEN Build_VWAA(t, k)
                 ELSE Transition_Simplify(Build_VWAA(t, k))
  IN  [delta |-> [k \in DOMAIN t |-> simp(k)],
       uid   |-> [u \in us |-> Cardinality({v \in us : v <= u})],
       start |-> Conjuncts(t, 1)]
=============================================================================

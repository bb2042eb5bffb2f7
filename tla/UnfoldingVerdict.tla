-------------------------- MODULE UnfoldingVerdict --------------------------
(***************************************************************************)
(* What the unfolding promises: the verdict that the whole state graph of  *)
(* the synchronized net gives, though it looks only at some orders of the  *)
(* steps of different threads.                                             *)
(*                                                                         *)
(* A counterexample in the state graph is what is_counterexample and       *)
(* is_counterexample_endpoint look for in the prefix: a cycle with an      *)
(* automaton move into an accepting state, or a cycle, or the end of the   *)
(* program, with the automaton in one.                                     *)
(***************************************************************************)
EXTENDS Unfolding

HoldsAt(a, M) ==
  IF a.kind = "LTLV" THEN (<<a.obs, a.val>> \in M) # a.neg
  ELSE (\E k \in DOMAIN net.modes[a.obs] : (net.modes[a.obs][k].in \ {<<net.S, "ba">>}) \subseteq M) # a.neg

EnabledModes(t, M) ==
  IF \E a \in net.guard[t] : ~HoldsAt(a, M) THEN {}
  ELSE {m \in ToSet(net.modes[t]) : m.in \subseteq M}

FireMode(M, m) == (M \ m.in) \cup m.out

\* The markings one step of a transition in ts leads to.
StepsOf(ts, M) == UNION {{FireMode(M, m) : m \in EnabledModes(t, M)} : t \in ts \ net.abort}
Successors(M) == StepsOf(T(net), M)

RECURSIVE Reach(_, _)
Reach(seen, new) ==
  IF new = {} THEN seen
  ELSE Reach(seen \cup new, UNION {Successors(M) : M \in new} \ (seen \cup new))

Reachable == Reach({}, {net.m0})

\* The automaton is in an accepting state.
AcceptingPlaces == UNION {{a.p : a \in net.trans[t].out} : t \in net.I} \ {net.S}
Accepting(M) == \E s \in M : s[1] \in AcceptingPlaces

OnCycle(M, next) == M \in Reach({}, next)

Refuted ==
  \E M \in Reachable :
    \/ \E N \in StepsOf(net.I, M) : OnCycle(M, {N})
    \/ Accepting(M) /\ (Successors(M) = {} \/ OnCycle(M, Successors(M)))

\* The program has a loop: a transition gives its control token back.
HasLoop ==
  \E t \in T(net) \ net.baT : \E a \in net.trans[t].in : a.type = "executed" /\ a \in net.trans[t].out

-----------------------------------------------------------------------------
\* "False" is right: there is a counterexample, whatever was cut off, put off
\* or taken over from an earlier configuration on the way to it.
CounterexampleReal == result = "False" => Refuted

\* "True" is right (Readme.md: "partial-order checking with unfolding to
\* verify LTL"): no order of the steps that the conflicts left out had one.
NothingMissed == result = "True" => ~Refuted

\* The same for programs that cannot wait in a loop.
NothingMissedWithoutLoops == result = "True" /\ ~HasLoop => ~Refuted

\* The table of conflicts has every race: transitions of two threads that are
\* enabled together, without one taking the other's tokens of control, and
\* that use one variable or mutex, of which one of them does not only read,
\* are opponents.
Used(t) == {a.p : a \in net.trans[t].in \cup net.trans[t].out} \cap tbl.varP
OnlyRead(t) == {a.p : a \in {b \in net.trans[t].out : b.type = "readArc"}}

Together(t, u, M) ==
  \E m \in EnabledModes(t, M), k \in EnabledModes(u, M) :
    \A s \in m.in \cap k.in : s[1] \in tbl.varP

Paired(t, u) ==
  \E x \in DOMAIN tbl.conflict : x[1] = t /\ \E k \in DOMAIN tbl.conflict[x] : u \in tbl.conflict[x][k].ts

ProgramT == T(net) \ (net.baT \cup net.creators)
Racing == {tu \in ProgramT \X ProgramT :
             tu[1] # tu[2] /\ (Used(tu[1]) \cap Used(tu[2])) \ (OnlyRead(tu[1]) \cap OnlyRead(tu[2])) # {}}

ConflictsCoverRaces ==
  result # "" => \A tu \in Racing : Paired(tu[1], tu[2]) \/ \A M \in Reachable : ~Together(tu[1], tu[2], M)
=============================================================================

--------------------------------- MODULE LTL ---------------------------------
(***************************************************************************)
(* What linear temporal logic means, on words that end in a loop: the      *)
(* yardstick for the automata, not a model of code.                        *)
(*                                                                         *)
(* A formula is <<"pred", a, b>>, the proposition a read as b, <<"true">>, *)
(* <<"false">>, or an operator followed by its operands: "neg", "and",     *)
(* "or", "X", "G", "F", "U", "V".  A literal is <<a, b>>.                  *)
(***************************************************************************)
EXTENDS Integers, Sequences, FiniteSets

CONSTANTS Props, MaxLasso     \* propositions; the length of a word up to its loop

(* A word: letters 1 to Len(letters), after the last of which it goes on   *)
(* at letter number loop.                                                  *)
Words == UNION {[letters : [1..n -> SUBSET Props], loop : 1..n] : n \in 1..MaxLasso}

After(w, i)    == IF i = Len(w.letters) THEN w.loop ELSE i + 1
Positions(w)   == DOMAIN w.letters

(* The position k steps after each position. *)
Later(w) ==
  LET at[k \in 0..Len(w.letters)] ==
        [i \in Positions(w) |-> IF k = 0 THEN i ELSE After(w, at[k - 1][i])]
  IN  [k \in 0..Len(w.letters) |-> at[k]]

(* The positions from which a position of R is reached through L. *)
Reaching(w, L, R) ==
  LET s == Later(w) IN
  {i \in Positions(w) : \E k \in DOMAIN s : s[k][i] \in R /\ \A j \in 0..k - 1 : s[j][i] \in L}

RECURSIVE Holds(_, _)
Holds(f, w) ==
  LET all == Positions(w)
      a   == Holds(f[2], w)
      b   == Holds(f[3], w)
  IN  CASE f[1] = "true"  -> all
        [] f[1] = "false" -> {}
        [] f[1] = "pred"  -> {i \in all : (f[2] \in w.letters[i]) = f[3]}
        [] f[1] = "neg"   -> all \ a
        [] f[1] = "and"   -> a \cap b
        [] f[1] = "or"    -> a \cup b
        [] f[1] = "X"     -> {i \in all : After(w, i) \in a}
        [] f[1] = "F"     -> Reaching(w, all, a)
        [] f[1] = "G"     -> all \ Reaching(w, all, all \ a)
        [] f[1] = "U"     -> Reaching(w, a, b)
        [] f[1] = "V"     -> all \ Reaching(w, all \ a, all \ b)

Models(f) == {w \in Words : 1 \in Holds(f, w)}

-----------------------------------------------------------------------------
(* What automata accept.  A set of literals admits a letter that agrees    *)
(* with all of them.                                                       *)

Admits(pred, letter) == \A l \in pred : (l[1] \in letter) = l[2]

(* A Büchi automaton: initial states, edges [src, pred, dst, marks], and   *)
(* the marks an accepting run has to meet again and again.  The moves on   *)
(* the word are cut down to those from which every mark can be met.        *)
BuchiAccepts(init, edges, marks, w) ==
  LET src(m) == <<m[1].src, m[2]>>
      dst(m) == <<m[1].dst, After(w, m[2])>>
      RECURSIVE Back(_, _), Trim(_)
      Back(R, M) == LET new == {src(m) : m \in {x \in M : dst(x) \in R}} \ R
                    IN  IF new = {} THEN R ELSE Back(R \cup new, M)
      Trim(M) ==
        LET back == {Back({src(m) : m \in {x \in M : u \in x[1].marks}}, M) : u \in marks}
            good == {n \in {src(m) : m \in M} : \A B \in back : n \in B}
            keep == {m \in M : src(m) \in good /\ dst(m) \in good}
        IN  IF keep = M THEN good ELSE Trim(keep)
  IN  \E q \in init : <<q, 1>> \in Trim({m \in edges \X Positions(w) : Admits(m[1].pred, w.letters[m[2]])})

(* An alternating automaton in which a node leads to itself and to nodes   *)
(* of higher number: the positions at which each node accepts.  A run may  *)
(* stay in a node for ever unless the node is an until.                    *)
RECURSIVE Stays(_, _, _, _, _)
Stays(delta, w, n, sat, now) ==
  LET then == {k \in Positions(w) : \E t \in DOMAIN delta[n] :
                 /\ Admits(delta[n][t].pred, w.letters[k])
                 /\ \A d \in delta[n][t].dests : After(w, k) \in (IF d = n THEN now ELSE sat[d])}
  IN  IF then = now THEN now ELSE Stays(delta, w, n, sat, then)

RECURSIVE AcceptsFrom(_, _, _, _, _)
AcceptsFrom(delta, untils, w, n, sat) ==
  IF n = 0 THEN sat
  ELSE AcceptsFrom(delta, untils, w, n - 1,
         [sat EXCEPT ![n] = Stays(delta, w, n, sat, IF n \in untils THEN {} ELSE Positions(w))])

AlternatingAccepts(a, w) ==
  LET none == [n \in DOMAIN a.delta |-> {}]
      sat  == AcceptsFrom(a.delta, DOMAIN a.uid, w, Len(a.delta), none)
  IN  \A n \in a.start : 1 \in sat[n]
=============================================================================

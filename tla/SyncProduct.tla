----------------------------- MODULE SyncProduct -----------------------------
(***************************************************************************)
(* What SYNCH promises the unfolding: the net and the automaton move as    *)
(* one system.  The automaton moves first and then once for every visible  *)
(* step of the net, reading the net's marking; steps of the net that no    *)
(* proposition of the automaton can notice are free.                       *)
(***************************************************************************)
EXTENDS Integers, Sequences, FiniteSets

CONSTANTS
  Places, Transitions,    \* of the PDNet
  Colors,                 \* the colours a token can have
  EMPTY                   \* the content of a place without token

VARIABLES
  inst,   \* the net with its automaton (see Synch)
  m,      \* the marking of the net
  q,      \* the state of the automaton, an index into vertics
  turn,   \* whose visible move it is: "ba" or "net"
  accept  \* the last automaton move entered an accepting state

spvars == <<inst, m, q, turn, accept>>

Enabled(t, mk) == \A p \in DOMAIN inst.pre[t] : mk[p] = inst.pre[t][p]

Fire(t, mk) ==
  [p \in Places |-> IF p \in DOMAIN inst.post[t] THEN inst.post[t][p]
                    ELSE IF p \in DOMAIN inst.pre[t] THEN EMPTY
                    ELSE mk[p]]

\* A fireability proposition, true or negated, and a comparison of the value
\* of a place, which is false both ways while the place is empty.
Holds(a, mk) ==
  \/ a.kind = "LTLF" /\ ((\E t \in a.obs : Enabled(t, mk)) # a.neg)
  \/ a.kind = "LTLV" /\ \A p \in a.obs : mk[p] # EMPTY /\ ((mk[p] = a.val) # a.neg)

Atoms ==
  UNION {UNION {inst.vertics[v].arcs[k].preds : k \in DOMAIN inst.vertics[v].arcs} :
           v \in {w \in DOMAIN inst.vertics : inst.vertics[w].alive}}

\* The places a proposition depends on.
Scope(a) ==
  CASE a.kind = "LTLV" -> a.obs
    [] a.kind = "LTLF" -> UNION {DOMAIN inst.pre[t] : t \in a.obs}
    [] OTHER -> {}

Visible(t) ==
  \E a \in Atoms :
    (DOMAIN inst.pre[t] \cup DOMAIN inst.post[t]) \cap Scope(a) # {}

SPInit == m = inst.m0 /\ q = 1 /\ turn = "ba" /\ accept = FALSE

AutomatonMoves ==
  /\ turn = "ba"
  /\ \E k \in DOMAIN inst.vertics[q].arcs :
       /\ \A a \in inst.vertics[q].arcs[k].preds :
            a.kind \in {"LTLF", "LTLV"} => Holds(a, m)
       /\ q' = inst.vertics[q].arcs[k].dest
  /\ accept' = inst.vertics[q'].accepted
  /\ turn' = "net"
  /\ UNCHANGED <<inst, m>>

NetMoves(t) ==
  /\ Enabled(t, m)
  /\ m' = Fire(t, m)
  /\ IF Visible(t) THEN turn = "net" /\ turn' = "ba" ELSE UNCHANGED turn
  /\ UNCHANGED <<inst, q, accept>>

SPNext == AutomatonMoves \/ \E t \in Transitions \ inst.abort : NetMoves(t)

SPSpec == SPInit /\ [][SPNext]_spvars
=============================================================================

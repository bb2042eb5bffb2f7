---------------------------- MODULE BuchiProofs ----------------------------
(***************************************************************************)
(* What holds of Buchi for every set of alternating automata, proved.      *)
(***************************************************************************)
EXTENDS Buchi, SequenceTheorems, FiniteSetTheorems, WellFoundedInduction, TLAPS

\* The nodes that have a transition; those of a state always do.
Live == {n \in Node : vwaa.delta[n] # <<>>}

ArcKinds == {"General", "Buchi"}            \* the kinds whose states have arcs
Stages == {"build", "product", "successors"}

\* The arcs and states of the class at work.
ArcT   == IF kind = "General" THEN GBA_Arc ELSE BA_Arc
StateT == IF kind = "General" THEN GBA_State ELSE BA_States

LivingIn(g) == {s \in DOMAIN g : Alive(g[s])}

\* What a class leaves to the next one: a first state, and from each state a
\* way on.
Closed(g) ==
  /\ 1 \in LivingIn(g)
  /\ \A s \in LivingIn(g) : /\ g[s].arcs # <<>>
                            /\ \A k \in DOMAIN g[s].arcs : g[s].arcs[k].to \in LivingIn(g)

Slots == UNION {SlotsOf(s) : s \in LivingIn(given)}

Control ==
  /\ vwaa \in Automata
  /\ kind \in {"General", "Buchi", "StateBuchi"}
  /\ pc \in {"build", "product", "successors", "mark", "unlink", "merge", "in", "out", "done"}
  /\ pc \in {"product", "successors"} => kind = "General"
  /\ pc \in {"mark", "unlink"} => kind \in ArcKinds
  /\ pc \in {"in", "out", "done"} => kind = "StateBuchi"
  /\ i \in Nat \ {0} /\ j \in Nat \ {0}
  /\ state_num \in Int /\ simplest \in BOOLEAN

Indices ==
  /\ pc \in {"product", "successors", "unlink"} => i \in DOMAIN vertics
  /\ pc = "unlink" => Alive(vertics[i])
  /\ pc = "merge" => i < j
  /\ pc \in {"in", "out"} => i \in LivingIn(given)

Locals ==
  /\ trans \in Seq([pred : SUBSET Literal, dests : SUBSET Live])
  /\ kind = "General" => rest \subseteq Live /\ (pc # "product" => rest = {})
  /\ kind = "Buchi" => rest = {}
  /\ kind = "StateBuchi" => rest \subseteq Slots

Members ==
  /\ kind \in ArcKinds => vertics \in Seq(StateT) /\ vertics # <<>> /\ Alive(vertics[1])
  /\ kind = "General" => \A s \in DOMAIN vertics :
                           /\ vertics[s].subformulas \subseteq Live
                           /\ \A k \in DOMAIN vertics[s].arcs : vertics[s].arcs[k].dests \subseteq Live
  /\ kind = "Buchi" => /\ given \in Seq(GBA_State)
                       /\ \A s \in DOMAIN vertics : vertics[s].gba_stateid \in LivingIn(given)
  /\ kind = "StateBuchi" => vertics \in Seq(Vertex) /\ given \in Seq(BA_States)
  /\ kind # "General" => Closed(given)

\* While states are added none has been merged, no arc marked, and the states
\* to come have no arcs.
Growing ==
  /\ kind \in ArcKinds /\ pc \in Stages =>
       \A s \in DOMAIN vertics :
         /\ vertics[s].id = s
         /\ \A k \in DOMAIN vertics[s].arcs : ~vertics[s].arcs[k].readyremove
         /\ s > i \/ (s = i /\ kind = "General" /\ pc = "build") => vertics[s].arcs = <<>>
         /\ s < i \/ (s = i /\ pc = "successors") => vertics[s].explored
  /\ pc = "product" => /\ rest # {} => trans # <<>>
                       /\ trans # <<>> \/ vertics[i].arcs # <<>>
  /\ kind = "Buchi" /\ pc = "build" /\ i \in DOMAIN vertics /\ j > 1 => vertics[i].arcs # <<>>
  /\ kind = "StateBuchi" /\ pc \in {"build", "in", "out"} => \A v \in DOMAIN vertics : vertics[v].id = v

AllExplored == kind \in ArcKinds /\ pc \notin Stages => \A s \in DOMAIN vertics : vertics[s].explored

IInv == Control /\ Indices /\ Locals /\ Members /\ Growing /\ AllExplored /\ SelfCheck /\ SomeArcStays
-----------------------------------------------------------------------------
(* Numbers, sequences and states. *)

\* The least element CHOOSE picks is there.
LEMMA Least ==
  ASSUME NEW S, S \subseteq Nat, S # {}
  PROVE  LET n == CHOOSE k \in S : \A m \in S : k <= m
         IN  n \in S /\ \A m \in S : n <= m
<1> DEFINE R == OpToRel(<, Nat)
<1>1. PICK x \in S : \A y \in S : ~(<<y, x>> \in R)
  BY WFMin, NatLessThanWellFounded
<1>2. \A y \in S : ~(y < x)
  BY <1>1 DEF OpToRel
<1>3. \E k \in S : \A m \in S : k <= m
  BY <1>2
<1> QED BY <1>3

LEMMA Elements ==
  ASSUME NEW T, NEW s \in Seq(T)
  PROVE  Len(s) \in Nat /\ DOMAIN s = 1 .. Len(s) /\ \A k \in DOMAIN s : s[k] \in T
OBVIOUS

LEMMA NonEmpty ==
  ASSUME NEW T, NEW s \in Seq(T), s # <<>>
  PROVE  1 \in DOMAIN s /\ Len(s) > 0
OBVIOUS

LEMMA SameLength ==
  ASSUME NEW T, NEW s \in Seq(T), NEW t \in Seq(T), DOMAIN s = DOMAIN t
  PROVE  Len(s) = Len(t)
BY SeqEqual, LenProperties

LEMMA Retype ==
  ASSUME NEW U, NEW T, NEW s \in Seq(U), \A k \in DOMAIN s : s[k] \in T
  PROVE  s \in Seq(T)
<1>1. Len(s) \in Nat /\ s = [k \in 1 .. Len(s) |-> s[k]]
  OBVIOUS
<1> QED BY <1>1

\* The list without one element.
LEMMA RemoveAtFacts ==
  ASSUME NEW T, NEW s \in Seq(T), NEW k \in DOMAIN s
  PROVE  /\ RemoveAt(s, k) \in Seq(T)
         /\ Len(RemoveAt(s, k)) = Len(s) - 1
         /\ \A m \in DOMAIN RemoveAt(s, k) :
              RemoveAt(s, k)[m] = IF m < k THEN s[m] ELSE s[m + 1]
<1> DEFINE a == SubSeq(s, 1, k - 1)
           b == SubSeq(s, k + 1, Len(s))
<1>1. k \in 1 .. Len(s) /\ Len(s) \in Nat /\ DOMAIN s = 1 .. Len(s)
  OBVIOUS
<1>2. /\ a \in Seq(T) /\ Len(a) = k - 1
      /\ \A m \in 1 .. k - 1 : a[m] = s[m]
  BY <1>1
<1>3. /\ b \in Seq(T) /\ Len(b) = Len(s) - k
      /\ \A m \in 1 .. Len(s) - k : b[m] = s[m + k]
  BY <1>1
<1>4. RemoveAt(s, k) = a \o b
  BY DEF RemoveAt
<1> HIDE DEF a, b
<1>5. /\ a \o b \in Seq(T) /\ Len(a \o b) = Len(s) - 1
      /\ \A m \in 1 .. Len(s) - 1 : (a \o b)[m] = IF m <= Len(a) THEN a[m] ELSE b[m - Len(a)]
  <2>1. a \o b \in Seq(T) /\ Len(a \o b) = Len(a) + Len(b)
    BY <1>2, <1>3, ConcatProperties
  <2>2. \A m \in 1 .. Len(a) + Len(b) : (a \o b)[m] = IF m <= Len(a) THEN a[m] ELSE b[m - Len(a)]
    BY <1>2, <1>3, ConcatProperties
  <2>3. Len(a) + Len(b) = Len(s) - 1
    BY <1>1, <1>2, <1>3
  <2> QED BY <2>1, <2>2, <2>3
<1>6. \A m \in 1 .. Len(s) - 1 : (a \o b)[m] = IF m < k THEN s[m] ELSE s[m + 1]
  <2> SUFFICES ASSUME NEW m \in 1 .. Len(s) - 1
               PROVE  (a \o b)[m] = IF m < k THEN s[m] ELSE s[m + 1]
    OBVIOUS
  <2>1. CASE m < k
    BY <2>1, <1>1, <1>2, <1>5
  <2>2. CASE ~(m < k)
    <3>1. m - (k - 1) \in 1 .. Len(s) - k /\ (m - (k - 1)) + k = m + 1
      BY <2>2, <1>1
    <3> QED BY <3>1, <2>2, <1>1, <1>2, <1>3, <1>5
  <2> QED BY <2>1, <2>2
<1>7. DOMAIN (a \o b) = 1 .. Len(s) - 1
  BY <1>5
<1> QED BY <1>4, <1>5, <1>6, <1>7

\* The fields all states have.
LEMMA StateFields ==
  ASSUME kind \in ArcKinds, NEW s \in StateT
  PROVE  /\ s.id \in Int /\ s.arcnum \in Int /\ s.explored \in BOOLEAN
         /\ s.arcs \in Seq(ArcT)
         /\ Len(s.arcs) \in Nat /\ DOMAIN s.arcs = 1 .. Len(s.arcs)
         /\ \A k \in DOMAIN s.arcs : s.arcs[k] \in ArcT
<1>1. CASE kind = "General"
  BY <1>1 DEF StateT, ArcT, GBA_State
<1>2. CASE kind = "Buchi"
  BY <1>2 DEF StateT, ArcT, BA_States
<1>3. /\ s.id \in Int /\ s.arcnum \in Int /\ s.explored \in BOOLEAN
      /\ s.arcs \in Seq(ArcT)
  BY <1>1, <1>2 DEF ArcKinds
<1> HIDE DEF ArcT
<1> QED BY <1>3

LEMMA ArcFields ==
  ASSUME kind \in ArcKinds, NEW a \in ArcT
  PROVE  a.pred \in SUBSET Literal /\ a.to \in Nat /\ a.readyremove \in BOOLEAN
<1>1. CASE kind = "General"
  BY <1>1 DEF ArcT, GBA_Arc
<1>2. CASE kind = "Buchi"
  BY <1>2 DEF ArcT, BA_Arc
<1> QED BY <1>1, <1>2 DEF ArcKinds

\* What a state keeps when one of its fields changes.
Same(s, t) ==
  /\ kind = "General" => t.subformulas = s.subformulas
  /\ kind = "Buchi" => t.gba_stateid = s.gba_stateid

LEMMA WithArcsAndCount ==
  ASSUME kind \in ArcKinds, NEW s \in StateT, NEW as \in Seq(ArcT), NEW n \in Int
  PROVE  LET t == [s EXCEPT !.arcs = as, !.arcnum = n] IN
         t \in StateT /\ t.id = s.id /\ t.arcnum = n /\ t.explored = s.explored /\ t.arcs = as /\ Same(s, t)
<1>1. CASE kind = "General"
  BY <1>1 DEF StateT, ArcT, GBA_State, Same
<1>2. CASE kind = "Buchi"
  BY <1>2 DEF StateT, ArcT, BA_States, Same
<1> QED BY <1>1, <1>2 DEF ArcKinds

LEMMA WithArcs ==
  ASSUME kind \in ArcKinds, NEW s \in StateT, NEW as \in Seq(ArcT)
  PROVE  LET t == [s EXCEPT !.arcs = as] IN
         t \in StateT /\ t.id = s.id /\ t.arcnum = s.arcnum /\ t.explored = s.explored /\ t.arcs = as /\ Same(s, t)
<1>1. CASE kind = "General"
  BY <1>1 DEF StateT, ArcT, GBA_State, Same
<1>2. CASE kind = "Buchi"
  BY <1>2 DEF StateT, ArcT, BA_States, Same
<1> QED BY <1>1, <1>2 DEF ArcKinds

LEMMA WithExplored ==
  ASSUME kind \in ArcKinds, NEW s \in StateT, NEW b \in BOOLEAN
  PROVE  LET t == [s EXCEPT !.explored = b] IN
         t \in StateT /\ t.id = s.id /\ t.arcnum = s.arcnum /\ t.explored = b /\ t.arcs = s.arcs /\ Same(s, t)
<1>1. CASE kind = "General"
  BY <1>1 DEF StateT, ArcT, GBA_State, Same
<1>2. CASE kind = "Buchi"
  BY <1>2 DEF StateT, ArcT, BA_States, Same
<1> QED BY <1>1, <1>2 DEF ArcKinds

LEMMA WithId ==
  ASSUME kind \in ArcKinds, NEW s \in StateT, NEW n \in Int
  PROVE  LET t == [s EXCEPT !.id = n] IN
         t \in StateT /\ t.id = n /\ t.arcnum = s.arcnum /\ t.explored = s.explored /\ t.arcs = s.arcs /\ Same(s, t)
<1>1. CASE kind = "General"
  BY <1>1 DEF StateT, ArcT, GBA_State, Same
<1>2. CASE kind = "Buchi"
  BY <1>2 DEF StateT, ArcT, BA_States, Same
<1> QED BY <1>1, <1>2 DEF ArcKinds

\* An arc added at the head.
LEMMA Prepend ==
  ASSUME NEW T, NEW d \in T, NEW s \in Seq(T)
  PROVE  /\ <<d>> \o s \in Seq(T) /\ Len(<<d>> \o s) = Len(s) + 1 /\ <<d>> \o s # <<>>
         /\ \A k \in DOMAIN (<<d>> \o s) :
              (<<d>> \o s)[k] = d \/ \E m \in DOMAIN s : (<<d>> \o s)[k] = s[m]
<1>1. /\ <<d>> \o s \in Seq(T) /\ Len(<<d>> \o s) = 1 + Len(s)
      /\ \A k \in 1 .. 1 + Len(s) : (<<d>> \o s)[k] = IF k <= 1 THEN d ELSE s[k - 1]
  BY ConcatProperties
<1>2. DOMAIN (<<d>> \o s) = 1 .. 1 + Len(s) /\ DOMAIN s = 1 .. Len(s) /\ Len(s) \in Nat
  BY <1>1
<1>3. \A k \in 1 .. 1 + Len(s) : k <= 1 \/ k - 1 \in DOMAIN s
  BY <1>2
<1>4. <<d>> \o s # <<>>
  BY <1>1, <1>2
<1> QED BY <1>1, <1>2, <1>3, <1>4

\* What AddArc does, however the arcs compare: the count stays right, a
\* state is never left without an arc, and no arc comes from elsewhere.
LEMMA AddArcFacts ==
  ASSUME kind \in ArcKinds, NEW s \in StateT, NEW d \in ArcT,
         NEW above, NEW below, above \subseteq DOMAIN s.arcs, below \subseteq DOMAIN s.arcs
  PROVE  LET t == AddArc(s, d, above, below) IN
         /\ t \in StateT /\ t.id = s.id /\ t.explored = s.explored /\ Same(s, t)
         /\ t.arcs # <<>>
         /\ \A k \in DOMAIN t.arcs : t.arcs[k] = d \/ \E m \in DOMAIN s.arcs : t.arcs[k] = s.arcs[m]
         /\ s.arcnum = Len(s.arcs) => t.arcnum = Len(t.arcs)
<1> DEFINE hits  == above \cup below
           first == CHOOSE k \in hits : \A m \in hits : k <= m
           t     == AddArc(s, d, above, below)
<1>0. /\ s.arcs \in Seq(ArcT) /\ s.arcnum \in Int /\ s.arcnum + 1 \in Int
      /\ Len(s.arcs) \in Nat /\ DOMAIN s.arcs = 1 .. Len(s.arcs)
  BY StateFields
<1>1. CASE hits = {}
  <2>1. t = [s EXCEPT !.arcs = <<d>> \o @, !.arcnum = @ + 1]
    BY <1>1 DEF AddArc
  <2> DEFINE as == <<d>> \o s.arcs
             n  == s.arcnum + 1
  <2>2. t = [s EXCEPT !.arcs = as, !.arcnum = n]
    BY <2>1
  <2>3. as \in Seq(ArcT) /\ n \in Int
    BY <1>0, Prepend
  <2>4. /\ Len(as) = Len(s.arcs) + 1 /\ as # <<>>
        /\ \A k \in DOMAIN as : as[k] = d \/ \E m \in DOMAIN s.arcs : as[k] = s.arcs[m]
    <3> HIDE DEF t, hits, first
    <3>1. s.arcs \in Seq(ArcT)
      BY <1>0
    <3>2. Len(as) = Len(s.arcs) + 1 /\ as # <<>>
      BY <3>1, Prepend
    <3>3. \A k \in DOMAIN as : as[k] = d \/ \E m \in DOMAIN s.arcs : as[k] = s.arcs[m]
      BY <3>1, Prepend
    <3> QED BY <3>2, <3>3
  <2> HIDE DEF as, n, t
  <2>5. t \in StateT /\ t.id = s.id /\ t.arcnum = n /\ t.explored = s.explored /\ t.arcs = as /\ Same(s, t)
    <3> DEFINE u == [s EXCEPT !.arcs = as, !.arcnum = n]
    <3>1. u \in StateT /\ u.id = s.id /\ u.arcnum = n /\ u.explored = s.explored /\ u.arcs = as /\ Same(s, u)
      BY <2>3, WithArcsAndCount
    <3> QED BY <3>1, <2>2
  <2> QED BY <2>4, <2>5 DEF n, t
<1>2. CASE hits # {} /\ first \in above
  <2>1. t = s
    BY <1>2 DEF AddArc
  <2>2. s.arcs # <<>>
    BY <1>0, <1>2
  <2> QED BY <2>1, <2>2, StateFields DEF Same
<1>3. CASE hits # {} /\ first \notin above
  <2>1. t = [s EXCEPT !.arcs = <<d>> \o RemoveAt(@, first)]
    BY <1>3 DEF AddArc
  <2>2. first \in DOMAIN s.arcs
    BY <1>0, <1>3, Least
  <2> HIDE DEF first, hits
  <2>3. /\ RemoveAt(s.arcs, first) \in Seq(ArcT) /\ Len(RemoveAt(s.arcs, first)) = Len(s.arcs) - 1
        /\ \A m \in DOMAIN RemoveAt(s.arcs, first) : \E k \in DOMAIN s.arcs : RemoveAt(s.arcs, first)[m] = s.arcs[k]
    <3>1. /\ RemoveAt(s.arcs, first) \in Seq(ArcT) /\ Len(RemoveAt(s.arcs, first)) = Len(s.arcs) - 1
          /\ \A m \in DOMAIN RemoveAt(s.arcs, first) :
               RemoveAt(s.arcs, first)[m] = IF m < first THEN s.arcs[m] ELSE s.arcs[m + 1]
      BY <2>2, <1>0, RemoveAtFacts
    <3>2. DOMAIN RemoveAt(s.arcs, first) = 1 .. Len(s.arcs) - 1
      BY <3>1, <1>0
    <3>3. \A m \in 1 .. Len(s.arcs) - 1 : m \in DOMAIN s.arcs /\ m + 1 \in DOMAIN s.arcs
      BY <1>0
    <3> QED BY <3>1, <3>2, <3>3
  <2> DEFINE as == <<d>> \o RemoveAt(s.arcs, first)
  <2>a. t = [s EXCEPT !.arcs = as]
    BY <2>1
  <2>4. as \in Seq(ArcT)
    BY <2>3, Prepend
  <2>b. as = <<d>> \o RemoveAt(s.arcs, first)
    OBVIOUS
  <2> HIDE DEF as, t
  <2>5. /\ t \in StateT /\ t.id = s.id /\ t.arcnum = s.arcnum /\ t.explored = s.explored
        /\ t.arcs = as /\ Same(s, t)
    BY <2>a, <2>4, WithArcs
  <2>6. Len(t.arcs) = Len(s.arcs) /\ t.arcs # <<>>
    BY <2>3, <2>5, <2>b, <1>0, Prepend
  <2>7. \A k \in DOMAIN t.arcs : t.arcs[k] = d \/ \E m \in DOMAIN s.arcs : t.arcs[k] = s.arcs[m]
    BY <2>3, <2>5, <2>b, Prepend
  <2> QED BY <2>5, <2>6, <2>7 DEF t
<1> QED BY <1>1, <1>2, <1>3

LEMMA GBA_AddArcFacts ==
  ASSUME kind \in ArcKinds, NEW s \in StateT, NEW d \in ArcT
  PROVE  LET t == GBA_AddArc(s, d) IN
         /\ t \in StateT /\ t.id = s.id /\ t.explored = s.explored /\ Same(s, t)
         /\ t.arcs # <<>>
         /\ \A k \in DOMAIN t.arcs : t.arcs[k] = d \/ \E m \in DOMAIN s.arcs : t.arcs[k] = s.arcs[m]
         /\ s.arcnum = Len(s.arcs) => t.arcnum = Len(t.arcs)
<1> DEFINE above == {k \in DOMAIN s.arcs : GBA_leq(s.arcs[k], d)}
           below == {k \in DOMAIN s.arcs : GBA_leq(d, s.arcs[k])}
<1>1. above \subseteq DOMAIN s.arcs /\ below \subseteq DOMAIN s.arcs
  OBVIOUS
<1>2. GBA_AddArc(s, d) = AddArc(s, d, above, below)
  BY DEF GBA_AddArc
<1> HIDE DEF above, below
<1> QED BY <1>1, <1>2, AddArcFacts

LEMMA BA_AddArcFacts ==
  ASSUME kind \in ArcKinds, NEW s \in StateT, NEW d \in ArcT
  PROVE  LET t == BA_AddArc(s, d) IN
         /\ t \in StateT /\ t.id = s.id /\ t.explored = s.explored /\ Same(s, t)
         /\ t.arcs # <<>>
         /\ \A k \in DOMAIN t.arcs : t.arcs[k] = d \/ \E m \in DOMAIN s.arcs : t.arcs[k] = s.arcs[m]
         /\ s.arcnum = Len(s.arcs) => t.arcnum = Len(t.arcs)
<1> DEFINE above == {k \in DOMAIN s.arcs : BA_implies(s.arcs[k], d)}
           below == {k \in DOMAIN s.arcs : BA_implies(d, s.arcs[k])}
<1>1. above \subseteq DOMAIN s.arcs /\ below \subseteq DOMAIN s.arcs
  OBVIOUS
<1>2. BA_AddArc(s, d) = AddArc(s, d, above, below)
  BY DEF BA_AddArc
<1> HIDE DEF above, below
<1> QED BY <1>1, <1>2, AddArcFacts

-----------------------------------------------------------------------------
(* The automaton and what Build_GBA makes of it. *)

LEMMA Stay ==
  ASSUME UNCHANGED <<vwaa, kind>>
  PROVE  /\ StateT' = StateT /\ ArcT' = ArcT /\ Live' = Live /\ Node' = Node
         /\ GBA_State' = GBA_State /\ BA_States' = BA_States /\ ustacksize' = ustacksize
BY DEF StateT, ArcT, Live, Node, GBA_State, BA_States, GBA_Arc, BA_Arc, ustacksize, Untils

LEMMA AutomatonFacts ==
  ASSUME vwaa \in Automata
  PROVE  /\ vwaa.start \subseteq Live
         /\ \A n \in Node : /\ vwaa.delta[n] \in Seq([pred : SUBSET Literal, dests : SUBSET Live])
                            /\ Len(vwaa.delta[n]) \in Nat
         /\ Untils \subseteq Node
         /\ \A u \in Untils : vwaa.uid[u] \in Nat
         /\ ustacksize \in Nat
         /\ Live \subseteq Node
         /\ IsVWAA(vwaa)
<1>1. IsVWAA(vwaa)
  BY AutomataAssumption
<1>2. /\ vwaa.delta \in [Node -> Seq([pred : SUBSET Literal, dests : SUBSET Node])]
      /\ \A n \in Node : n \in vwaa.start \/ (\E m \in Node : \E k \in DOMAIN vwaa.delta[m] : n \in vwaa.delta[m][k].dests)
           => vwaa.delta[n] # <<>>
      /\ Untils \subseteq Node
      /\ \A u \in Untils : vwaa.uid[u] \in 1 .. Cardinality(Untils)
      /\ IsFiniteSet(Untils)
      /\ vwaa.start \subseteq Node
  BY <1>1 DEF IsVWAA, Node, Untils
<1>3. ustacksize \in Nat
  BY <1>2, FS_CardinalityType DEF ustacksize
<1>4. \A u \in Untils : vwaa.uid[u] \in Nat
  BY <1>2, <1>3 DEF ustacksize
<1>5. ASSUME NEW n \in Node
      PROVE  vwaa.delta[n] \in Seq([pred : SUBSET Literal, dests : SUBSET Live]) /\ Len(vwaa.delta[n]) \in Nat
  <2> DEFINE d == vwaa.delta[n]
  <2>1. d \in Seq([pred : SUBSET Literal, dests : SUBSET Node])
    BY <1>2
  <2>2. \A k \in DOMAIN d : d[k].dests \subseteq Live
    <3>1. \A k \in DOMAIN d : d[k] \in [pred : SUBSET Literal, dests : SUBSET Node]
      <4> HIDE DEF d
      <4> QED BY <2>1, Elements
    <3>2. \A k \in DOMAIN d : d[k].dests \subseteq Node
      BY <3>1
    <3> QED BY <1>2, <3>2 DEF Live
  <2> HIDE DEF d
  <2>3. ASSUME NEW k \in DOMAIN d PROVE d[k] \in [pred : SUBSET Literal, dests : SUBSET Live]
    <3>1. d[k] \in [pred : SUBSET Literal, dests : SUBSET Node]
      BY <2>1, Elements
    <3> QED BY <3>1, <2>2
  <2>4. d \in Seq([pred : SUBSET Literal, dests : SUBSET Live])
    BY <2>1, <2>3, Retype
  <2> QED BY <2>1, <2>4, Elements DEF d
<1> QED BY <1>1, <1>2, <1>3, <1>4, <1>5 DEF Live

\* An arc of the generalised automaton has its transition's literals and nodes.
LEMMA TransitionIsArc ==
  ASSUME vwaa \in Automata, NEW t \in [pred : SUBSET Literal, dests : SUBSET Live], NEW n \in Nat
  PROVE  /\ CreateTransition(t) \in GBA_Arc
         /\ CreateTransition(t).dests = t.dests /\ ~CreateTransition(t).readyremove
         /\ LET u == [CreateTransition(t) EXCEPT !.to = n] IN
            u \in GBA_Arc /\ u.dests = t.dests /\ ~u.readyremove /\ u.to = n
<1> DEFINE us == CreateTransition(t).uids
<1>1. t.dests \in SUBSET Node /\ t.pred \in SUBSET Literal
  BY AutomatonFacts
<1>2. us \in SUBSET Nat
  BY AutomatonFacts DEF CreateTransition
<1>3. CreateTransition(t) = [pred |-> t.pred, dests |-> t.dests, to |-> 0, readyremove |-> FALSE, uids |-> us]
  BY DEF CreateTransition
<1> HIDE DEF us
<1>4. /\ CreateTransition(t) \in GBA_Arc
      /\ CreateTransition(t).dests = t.dests /\ ~CreateTransition(t).readyremove
  BY <1>1, <1>2, <1>3 DEF GBA_Arc
<1> DEFINE c == CreateTransition(t)
<1>5. c \in GBA_Arc /\ c.dests = t.dests /\ ~c.readyremove
  BY <1>4
<1> HIDE DEF c
<1>6. LET u == [c EXCEPT !.to = n] IN
      u \in GBA_Arc /\ u.dests = t.dests /\ ~u.readyremove /\ u.to = n
  BY <1>5 DEF GBA_Arc
<1> QED BY <1>4, <1>6 DEF c

\* The place of a pair in the product of two lists.
LEMMA DivMod ==
  ASSUME NEW a \in Nat, NEW b \in Nat, NEW k \in 1 .. a * b
  PROVE  /\ b # 0
         /\ ((k - 1) \div b) + 1 \in 1 .. a
         /\ ((k - 1) % b) + 1 \in 1 .. b
<1>1. b # 0
  <2> SUFFICES ASSUME b = 0 PROVE FALSE
    OBVIOUS
  <2>1. a * b = 0
    OBVIOUS
  <2> QED BY <2>1
<1> DEFINE q == (k - 1) \div b
           r == (k - 1) % b
<1>2. a * b \in Nat /\ k - 1 \in Nat /\ k - 1 < a * b
  <2>1. a * b \in Int
    OBVIOUS
  <2> QED BY <2>1
<1>3. q \in Nat /\ r \in 0 .. b - 1 /\ k - 1 = q * b + r
  BY <1>1, <1>2
<1> HIDE DEF q, r
<1>4. q * b < a * b
  <2>1. q * b \in Nat
    BY <1>3
  <2> QED BY <1>2, <1>3, <2>1
<1>5. q < a
  <2> SUFFICES ASSUME a <= q PROVE FALSE
    BY <1>3
  <2>1. a * b <= q * b
    BY <1>3
  <2>2. a * b \in Nat /\ q * b \in Nat
    BY <1>2, <1>3
  <2> QED BY <1>4, <2>1, <2>2
<1> QED BY <1>1, <1>3, <1>5 DEF q, r

LEMMA ProductFacts ==
  ASSUME NEW ts \in Seq([pred : SUBSET Literal, dests : SUBSET Live]),
         NEW us \in Seq([pred : SUBSET Literal, dests : SUBSET Live])
  PROVE  /\ Product(ts, us) \in Seq([pred : SUBSET Literal, dests : SUBSET Live])
         /\ ts # <<>> /\ us # <<>> => Product(ts, us) # <<>>
<1> DEFINE T == [pred : SUBSET Literal, dests : SUBSET Live]
           a == Len(ts)
           b == Len(us)
           e(k) == [pred |-> ts[((k - 1) \div b) + 1].pred \cup us[((k - 1) % b) + 1].pred,
                    dests |-> ts[((k - 1) \div b) + 1].dests \cup us[((k - 1) % b) + 1].dests]
<1>1. a \in Nat /\ b \in Nat
  OBVIOUS
<1>2. a * b \in Nat
  BY <1>1
<1>3. ASSUME NEW k \in 1 .. a * b PROVE e(k) \in T
  <2>1. ((k - 1) \div b) + 1 \in DOMAIN ts /\ ((k - 1) % b) + 1 \in DOMAIN us
    BY <1>1, DivMod
  <2>2. ts[((k - 1) \div b) + 1] \in T /\ us[((k - 1) % b) + 1] \in T
    BY <2>1, Elements
  <2> QED BY <2>2
<1>4. Product(ts, us) = [k \in 1 .. a * b |-> e(k)]
  BY DEF Product
<1> HIDE DEF e
<1>5. Product(ts, us) \in Seq(T) /\ Len(Product(ts, us)) = a * b
  BY <1>2, <1>3, <1>4
<1>6. ASSUME ts # <<>>, us # <<>> PROVE Product(ts, us) # <<>>
  <2>1. a > 0 /\ b > 0
    BY <1>6
  <2>2. a * b # 0
    BY <2>1, <1>1
  <2> QED BY <2>2, <1>5
<1> QED BY <1>5, <1>6

-----------------------------------------------------------------------------
(* While an automaton is built. *)

LEMMA StateFacts ==
  ASSUME Members, kind \in ArcKinds
  PROVE  /\ vertics \in Seq(StateT)
         /\ Len(vertics) \in Nat \ {0} /\ DOMAIN vertics = 1 .. Len(vertics)
         /\ \A s \in DOMAIN vertics :
              /\ vertics[s] \in StateT
              /\ vertics[s].arcs \in Seq(ArcT)
              /\ vertics[s].arcnum \in Int
              /\ Len(vertics[s].arcs) \in Nat /\ DOMAIN vertics[s].arcs = 1 .. Len(vertics[s].arcs)
              /\ \A k \in DOMAIN vertics[s].arcs : /\ vertics[s].arcs[k] \in ArcT
                                                   /\ vertics[s].arcs[k].to \in Nat
<1>1. vertics \in Seq(StateT) /\ vertics # <<>>
  BY DEF Members
<1>2. Len(vertics) \in Nat \ {0} /\ DOMAIN vertics = 1 .. Len(vertics) /\ \A s \in DOMAIN vertics : vertics[s] \in StateT
  BY <1>1, Elements, EmptySeq
<1> QED BY <1>1, <1>2, StateFields, ArcFields

\* One state of the list replaced.
LEMMA OneState ==
  ASSUME NEW T, NEW v \in Seq(T), NEW n \in DOMAIN v, NEW t \in T
  PROVE  LET w == [v EXCEPT ![n] = t] IN
         /\ w \in Seq(T) /\ Len(w) = Len(v) /\ DOMAIN w = DOMAIN v /\ DOMAIN w = 1 .. Len(v)
         /\ w[n] = t /\ \A s \in DOMAIN v : s # n => w[s] = v[s]
<1> DEFINE w == [v EXCEPT ![n] = t]
<1>1. Len(v) \in Nat /\ v \in [1 .. Len(v) -> T]
  OBVIOUS
<1>2. w \in [1 .. Len(v) -> T]
  BY <1>1
<1>3. w \in Seq(T) /\ Len(w) = Len(v)
  BY <1>1, <1>2
<1> QED BY <1>1, <1>2, <1>3

LEMMA AllAlive ==
  ASSUME NEW v, NEW n \in Nat, DOMAIN v = 1 .. n, \A s \in DOMAIN v : v[s].id = s
  PROVE  \A s \in DOMAIN v : Alive(v[s])
BY DEF Alive, NONE

\* What is left to show of a step after which states are still added.
LEMMA StillGrowing ==
  ASSUME Control', Indices', Locals', Members', Growing',
         kind' \in ArcKinds, pc' \in Stages,
         \A s \in DOMAIN vertics' :
           /\ vertics'[s].arcnum = Len(vertics'[s].arcs)
           /\ vertics'[s].explored => vertics'[s].arcs # <<>>
           /\ \A k \in DOMAIN vertics'[s].arcs :
                Resolved(s, k)' => vertics'[s].arcs[k].to \in DOMAIN vertics',
         vertics' \in Seq(StateT')
  PROVE  IInv'
<1>1. \A s \in DOMAIN vertics' : vertics'[s].id = s /\ \A k \in DOMAIN vertics'[s].arcs : ~vertics'[s].arcs[k].readyremove
  BY DEF Growing
<1>2. Len(vertics') \in Nat /\ DOMAIN vertics' = 1 .. Len(vertics') /\ \A s \in DOMAIN vertics' : vertics'[s] \in StateT'
  BY Elements
<1>3. Living' = DOMAIN vertics'
  BY <1>1, <1>2, AllAlive DEF Living
<1>4. kind' # "StateBuchi" /\ pc' \notin {"mark", "unlink", "merge", "done"}
  BY DEF ArcKinds, Stages
<1>5. SelfCheck'
  <2>1. IdsArePositions'
    BY <1>1, <1>3 DEF IdsArePositions
  <2>2. ArcsCounted'
    BY DEF ArcsCounted
  <2>3. StatesCounted'
    BY <1>4 DEF StatesCounted
  <2>4. NoArcToDead'
    BY <1>3, <1>4 DEF NoArcToDead
  <2> QED BY <2>1, <2>2, <2>3, <2>4 DEF SelfCheck
<1>6. SomeArcStays'
  <2> SUFFICES ASSUME NEW s \in DOMAIN vertics', vertics'[s].explored
               PROVE  \E k \in DOMAIN vertics'[s].arcs : ~vertics'[s].arcs[k].readyremove
    BY <1>3 DEF SomeArcStays
  <2>1. vertics'[s].arcs # <<>>
    OBVIOUS
  <2>2. vertics'[s].arcs \in Seq(ArcT')
    <3>1. CASE kind' = "General"
      BY <3>1, <1>2 DEF StateT, ArcT, GBA_State
    <3>2. CASE kind' = "Buchi"
      BY <3>2, <1>2 DEF StateT, ArcT, BA_States
    <3> QED BY <3>1, <3>2 DEF ArcKinds
  <2>3. 1 \in DOMAIN vertics'[s].arcs
    <3> DEFINE as == vertics'[s].arcs
    <3>1. as \in Seq(ArcT') /\ as # <<>>
      BY <2>1, <2>2
    <3> HIDE DEF as
    <3>2. 1 \in DOMAIN as
      BY <3>1, NonEmpty
    <3> QED BY <3>2 DEF as
  <2> QED BY <2>3, <1>1
<1>7. AllExplored'
  BY DEF AllExplored
<1> QED BY <1>5, <1>6, <1>7 DEF IInv

LEMMA InitIInv == Init => IInv
<1> SUFFICES ASSUME Init PROVE IInv
  OBVIOUS
<1> DEFINE s0 == [id |-> 1, arcnum |-> 0, explored |-> FALSE, arcs |-> <<>>, subformulas |-> vwaa.start]
<1>1. vwaa \in Automata /\ kind = "General" /\ pc = "build" /\ i = 1 /\ j = 1 /\ rest = {} /\ trans = <<>> /\ vertics = <<s0>>
  BY DEF Init
<1>2. vwaa.start \subseteq Live /\ vwaa.start \in SUBSET Node
  BY <1>1, AutomatonFacts
<1>3. s0 \in GBA_State
  BY <1>2 DEF GBA_State
<1>4. StateT = GBA_State
  BY <1>1 DEF StateT
<1>5. vertics \in Seq(StateT) /\ vertics # <<>> /\ DOMAIN vertics = {1} /\ vertics[1] = s0
  BY <1>1, <1>3, <1>4
<1>6. s0.arcs = <<>> /\ DOMAIN s0.arcs = {} /\ s0.id = 1 /\ s0.arcnum = 0 /\ Len(s0.arcs) = 0 /\ s0.subformulas = vwaa.start /\ s0.explored = FALSE
  OBVIOUS
<1> HIDE DEF s0
<1>7. Control
  <2>1. state_num \in Int
    BY DEF Init
  <2>2. simplest \in BOOLEAN
    BY Zenon DEF Init
  <2> QED BY <2>1, <2>2, <1>1 DEF Control
<1>8. Indices /\ Locals
  BY <1>1 DEF Indices, Locals
<1>9. Members
  BY <1>1, <1>2, <1>5, <1>6 DEF Members, Alive, NONE, ArcKinds
<1>10. Growing
  BY <1>1, <1>5, <1>6 DEF Growing
<1>11. SelfCheck
  BY <1>1, <1>5, <1>6 DEF SelfCheck, IdsArePositions, ArcsCounted, StatesCounted, NoArcToDead, Living
<1>12. SomeArcStays
  BY <1>1, <1>5, <1>6 DEF SomeArcStays, Living
<1>13. AllExplored
  BY <1>1 DEF AllExplored, Stages
<1> QED BY <1>7, <1>8, <1>9, <1>10, <1>11, <1>12, <1>13 DEF IInv

\* What SelfCheck and SomeArcStays say meanwhile.
LEMMA SoFar ==
  ASSUME IInv, kind \in ArcKinds, pc \in Stages
  PROVE  \A s \in DOMAIN vertics :
           /\ vertics[s].arcnum = Len(vertics[s].arcs)
           /\ vertics[s].explored => vertics[s].arcs # <<>>
           /\ \A k \in DOMAIN vertics[s].arcs : Resolved(s, k) => vertics[s].arcs[k].to \in DOMAIN vertics
<1>1. \A s \in DOMAIN vertics : s \in Living
  <2>1. DOMAIN vertics = 1 .. Len(vertics) /\ Len(vertics) \in Nat
    BY StateFacts DEF IInv
  <2> QED BY <2>1 DEF IInv, Growing, Living, Alive, NONE
<1>2. kind # "StateBuchi"
  BY DEF ArcKinds
<1>3. \A s \in Living : s \in DOMAIN vertics
  BY DEF Living
<1> QED BY <1>1, <1>2, <1>3 DEF IInv, SelfCheck, ArcsCounted, NoArcToDead, SomeArcStays

LEMMA ExpandTrueIInv == ASSUME IInv, ExpandTrue PROVE IInv'
<1>a. Control /\ Indices /\ Locals /\ Members /\ Growing /\ SelfCheck /\ SomeArcStays
  BY DEF IInv
<1>b. /\ kind = "General" /\ pc = "build" /\ kind \in ArcKinds /\ pc \in Stages
      /\ pc' = "build" /\ i' = i + 1 /\ j' = 1
      /\ UNCHANGED <<vwaa, kind, given, state_num, simplest, trans, rest>>
      /\ i <= Len(vertics)
  BY DEF ExpandTrue, GBA_Building, Goto, ArcKinds, Stages
<1>c. /\ vertics \in Seq(StateT) /\ Len(vertics) \in Nat \ {0} /\ DOMAIN vertics = 1 .. Len(vertics)
      /\ i \in DOMAIN vertics /\ i \in Nat /\ vwaa \in Automata
  BY <1>a, <1>b, StateFacts DEF Control
<1> DEFINE c == [CreateTransition(TT) EXCEPT !.to = i]
           a == GBA_AddArc(vertics[i], c)
           t == [a EXCEPT !.explored = TRUE]
<1>1. c \in ArcT /\ c.dests = {} /\ ~c.readyremove /\ c.to = i
  <2>1. TT \in [pred : SUBSET Literal, dests : SUBSET Live] /\ TT.dests = {}
    BY DEF TT
  <2>2. ArcT = GBA_Arc
    BY <1>b DEF ArcT
  <2> QED BY <2>1, <2>2, <1>c, TransitionIsArc
<1>2. /\ vertics[i] \in StateT /\ vertics[i].id = i /\ vertics[i].arcs = <<>>
      /\ vertics[i].arcnum = Len(vertics[i].arcs)
  BY <1>a, <1>b, <1>c, StateFacts DEF Growing, SelfCheck, ArcsCounted
<1>3. vertics' = [vertics EXCEPT ![i] = t]
  BY DEF ExpandTrue
<1> HIDE DEF c
<1>4. /\ a \in StateT /\ a.id = i /\ a.arcs # <<>> /\ a.arcnum = Len(a.arcs) /\ Same(vertics[i], a)
      /\ \A k \in DOMAIN a.arcs : a.arcs[k] = c
  BY <1>1, <1>2, <1>b, GBA_AddArcFacts
<1> HIDE DEF a
<1>5. /\ t \in StateT /\ t.id = i /\ t.arcs = a.arcs /\ t.arcnum = a.arcnum /\ t.explored = TRUE /\ Same(a, t)
  BY <1>4, <1>b, WithExplored
<1> HIDE DEF t
<1>6. /\ vertics' \in Seq(StateT) /\ Len(vertics') = Len(vertics) /\ DOMAIN vertics' = DOMAIN vertics
      /\ vertics'[i] = t /\ \A s \in DOMAIN vertics : s # i => vertics'[s] = vertics[s]
  BY <1>3, <1>5, <1>c, OneState
<1>7. StateT' = StateT /\ Live' = Live
  BY <1>b, Stay
<1>8. Control' /\ Indices' /\ Locals'
  BY <1>a, <1>b, <1>c, <1>7 DEF Control, Indices, Locals
<1>9. Members'
  <2>1. vertics' # <<>> /\ Alive(vertics'[1])
    <3>1. vertics'[1].id = vertics[1].id /\ 1 \in DOMAIN vertics
      BY <1>5, <1>6, <1>c, <1>2
    <3> QED BY <3>1, <1>a, <1>b, <1>6, <1>c DEF Members, Alive
  <2>2. ASSUME NEW s \in DOMAIN vertics'
        PROVE  /\ vertics'[s].subformulas \subseteq Live
               /\ \A k \in DOMAIN vertics'[s].arcs : vertics'[s].arcs[k].dests \subseteq Live
    <3>1. CASE s = i
      <4>1. t.subformulas = vertics[i].subformulas
        BY <1>4, <1>5, <1>b DEF Same
      <4> QED BY <4>1, <3>1, <1>a, <1>b, <1>1, <1>4, <1>5, <1>6 DEF Members
    <3>2. CASE s # i
      BY <3>2, <1>6, <1>a, <1>b DEF Members
    <3> QED BY <3>1, <3>2
  <2> QED BY <2>1, <2>2, <1>6, <1>7, <1>b DEF Members
<1>10. Growing'
  <2>1. ASSUME NEW s \in DOMAIN vertics'
        PROVE  /\ vertics'[s].id = s
               /\ \A k \in DOMAIN vertics'[s].arcs : ~vertics'[s].arcs[k].readyremove
               /\ s >= i + 1 => vertics'[s].arcs = <<>>
               /\ s < i + 1 => vertics'[s].explored
    <3>1. CASE s = i
      BY <3>1, <1>1, <1>4, <1>5, <1>6, <1>c
    <3>2. CASE s # i
      BY <3>2, <1>6, <1>a, <1>b, <1>c DEF Growing
    <3> QED BY <3>1, <3>2
  <2> QED BY <2>1, <1>6, <1>b, <1>c DEF Growing
<1>11. ASSUME NEW s \in DOMAIN vertics'
       PROVE  /\ vertics'[s].arcnum = Len(vertics'[s].arcs)
              /\ vertics'[s].explored => vertics'[s].arcs # <<>>
              /\ \A k \in DOMAIN vertics'[s].arcs :
                   Resolved(s, k)' => vertics'[s].arcs[k].to \in DOMAIN vertics'
  <2>1. CASE s = i
    BY <2>1, <1>1, <1>4, <1>5, <1>6, <1>c
  <2>2. CASE s # i
    <3>1. vertics'[s] = vertics[s] /\ s \in DOMAIN vertics
      BY <2>2, <1>6
    <3>2. \A k \in DOMAIN vertics[s].arcs : Resolved(s, k)
      BY <2>2 DEF Resolved
    <3> QED BY <3>1, <3>2, <1>6, <1>b, SoFar
  <2> QED BY <2>1, <2>2
<1> QED BY <1>8, <1>9, <1>10, <1>11, <1>6, <1>7, <1>b, StillGrowing

LEMMA ExpandIInv == ASSUME IInv, Expand PROVE IInv'
<1>a. Control /\ Indices /\ Locals /\ Members /\ Growing
  BY DEF IInv
<1>b. /\ kind = "General" /\ pc = "build" /\ kind \in ArcKinds /\ pc \in Stages
      /\ pc' = "product" /\ pc' \in Stages /\ i' = i /\ j' = 1
      /\ trans' = <<TT>> /\ rest' = vertics[i].subformulas /\ rest' # {}
      /\ UNCHANGED <<vwaa, kind, given, vertics, state_num, simplest>>
      /\ i <= Len(vertics)
  BY DEF Expand, GBA_Building, Goto, ArcKinds, Stages
<1>c. vertics \in Seq(StateT) /\ DOMAIN vertics = 1 .. Len(vertics) /\ i \in DOMAIN vertics
  BY <1>a, <1>b, StateFacts DEF Control
<1>7. StateT' = StateT /\ Live' = Live
  BY <1>b, Stay
<1>8. Control' /\ Indices'
  BY <1>a, <1>b, <1>c DEF Control, Indices
<1>9. Members'
  BY <1>a, <1>b, <1>7 DEF Members
<1>10. Locals'
  <2>1. trans' \in Seq([pred : SUBSET Literal, dests : SUBSET Live])
    BY <1>b DEF TT
  <2>2. rest' \subseteq Live
    BY <1>a, <1>b, <1>c DEF Members
  <2> QED BY <2>1, <2>2, <1>7, <1>b DEF Locals
<1>11. Growing'
  <2>1. trans' # <<>>
    BY <1>b
  <2>2. \A s \in DOMAIN vertics' :
         /\ vertics'[s].id = s
         /\ \A k \in DOMAIN vertics'[s].arcs : ~vertics'[s].arcs[k].readyremove
         /\ s > i => vertics'[s].arcs = <<>>
         /\ s < i => vertics'[s].explored
    BY <1>a, <1>b DEF Growing
  <2> QED BY <2>1, <2>2, <1>b DEF Growing
<1>12. ASSUME NEW s \in DOMAIN vertics'
       PROVE  /\ vertics'[s].arcnum = Len(vertics'[s].arcs)
              /\ vertics'[s].explored => vertics'[s].arcs # <<>>
              /\ \A k \in DOMAIN vertics'[s].arcs :
                   Resolved(s, k)' => vertics'[s].arcs[k].to \in DOMAIN vertics'
  <2>1. \A k \in DOMAIN vertics[s].arcs : Resolved(s, k)' => Resolved(s, k)
    BY <1>b DEF Resolved
  <2> QED BY <2>1, <1>b, SoFar
<1> QED BY <1>7, <1>8, <1>9, <1>10, <1>11, <1>12, <1>b, <1>c, StillGrowing

LEMMA MultiplyNextIInv == ASSUME IInv, MultiplyNext PROVE IInv'
<1>a. Control /\ Indices /\ Locals /\ Members /\ Growing
  BY DEF IInv
<1>b. /\ kind = "General" /\ pc = "product" /\ kind \in ArcKinds /\ pc \in Stages
      /\ UNCHANGED <<vwaa, kind, given, vertics, state_num, simplest, pc, i, j>>
  BY DEF MultiplyNext, ArcKinds, Stages
<1>c. PICK n \in rest : trans' = Product(trans, vwaa.delta[n]) /\ rest' = rest \ {n}
  BY DEF MultiplyNext
<1>d. vertics \in Seq(StateT)
  BY <1>a, <1>b, StateFacts
<1>7. StateT' = StateT /\ Live' = Live
  BY <1>b, Stay
<1>8. Control' /\ Indices'
  BY <1>a, <1>b DEF Control, Indices
<1>9. Members'
  BY <1>a, <1>b, <1>7 DEF Members
<1>1. n \in Live /\ n \in Node /\ vwaa.delta[n] # <<>> /\ rest \subseteq Live
  BY <1>a, <1>b, <1>c DEF Locals, Live
<1>2. vwaa.delta[n] \in Seq([pred : SUBSET Literal, dests : SUBSET Live])
  BY <1>1, <1>a, AutomatonFacts DEF Control
<1>3. trans \in Seq([pred : SUBSET Literal, dests : SUBSET Live]) /\ trans # <<>>
  BY <1>a, <1>b, <1>c DEF Locals, Growing
<1>4. trans' \in Seq([pred : SUBSET Literal, dests : SUBSET Live]) /\ trans' # <<>>
  BY <1>1, <1>2, <1>3, <1>c, ProductFacts
<1>10. Locals'
  BY <1>1, <1>4, <1>7, <1>b, <1>c DEF Locals
<1>11. Growing'
  BY <1>4, <1>a, <1>b DEF Growing
<1>12. ASSUME NEW s \in DOMAIN vertics'
       PROVE  /\ vertics'[s].arcnum = Len(vertics'[s].arcs)
              /\ vertics'[s].explored => vertics'[s].arcs # <<>>
              /\ \A k \in DOMAIN vertics'[s].arcs :
                   Resolved(s, k)' => vertics'[s].arcs[k].to \in DOMAIN vertics'
  <2>1. \A k \in DOMAIN vertics[s].arcs : Resolved(s, k)' => Resolved(s, k)
    BY <1>b DEF Resolved
  <2> QED BY <2>1, <1>b, SoFar
<1> QED BY <1>7, <1>8, <1>9, <1>10, <1>11, <1>12, <1>b, <1>d, StillGrowing

LEMMA AddTransitionIInv == ASSUME IInv, AddTransition PROVE IInv'
<1>a. Control /\ Indices /\ Locals /\ Members /\ Growing
  BY DEF IInv
<1>b. /\ kind = "General" /\ pc = "product" /\ kind \in ArcKinds /\ pc \in Stages
      /\ rest = {} /\ trans # <<>> /\ trans' = Tail(trans)
      /\ UNCHANGED <<vwaa, kind, given, state_num, simplest, pc, i, j, rest>>
  BY DEF AddTransition, ArcKinds, Stages
<1>c. /\ vertics \in Seq(StateT) /\ DOMAIN vertics = 1 .. Len(vertics)
      /\ i \in DOMAIN vertics /\ vwaa \in Automata /\ i \in Nat
  BY <1>a, <1>b, StateFacts DEF Control, Indices
<1>d. trans \in Seq([pred : SUBSET Literal, dests : SUBSET Live])
  BY <1>a DEF Locals
<1>e. Head(trans) \in [pred : SUBSET Literal, dests : SUBSET Live]
  BY <1>b, <1>d, HeadTailProperties
<1> DEFINE c == CreateTransition(Head(trans))
           t == GBA_AddArc(vertics[i], c)
<1>1. c \in ArcT /\ c.dests \subseteq Live /\ ~c.readyremove
  <2>1. ArcT = GBA_Arc
    BY <1>b DEF ArcT
  <2>2. Head(trans).dests \subseteq Live
    BY <1>e
  <2> QED BY <2>1, <2>2, <1>c, <1>e, TransitionIsArc
<1>2. /\ vertics[i] \in StateT /\ vertics[i].id = i
      /\ vertics[i].arcnum = Len(vertics[i].arcs)
      /\ \A k \in DOMAIN vertics[i].arcs : ~vertics[i].arcs[k].readyremove
  BY <1>a, <1>b, <1>c, StateFacts, SoFar DEF Growing
<1>3. vertics' = [vertics EXCEPT ![i] = t]
  BY DEF AddTransition
<1> HIDE DEF c
<1>4. /\ t \in StateT /\ t.id = i /\ t.arcs # <<>> /\ t.arcnum = Len(t.arcs) /\ Same(vertics[i], t)
      /\ \A k \in DOMAIN t.arcs : t.arcs[k] = c \/ \E m \in DOMAIN vertics[i].arcs : t.arcs[k] = vertics[i].arcs[m]
  BY <1>1, <1>2, <1>b, GBA_AddArcFacts
<1> HIDE DEF t
<1>6. /\ vertics' \in Seq(StateT) /\ Len(vertics') = Len(vertics) /\ DOMAIN vertics' = DOMAIN vertics
      /\ vertics'[i] = t /\ \A s \in DOMAIN vertics : s # i => vertics'[s] = vertics[s]
  BY <1>3, <1>4, <1>c, OneState
<1>7. StateT' = StateT /\ Live' = Live
  BY <1>b, Stay
<1>8. Control' /\ Indices'
  BY <1>a, <1>b, <1>c, <1>6 DEF Control, Indices
<1>13. Locals'
  BY <1>a, <1>b, <1>d, <1>7 DEF Locals
<1>9. Members'
  <2>1. vertics' # <<>> /\ Alive(vertics'[1])
    <3>1. vertics'[1].id = vertics[1].id /\ 1 \in DOMAIN vertics
      BY <1>4, <1>6, <1>c, <1>2
    <3> QED BY <3>1, <1>a, <1>b, <1>6, <1>c DEF Members, Alive
  <2>2. ASSUME NEW s \in DOMAIN vertics'
        PROVE  /\ vertics'[s].subformulas \subseteq Live
               /\ \A k \in DOMAIN vertics'[s].arcs : vertics'[s].arcs[k].dests \subseteq Live
    <3>1. CASE s = i
      <4>1. t.subformulas = vertics[i].subformulas
        BY <1>4, <1>b DEF Same
      <4>2. \A k \in DOMAIN vertics[i].arcs : vertics[i].arcs[k].dests \subseteq Live
        BY <1>a, <1>b, <1>c DEF Members
      <4>3. vertics[i].subformulas \subseteq Live
        BY <1>a, <1>b, <1>c DEF Members
      <4> QED BY <4>1, <4>2, <4>3, <3>1, <1>1, <1>4, <1>6
    <3>2. CASE s # i
      BY <3>2, <1>6, <1>a, <1>b DEF Members
    <3> QED BY <3>1, <3>2
  <2> QED BY <2>1, <2>2, <1>6, <1>7, <1>b DEF Members
<1>10. Growing'
  <2>1. ASSUME NEW s \in DOMAIN vertics'
        PROVE  /\ vertics'[s].id = s
               /\ \A k \in DOMAIN vertics'[s].arcs : ~vertics'[s].arcs[k].readyremove
               /\ s > i => vertics'[s].arcs = <<>>
               /\ s < i => vertics'[s].explored
    <3>1. CASE s = i
      BY <3>1, <1>1, <1>2, <1>4, <1>6, <1>c
    <3>2. CASE s # i
      BY <3>2, <1>6, <1>a, <1>b, <1>c DEF Growing
    <3> QED BY <3>1, <3>2
  <2> QED BY <2>1, <1>4, <1>6, <1>b, <1>c DEF Growing
<1>11. ASSUME NEW s \in DOMAIN vertics'
       PROVE  /\ vertics'[s].arcnum = Len(vertics'[s].arcs)
              /\ vertics'[s].explored => vertics'[s].arcs # <<>>
              /\ \A k \in DOMAIN vertics'[s].arcs :
                   Resolved(s, k)' => vertics'[s].arcs[k].to \in DOMAIN vertics'
  <2>1. CASE s = i
    BY <2>1, <1>4, <1>6, <1>b DEF Resolved
  <2>2. CASE s # i
    <3>1. vertics'[s] = vertics[s] /\ s \in DOMAIN vertics
      BY <2>2, <1>6
    <3>2. \A k \in DOMAIN vertics[s].arcs : Resolved(s, k)
      BY <2>2 DEF Resolved
    <3> QED BY <3>1, <3>2, <1>6, <1>b, SoFar
  <2> QED BY <2>1, <2>2
<1> QED BY <1>8, <1>9, <1>10, <1>11, <1>13, <1>6, <1>7, <1>b, StillGrowing

LEMMA ExploredIInv == ASSUME IInv, Explored PROVE IInv'
<1>a. Control /\ Indices /\ Locals /\ Members /\ Growing
  BY DEF IInv
<1>b. /\ kind = "General" /\ pc = "product" /\ kind \in ArcKinds /\ pc \in Stages
      /\ rest = {} /\ trans = <<>> /\ pc' = "successors" /\ pc' \in Stages /\ i' = i /\ j' = 1
      /\ UNCHANGED <<vwaa, kind, given, state_num, simplest, trans, rest>>
  BY DEF Explored, Goto, ArcKinds, Stages
<1>c. /\ vertics \in Seq(StateT) /\ DOMAIN vertics = 1 .. Len(vertics)
      /\ i \in DOMAIN vertics /\ i \in Nat
  BY <1>a, <1>b, StateFacts DEF Control, Indices
<1> DEFINE t == [vertics[i] EXCEPT !.explored = TRUE]
<1>2. vertics[i] \in StateT /\ vertics[i].arcs # <<>>
  BY <1>a, <1>b, <1>c, StateFacts DEF Growing
<1>3. vertics' = [vertics EXCEPT ![i] = t]
  BY DEF Explored
<1>4. /\ t \in StateT /\ t.id = vertics[i].id /\ t.explored = TRUE /\ t.arcs = vertics[i].arcs
      /\ t.arcnum = vertics[i].arcnum /\ Same(vertics[i], t)
  BY <1>2, <1>b, WithExplored
<1> HIDE DEF t
<1>6. /\ vertics' \in Seq(StateT) /\ Len(vertics') = Len(vertics) /\ DOMAIN vertics' = DOMAIN vertics
      /\ vertics'[i] = t /\ \A s \in DOMAIN vertics : s # i => vertics'[s] = vertics[s]
  BY <1>3, <1>4, <1>c, OneState
<1>5. \A s \in DOMAIN vertics' :
        /\ vertics'[s].id = vertics[s].id /\ vertics'[s].arcs = vertics[s].arcs
        /\ vertics'[s].arcnum = vertics[s].arcnum /\ vertics'[s].subformulas = vertics[s].subformulas
  BY <1>4, <1>6, <1>b DEF Same
<1>7. StateT' = StateT /\ Live' = Live
  BY <1>b, Stay
<1>8. Control' /\ Indices' /\ Locals'
  BY <1>a, <1>b, <1>c, <1>6, <1>7 DEF Control, Indices, Locals
<1>9. Members'
  <2>1. vertics' # <<>> /\ Alive(vertics'[1])
    <3>1. 1 \in DOMAIN vertics
      BY <1>c
    <3> QED BY <3>1, <1>5, <1>a, <1>b, <1>6, <1>c DEF Members, Alive
  <2> QED BY <2>1, <1>5, <1>6, <1>7, <1>a, <1>b DEF Members
<1>10. Growing'
  <2>1. \A s \in DOMAIN vertics' : s <= i => vertics'[s].explored
    BY <1>4, <1>6, <1>a, <1>b, <1>c DEF Growing
  <2>2. \A s \in DOMAIN vertics' : s > i => vertics'[s].arcs = <<>>
    BY <1>5, <1>6, <1>a, <1>b DEF Growing
  <2>3. \A s \in DOMAIN vertics' : vertics'[s].id = s /\ \A k \in DOMAIN vertics'[s].arcs : ~vertics'[s].arcs[k].readyremove
    BY <1>5, <1>6, <1>a, <1>b DEF Growing
  <2> QED BY <2>1, <2>2, <2>3, <1>b, <1>c, <1>6 DEF Growing
<1>11. ASSUME NEW s \in DOMAIN vertics'
       PROVE  /\ vertics'[s].arcnum = Len(vertics'[s].arcs)
              /\ vertics'[s].explored => vertics'[s].arcs # <<>>
              /\ \A k \in DOMAIN vertics'[s].arcs :
                   Resolved(s, k)' => vertics'[s].arcs[k].to \in DOMAIN vertics'
  <2>1. \A k \in DOMAIN vertics[s].arcs : Resolved(s, k)' => Resolved(s, k)
    <3>1. s # i => \A k \in DOMAIN vertics[s].arcs : Resolved(s, k)
      BY DEF Resolved
    <3>2. \A k \in DOMAIN vertics[i].arcs : ~(k < 1)
      BY <1>2, StateFields, <1>b
    <3> QED BY <3>1, <3>2, <1>b DEF Resolved
  <2>2. vertics'[s].explored => vertics'[s].arcs # <<>>
    BY <1>2, <1>5, <1>6, <1>b, SoFar
  <2> QED BY <2>1, <2>2, <1>5, <1>6, <1>b, SoFar
<1> QED BY <1>8, <1>9, <1>10, <1>11, <1>6, <1>7, <1>b, StillGrowing

LEMMA SuccessorsDoneIInv == ASSUME IInv, SuccessorsDone PROVE IInv'
<1>a. Control /\ Indices /\ Locals /\ Members /\ Growing
  BY DEF IInv
<1>b. /\ kind = "General" /\ pc = "successors" /\ kind \in ArcKinds /\ pc \in Stages
      /\ j > Len(vertics[i].arcs) /\ pc' = "build" /\ pc' \in Stages /\ i' = i + 1 /\ j' = 1
      /\ UNCHANGED <<vwaa, kind, given, vertics, state_num, simplest, trans, rest>>
  BY DEF SuccessorsDone, Goto, ArcKinds, Stages
<1>c. /\ vertics \in Seq(StateT) /\ DOMAIN vertics = 1 .. Len(vertics)
      /\ i \in DOMAIN vertics /\ i \in Nat /\ j \in Nat
  BY <1>a, <1>b, StateFacts DEF Control, Indices
<1>7. StateT' = StateT /\ Live' = Live
  BY <1>b, Stay
<1>8. Control' /\ Indices' /\ Locals' /\ Members'
  BY <1>a, <1>b, <1>c, <1>7 DEF Control, Indices, Locals, Members
<1>10. Growing'
  <2>1. ASSUME NEW s \in DOMAIN vertics
        PROVE  /\ vertics[s].id = s
               /\ \A k \in DOMAIN vertics[s].arcs : ~vertics[s].arcs[k].readyremove
               /\ s >= i + 1 => vertics[s].arcs = <<>>
               /\ s < i + 1 => vertics[s].explored
    BY <1>a, <1>b, <1>c DEF Growing
  <2> QED BY <2>1, <1>b, <1>c DEF Growing
<1>11. ASSUME NEW s \in DOMAIN vertics'
       PROVE  /\ vertics'[s].arcnum = Len(vertics'[s].arcs)
              /\ vertics'[s].explored => vertics'[s].arcs # <<>>
              /\ \A k \in DOMAIN vertics'[s].arcs :
                   Resolved(s, k)' => vertics'[s].arcs[k].to \in DOMAIN vertics'
  <2>1. \A k \in DOMAIN vertics[s].arcs : Resolved(s, k)
    <3>1. vertics[i] \in StateT
      BY <1>a, <1>b, <1>c, StateFacts
    <3>2. \A k \in DOMAIN vertics[i].arcs : k < j
      BY <3>1, <1>b, <1>c, StateFields
    <3> QED BY <3>2, <1>b DEF Resolved
  <2> QED BY <2>1, <1>b, SoFar
<1> QED BY <1>8, <1>10, <1>11, <1>7, <1>b, <1>c, StillGrowing

LEMMA CreateSuccessorStateIInv == ASSUME IInv, CreateSuccessorState PROVE IInv'
<1>a. Control /\ Indices /\ Locals /\ Members /\ Growing
  BY DEF IInv
<1>b. /\ kind = "General" /\ pc = "successors" /\ kind \in ArcKinds /\ pc \in Stages
      /\ j <= Len(vertics[i].arcs) /\ pc' = "successors" /\ pc' \in Stages /\ i' = i /\ j' = j + 1
      /\ UNCHANGED <<vwaa, kind, given, state_num, simplest, trans, rest>>
  BY DEF CreateSuccessorState, Goto, ArcKinds, Stages
<1>c. /\ vertics \in Seq(StateT) /\ DOMAIN vertics = 1 .. Len(vertics) /\ Len(vertics) \in Nat
      /\ i \in DOMAIN vertics /\ i \in Nat /\ j \in Nat /\ j \in DOMAIN vertics[i].arcs
      /\ vertics[i] \in StateT /\ vertics[i].arcs \in Seq(ArcT)
      /\ StateT = GBA_State /\ ArcT = GBA_Arc
  <2>1. /\ vertics \in Seq(StateT) /\ DOMAIN vertics = 1 .. Len(vertics) /\ Len(vertics) \in Nat
        /\ i \in DOMAIN vertics /\ i \in Nat /\ j \in Nat \ {0}
    BY <1>a, <1>b, StateFacts DEF Control, Indices
  <2>2. /\ vertics[i] \in StateT /\ vertics[i].arcs \in Seq(ArcT)
        /\ DOMAIN vertics[i].arcs = 1 .. Len(vertics[i].arcs) /\ Len(vertics[i].arcs) \in Nat
    BY <2>1, <1>a, <1>b, StateFacts
  <2> QED BY <2>1, <2>2, <1>b DEF StateT, ArcT
<1> DEFINE subs == vertics[i].arcs[j].dests
           same == {k \in DOMAIN vertics : vertics[k].subformulas = subs}
           dest == IF same = {} THEN Len(vertics) + 1 ELSE CHOOSE k \in same : \A m \in same : k <= m
           new  == [id |-> dest, arcnum |-> 0, explored |-> FALSE, arcs |-> <<>>, subformulas |-> subs]
           all  == IF same = {} THEN Append(vertics, new) ELSE vertics
           arc  == [vertics[i].arcs[j] EXCEPT !.to = dest]
           arcs == [vertics[i].arcs EXCEPT ![j] = arc]
           t    == [vertics[i] EXCEPT !.arcs = arcs]
<1>1. subs \subseteq Live /\ subs \in SUBSET Node
  BY <1>a, <1>b, <1>c DEF Members, Live
<1>2. /\ dest \in Nat
      /\ same = {} => dest = Len(vertics) + 1
      /\ same # {} => dest \in DOMAIN vertics
  <2>1. CASE same = {}
    BY <2>1, <1>c
  <2>2. CASE same # {}
    <3>1. same \subseteq Nat
      BY <1>c
    <3>2. dest = CHOOSE k \in same : \A m \in same : k <= m
      BY <2>2
    <3>3. same \subseteq DOMAIN vertics
      OBVIOUS
    <3> HIDE DEF dest, same
    <3>4. dest \in same
      BY <3>1, <3>2, <2>2, Least
    <3> QED BY <3>1, <3>3, <3>4, <2>2
  <2> QED BY <2>1, <2>2
<1>3. vertics' = [all EXCEPT ![i].arcs[j].to = dest]
  BY DEF CreateSuccessorState
<1> HIDE DEF dest
<1>4. /\ new \in StateT /\ new.id = dest /\ new.arcs = <<>> /\ DOMAIN new.arcs = {} /\ new.arcnum = 0 /\ new.explored = FALSE
      /\ new.subformulas = subs /\ Len(new.arcs) = 0
  BY <1>1, <1>2, <1>c DEF GBA_State
<1> HIDE DEF new, subs
<1>5. /\ all \in Seq(StateT) /\ Len(all) \in Nat /\ DOMAIN all = 1 .. Len(all)
      /\ Len(vertics) <= Len(all) /\ dest \in DOMAIN all
      /\ \A s \in DOMAIN vertics : s \in DOMAIN all /\ all[s] = vertics[s]
      /\ \A s \in DOMAIN all : s \notin DOMAIN vertics => s = dest /\ all[s] = new /\ s > i
  <2>1. CASE same = {}
    <3>1. all = Append(vertics, new) /\ dest = Len(vertics) + 1
      BY <2>1, <1>2
    <3> HIDE DEF all, same
    <3>2. /\ all \in Seq(StateT) /\ Len(all) = Len(vertics) + 1
          /\ \A s \in 1 .. Len(vertics) : all[s] = vertics[s]
          /\ all[Len(vertics) + 1] = new
      BY <3>1, <1>c, <1>4, AppendProperties
    <3> QED BY <3>1, <3>2, <1>c, Elements
  <2>2. CASE same # {}
    BY <2>2, <1>2, <1>c
  <2> QED BY <2>1, <2>2
<1> HIDE DEF same, all
<1>6. /\ arc \in ArcT /\ arc.to = dest /\ arc.dests = vertics[i].arcs[j].dests
      /\ arc.readyremove = vertics[i].arcs[j].readyremove
  <2>1. vertics[i].arcs[j] \in GBA_Arc
    BY <1>c, Elements
  <2> QED BY <2>1, <1>2, <1>c DEF GBA_Arc
<1>e. /\ vertics[i].arcs[j].dests \subseteq Live /\ ~vertics[i].arcs[j].readyremove
      /\ \A k \in DOMAIN vertics[i].arcs : vertics[i].arcs[k].dests \subseteq Live /\ ~vertics[i].arcs[k].readyremove
  BY <1>a, <1>b, <1>c DEF Members, Growing
<1> HIDE DEF arc
<1>7. /\ arcs \in Seq(ArcT) /\ Len(arcs) = Len(vertics[i].arcs) /\ DOMAIN arcs = DOMAIN vertics[i].arcs
      /\ arcs[j] = arc /\ \A k \in DOMAIN vertics[i].arcs : k # j => arcs[k] = vertics[i].arcs[k]
  <2> DEFINE as == vertics[i].arcs
  <2>1. as \in Seq(ArcT) /\ j \in DOMAIN as /\ arcs = [as EXCEPT ![j] = arc]
    BY <1>c
  <2> HIDE DEF as, arcs, t
  <2>a. arc \in ArcT
    BY <1>6
  <2>b. arcs \in Seq(ArcT)
    BY <2>1, <2>a, OneState
  <2>d. DOMAIN arcs = DOMAIN as
    BY <2>1, <2>a, OneState
  <2>c. Len(arcs) = Len(as)
    BY <2>1, <2>b, <2>d, SameLength
  <2>e. arcs[j] = arc
    BY <2>1, <2>a, OneState
  <2>f. \A k \in DOMAIN as : k # j => arcs[k] = as[k]
    BY <2>1, <2>a, OneState
  <2> QED BY <2>b, <2>c, <2>d, <2>e, <2>f DEF as
<1>8. vertics' = [all EXCEPT ![i] = t]
  <2>1. all[i] = vertics[i]
    BY <1>5, <1>c
  <2> QED BY <2>1, <1>3 DEF arc
<1> HIDE DEF arcs
<1>9. /\ t \in StateT /\ t.id = vertics[i].id /\ t.explored = vertics[i].explored /\ t.arcs = arcs
      /\ t.arcnum = vertics[i].arcnum /\ Same(vertics[i], t)
  BY <1>7, <1>b, <1>c, WithArcs
<1> HIDE DEF t
<1>10. /\ vertics' \in Seq(StateT) /\ DOMAIN vertics' = DOMAIN all
       /\ vertics'[i] = t /\ \A s \in DOMAIN all : s # i => vertics'[s] = all[s]
  BY <1>8, <1>9, <1>5, <1>c, OneState
<1>11. \A s \in DOMAIN vertics' :
         \/ s = i /\ vertics'[s] = t
         \/ s # i /\ s \in DOMAIN vertics /\ vertics'[s] = vertics[s]
         \/ s # i /\ s > i /\ s = dest /\ vertics'[s] = new
  BY <1>5, <1>10, <1>c
<1>12. StateT' = StateT /\ Live' = Live
  BY <1>b, Stay
<1>13. Control' /\ Indices' /\ Locals'
  BY <1>a, <1>b, <1>c, <1>5, <1>10, <1>12 DEF Control, Indices, Locals
<1>14. Members'
  <2>1. vertics' # <<>> /\ Alive(vertics'[1])
    <3>1. vertics'[1].id = vertics[1].id /\ 1 \in DOMAIN vertics
      BY <1>9, <1>10, <1>5, <1>c
    <3>2. vertics' # <<>>
      BY <3>1, <1>10, <1>5, <1>c
    <3> QED BY <3>1, <3>2, <1>a, <1>b DEF Members, Alive
  <2>2. ASSUME NEW s \in DOMAIN vertics'
        PROVE  /\ vertics'[s].subformulas \subseteq Live
               /\ \A k \in DOMAIN vertics'[s].arcs : vertics'[s].arcs[k].dests \subseteq Live
    <3>1. CASE s = i /\ vertics'[s] = t
      <4>1. t.subformulas = vertics[i].subformulas /\ vertics[i].subformulas \subseteq Live
        BY <1>9, <1>a, <1>b, <1>c DEF Same, Members
      <4> QED BY <4>1, <3>1, <1>6, <1>7, <1>9, <1>e
    <3>2. CASE s \in DOMAIN vertics /\ vertics'[s] = vertics[s]
      BY <3>2, <1>a, <1>b DEF Members
    <3>3. CASE vertics'[s] = new
      BY <3>3, <1>1, <1>4
    <3> QED BY <3>1, <3>2, <3>3, <1>11
  <2> QED BY <2>1, <2>2, <1>10, <1>12, <1>b DEF Members
<1>15. Growing'
  <2>1. ASSUME NEW s \in DOMAIN vertics'
        PROVE  /\ vertics'[s].id = s
               /\ \A k \in DOMAIN vertics'[s].arcs : ~vertics'[s].arcs[k].readyremove
               /\ s > i => vertics'[s].arcs = <<>>
               /\ s <= i => vertics'[s].explored
    <3>1. CASE s = i /\ vertics'[s] = t
      <4>1. vertics[i].id = i /\ vertics[i].explored
        BY <1>a, <1>b, <1>c DEF Growing
      <4> QED BY <4>1, <3>1, <1>6, <1>7, <1>9, <1>c, <1>e
    <3>2. CASE s # i /\ s \in DOMAIN vertics /\ vertics'[s] = vertics[s]
      BY <3>2, <1>a, <1>b, <1>c DEF Growing
    <3>3. CASE s > i /\ s = dest /\ vertics'[s] = new
      BY <3>3, <1>4, <1>c, <1>2
    <3> QED BY <3>1, <3>2, <3>3, <1>11
  <2>2. \A s \in DOMAIN vertics' : s \in Int
    BY <1>10, <1>5
  <2> QED BY <2>1, <2>2, <1>b, <1>c DEF Growing
<1>16. ASSUME NEW s \in DOMAIN vertics'
       PROVE  /\ vertics'[s].arcnum = Len(vertics'[s].arcs)
              /\ vertics'[s].explored => vertics'[s].arcs # <<>>
              /\ \A k \in DOMAIN vertics'[s].arcs :
                   Resolved(s, k)' => vertics'[s].arcs[k].to \in DOMAIN vertics'
  <2>1. CASE s = i /\ vertics'[s] = t
    <3>1. ASSUME NEW k \in DOMAIN arcs, Resolved(s, k)'
          PROVE  arcs[k].to \in DOMAIN vertics'
      <4>0. k < j + 1 /\ k \in Int
        BY <3>1, <2>1, <1>b, <1>7, <1>c, Elements DEF Resolved
      <4>1. CASE k = j
        BY <4>1, <1>6, <1>7, <1>5, <1>10
      <4>2. CASE k < j
        <5>1. Resolved(s, k) /\ arcs[k] = vertics[i].arcs[k]
          BY <4>2, <2>1, <1>b, <1>7, <1>c, <4>0 DEF Resolved
        <5>2. vertics[i].arcs[k].to \in DOMAIN vertics
          BY <5>1, <2>1, <1>7, <1>b, <1>c, SoFar
        <5> QED BY <5>1, <5>2, <1>5, <1>10
      <4> QED BY <4>0, <4>1, <4>2, <1>c
    <3>2. arcs # <<>>
      BY <1>7, <1>c
    <3>3. vertics[i].arcnum = Len(vertics[i].arcs)
      BY <1>b, <1>c, SoFar
    <3> QED BY <3>1, <3>2, <3>3, <2>1, <1>7, <1>9
  <2>2. CASE s # i /\ s \in DOMAIN vertics /\ vertics'[s] = vertics[s]
    <3>1. \A k \in DOMAIN vertics[s].arcs : Resolved(s, k)
      BY <2>2 DEF Resolved
    <3> QED BY <3>1, <2>2, <1>5, <1>10, <1>b, SoFar
  <2>3. CASE vertics'[s] = new
    BY <2>3, <1>4
  <2> QED BY <2>1, <2>2, <2>3, <1>11
<1> QED BY <1>13, <1>14, <1>15, <1>16, <1>10, <1>12, <1>b, StillGrowing

-----------------------------------------------------------------------------
(* Buchi::Build_BA. *)

\* The loop that counts stops, at a number that is one of a state's.
LEMMA CountFacts ==
  ASSUME vwaa \in Automata, NEW m \in 0 .. ustacksize, NEW uids
  PROVE  Count(m, uids) \in 0 .. ustacksize
<1> DEFINE base == IF ustacksize = 0 THEN 0 ELSE m % ustacksize
           P(n) == (\A k \in base + 1 .. n : k \in uids) /\ (n = ustacksize \/ n + 1 \notin uids)
           S == {n \in base .. ustacksize : n = ustacksize \/ n + 1 \notin uids}
<1>1. ustacksize \in Nat
  BY AutomatonFacts
<1>2. base \in 0 .. ustacksize
  BY <1>1
<1> HIDE DEF base
<1>3. S \subseteq Nat /\ S # {}
  BY <1>1, <1>2
<1>4. PICK n \in S : \A k \in S : n <= k
  <2> HIDE DEF S
  <2> QED BY <1>3, Least
<1>5. n \in base .. ustacksize /\ P(n)
  <2>1. n \in base .. ustacksize /\ (n = ustacksize \/ n + 1 \notin uids)
    BY <1>4
  <2>2. ASSUME NEW k \in base + 1 .. n PROVE k \in uids
    <3>1. k - 1 \in base .. ustacksize /\ k - 1 # ustacksize /\ ~(n <= k - 1) /\ (k - 1) + 1 = k
      BY <2>1, <2>2, <1>1, <1>2
    <3>2. k - 1 \notin S
      BY <3>1, <1>4
    <3> QED BY <3>1, <3>2
  <2> QED BY <2>1, <2>2
<1>6. Count(m, uids) = CHOOSE c \in base .. ustacksize : P(c)
  BY DEF Count, base
<1> HIDE DEF P, S
<1>7. Count(m, uids) \in base .. ustacksize
  BY <1>5, <1>6
<1> QED BY <1>1, <1>2, <1>7

\* The arc of the generalised automaton that is counted.
LEMMA SourceFacts ==
  ASSUME IInv, kind = "Buchi", NEW s \in DOMAIN vertics
  PROVE  LET as == given[vertics[s].gba_stateid].arcs IN
         /\ Len(as) \in Nat /\ Len(as) > 0 /\ DOMAIN as = 1 .. Len(as)
         /\ \A k \in DOMAIN as : as[k].pred \in SUBSET Literal /\ as[k].to \in LivingIn(given) /\ as[k].to \in Nat
<1> DEFINE g  == vertics[s].gba_stateid
           as == given[g].arcs
<1>1. given \in Seq(GBA_State) /\ g \in LivingIn(given) /\ Closed(given)
  BY DEF IInv, Members
<1>2. g \in DOMAIN given
  BY <1>1 DEF LivingIn
<1>3. given[g] \in GBA_State
  BY <1>1, <1>2, Elements
<1>4. as \in Seq(GBA_Arc)
  BY <1>3 DEF GBA_State
<1>5. as # <<>> /\ \A k \in DOMAIN as : as[k].to \in LivingIn(given)
  BY <1>1 DEF Closed
<1> HIDE DEF as
<1>6. Len(as) \in Nat /\ Len(as) > 0 /\ DOMAIN as = 1 .. Len(as) /\ \A k \in DOMAIN as : as[k] \in GBA_Arc
  BY <1>4, <1>5, Elements, NonEmpty
<1>7. \A k \in DOMAIN as : as[k].pred \in SUBSET Literal /\ as[k].to \in Nat
  BY <1>6 DEF GBA_Arc
<1> QED BY <1>5, <1>6, <1>7 DEF as

LEMMA BuildNextIInv == ASSUME IInv, BuildNext PROVE IInv'
<1>a. Control /\ Indices /\ Locals /\ Members /\ Growing
  BY DEF IInv
<1>b. /\ kind = "Buchi" /\ pc = "build" /\ kind \in ArcKinds /\ pc \in Stages /\ i <= Len(vertics)
      /\ pc' = "build" /\ i' = i + 1 /\ j' = 1 /\ j > Len(Source.arcs)
      /\ UNCHANGED <<vwaa, kind, given, state_num, simplest, trans, rest>>
  BY DEF BuildNext, BA_Building, Goto, ArcKinds, Stages
<1>c. /\ vertics \in Seq(StateT) /\ DOMAIN vertics = 1 .. Len(vertics) /\ Len(vertics) \in Nat
      /\ i \in DOMAIN vertics /\ i \in Nat /\ j \in Nat
  BY <1>a, <1>b, StateFacts DEF Control
<1> DEFINE t == [vertics[i] EXCEPT !.explored = TRUE]
<1>2. vertics[i] \in StateT /\ vertics[i].arcs # <<>>
  <2>1. j > 1
    <3>1. Len(Source.arcs) \in Nat /\ Len(Source.arcs) > 0
      BY <1>b, <1>c, SourceFacts DEF Source
    <3> QED BY <3>1, <1>b, <1>c
  <2> QED BY <2>1, <1>a, <1>b, <1>c, StateFacts DEF Growing
<1>3. vertics' = [vertics EXCEPT ![i] = t]
  BY DEF BuildNext
<1>4. /\ t \in StateT /\ t.id = vertics[i].id /\ t.explored = TRUE /\ t.arcs = vertics[i].arcs
      /\ t.arcnum = vertics[i].arcnum /\ Same(vertics[i], t)
  BY <1>2, <1>b, WithExplored
<1> HIDE DEF t
<1>6. /\ vertics' \in Seq(StateT) /\ Len(vertics') = Len(vertics) /\ DOMAIN vertics' = DOMAIN vertics
      /\ vertics'[i] = t /\ \A s \in DOMAIN vertics : s # i => vertics'[s] = vertics[s]
  BY <1>3, <1>4, <1>c, OneState
<1>5. \A s \in DOMAIN vertics' :
        /\ vertics'[s].id = vertics[s].id /\ vertics'[s].arcs = vertics[s].arcs
        /\ vertics'[s].arcnum = vertics[s].arcnum /\ vertics'[s].gba_stateid = vertics[s].gba_stateid
  BY <1>4, <1>6, <1>b DEF Same
<1>7. StateT' = StateT /\ Live' = Live
  BY <1>b, Stay
<1>8. Control' /\ Indices' /\ Locals'
  BY <1>a, <1>b, <1>c, <1>7 DEF Control, Indices, Locals
<1>9. Members'
  <2>1. vertics' # <<>> /\ Alive(vertics'[1])
    <3>1. 1 \in DOMAIN vertics
      BY <1>c
    <3> QED BY <3>1, <1>5, <1>a, <1>b, <1>6, <1>c DEF Members, Alive
  <2>2. given' \in Seq(GBA_State')
    BY <1>a, <1>b, Stay DEF Members
  <2> QED BY <2>1, <2>2, <1>5, <1>6, <1>7, <1>a, <1>b DEF Members
<1>10. Growing'
  <2>1. \A s \in DOMAIN vertics' : s < i + 1 => vertics'[s].explored
    BY <1>4, <1>6, <1>a, <1>b, <1>c DEF Growing
  <2>2. \A s \in DOMAIN vertics' : s > i + 1 => vertics'[s].arcs = <<>>
    BY <1>5, <1>6, <1>a, <1>b, <1>c DEF Growing
  <2>3. \A s \in DOMAIN vertics' : vertics'[s].id = s /\ \A k \in DOMAIN vertics'[s].arcs : ~vertics'[s].arcs[k].readyremove
    BY <1>5, <1>6, <1>a, <1>b DEF Growing
  <2> QED BY <2>1, <2>2, <2>3, <1>b, <1>c, <1>6 DEF Growing
<1>11. ASSUME NEW s \in DOMAIN vertics'
       PROVE  /\ vertics'[s].arcnum = Len(vertics'[s].arcs)
              /\ vertics'[s].explored => vertics'[s].arcs # <<>>
              /\ \A k \in DOMAIN vertics'[s].arcs :
                   Resolved(s, k)' => vertics'[s].arcs[k].to \in DOMAIN vertics'
  <2>1. \A k \in DOMAIN vertics[s].arcs : Resolved(s, k)
    BY <1>b DEF Resolved
  <2>2. vertics'[s].explored => vertics'[s].arcs # <<>>
    BY <1>2, <1>5, <1>6, <1>b, SoFar
  <2> QED BY <2>1, <2>2, <1>5, <1>6, <1>b, SoFar
<1> QED BY <1>8, <1>9, <1>10, <1>11, <1>6, <1>7, <1>b, StillGrowing

LEMMA BuildArcIInv == ASSUME IInv, BuildArc PROVE IInv'
<1>a. Control /\ Indices /\ Locals /\ Members /\ Growing
  BY DEF IInv
<1>b. /\ kind = "Buchi" /\ pc = "build" /\ kind \in ArcKinds /\ pc \in Stages /\ i <= Len(vertics)
      /\ pc' = "build" /\ i' = i /\ j' = j + 1 /\ j <= Len(Source.arcs)
      /\ UNCHANGED <<vwaa, kind, given, state_num, simplest, trans, rest>>
  BY DEF BuildArc, BA_Building, Goto, ArcKinds, Stages
<1>c. /\ vertics \in Seq(StateT) /\ DOMAIN vertics = 1 .. Len(vertics) /\ Len(vertics) \in Nat
      /\ i \in DOMAIN vertics /\ i \in Nat /\ j \in Nat \ {0} /\ vwaa \in Automata
      /\ StateT = BA_States /\ ArcT = BA_Arc
  BY <1>a, <1>b, StateFacts DEF Control, StateT, ArcT
<1>d. ustacksize \in Nat
  BY <1>c, AutomatonFacts
<1> DEFINE a    == Source.arcs[j]
           num  == Count(vertics[i].marknum, a.uids)
           same == {k \in DOMAIN vertics : vertics[k].gba_stateid = a.to /\ vertics[k].marknum = num}
           dest == IF same = {} THEN Len(vertics) + 1 ELSE CHOOSE k \in same : \A m \in same : k <= m
           new  == BA_State(dest, a.to, num)
           all  == IF same = {} THEN Append(vertics, new) ELSE vertics
           arc  == [pred |-> a.pred, to |-> dest, readyremove |-> FALSE]
           t    == BA_AddArc(vertics[i], arc)
<1>1. a.pred \in SUBSET Literal /\ a.to \in LivingIn(given) /\ a.to \in Nat
  <2>1. j \in DOMAIN Source.arcs
    BY <1>b, <1>c, SourceFacts DEF Source
  <2> QED BY <2>1, <1>b, <1>c, SourceFacts DEF Source
<1>n. num \in 0 .. ustacksize
  <2>1. vertics[i].marknum \in 0 .. ustacksize
    <3>1. vertics[i] \in BA_States
      BY <1>c, Elements
    <3> QED BY <3>1 DEF BA_States
  <2> QED BY <2>1, <1>c, CountFacts
<1>3. vertics' = [all EXCEPT ![i] = BA_AddArc(@, arc)]
  BY DEF BuildArc
<1> HIDE DEF a, num
<1>2. /\ dest \in Nat
      /\ same = {} => dest = Len(vertics) + 1
      /\ same # {} => dest \in DOMAIN vertics
  <2>1. CASE same = {}
    BY <2>1, <1>c
  <2>2. CASE same # {}
    <3>1. same \subseteq Nat
      BY <1>c
    <3>2. dest = CHOOSE k \in same : \A m \in same : k <= m
      BY <2>2
    <3>3. same \subseteq DOMAIN vertics
      OBVIOUS
    <3> HIDE DEF dest, same
    <3>4. dest \in same
      BY <3>1, <3>2, <2>2, Least
    <3> QED BY <3>1, <3>3, <3>4, <2>2
  <2> QED BY <2>1, <2>2
<1> HIDE DEF dest
<1>4. /\ new \in StateT /\ new.id = dest /\ new.arcs = <<>> /\ DOMAIN new.arcs = {} /\ new.arcnum = 0 /\ new.explored = FALSE
      /\ new.gba_stateid = a.to /\ Len(new.arcs) = 0
  BY <1>1, <1>n, <1>2, <1>c DEF BA_States, BA_State
<1> HIDE DEF new
<1>5. /\ all \in Seq(StateT) /\ Len(all) \in Nat /\ DOMAIN all = 1 .. Len(all)
      /\ Len(vertics) <= Len(all) /\ dest \in DOMAIN all
      /\ \A s \in DOMAIN vertics : s \in DOMAIN all /\ all[s] = vertics[s]
      /\ \A s \in DOMAIN all : s \notin DOMAIN vertics => s = dest /\ all[s] = new /\ s > i
  <2>1. CASE same = {}
    <3>1. all = Append(vertics, new) /\ dest = Len(vertics) + 1
      BY <2>1, <1>2
    <3> HIDE DEF all, same
    <3>2. /\ all \in Seq(StateT) /\ Len(all) = Len(vertics) + 1
          /\ \A s \in 1 .. Len(vertics) : all[s] = vertics[s]
          /\ all[Len(vertics) + 1] = new
      BY <3>1, <1>c, <1>4, AppendProperties
    <3> QED BY <3>1, <3>2, <1>c, Elements
  <2>2. CASE same # {}
    BY <2>2, <1>2, <1>c
  <2> QED BY <2>1, <2>2
<1> HIDE DEF same, all
<1>6. arc \in ArcT /\ arc.to = dest /\ ~arc.readyremove
  BY <1>1, <1>2, <1>c DEF BA_Arc
<1>8. vertics' = [all EXCEPT ![i] = t]
  <2>1. all[i] = vertics[i]
    BY <1>5, <1>c
  <2> QED BY <2>1, <1>3
<1> HIDE DEF arc
<1>e. /\ vertics[i] \in StateT /\ vertics[i].id = i /\ vertics[i].arcnum = Len(vertics[i].arcs)
      /\ \A k \in DOMAIN vertics[i].arcs : ~vertics[i].arcs[k].readyremove
      /\ \A k \in DOMAIN vertics[i].arcs : vertics[i].arcs[k].to \in DOMAIN vertics
  <2>1. \A k \in DOMAIN vertics[i].arcs : Resolved(i, k)
    BY <1>b DEF Resolved
  <2> QED BY <2>1, <1>a, <1>b, <1>c, StateFacts, SoFar DEF Growing
<1>9. /\ t \in StateT /\ t.id = i /\ t.explored = vertics[i].explored /\ t.arcs # <<>>
      /\ t.arcnum = Len(t.arcs) /\ Same(vertics[i], t)
      /\ \A k \in DOMAIN t.arcs : t.arcs[k] = arc \/ \E m \in DOMAIN vertics[i].arcs : t.arcs[k] = vertics[i].arcs[m]
  BY <1>6, <1>e, <1>b, BA_AddArcFacts
<1> HIDE DEF t
<1>10. /\ vertics' \in Seq(StateT) /\ DOMAIN vertics' = DOMAIN all
       /\ vertics'[i] = t /\ \A s \in DOMAIN all : s # i => vertics'[s] = all[s]
  BY <1>8, <1>9, <1>5, <1>c, OneState
<1>11. \A s \in DOMAIN vertics' :
         \/ s = i /\ vertics'[s] = t
         \/ s # i /\ s \in DOMAIN vertics /\ vertics'[s] = vertics[s]
         \/ s # i /\ s > i /\ s = dest /\ vertics'[s] = new
  BY <1>5, <1>10, <1>c
<1>12. StateT' = StateT /\ Live' = Live /\ GBA_State' = GBA_State
  BY <1>b, Stay
<1>13. Control' /\ Indices' /\ Locals'
  BY <1>a, <1>b, <1>c, <1>5, <1>10, <1>12 DEF Control, Indices, Locals
<1>14. Members'
  <2>1. vertics' # <<>> /\ Alive(vertics'[1])
    <3>1. vertics'[1].id = vertics[1].id /\ 1 \in DOMAIN vertics
      BY <1>9, <1>10, <1>5, <1>c, <1>e
    <3>2. vertics' # <<>>
      BY <3>1, <1>10, <1>5, <1>c
    <3> QED BY <3>1, <3>2, <1>a, <1>b DEF Members, Alive
  <2>2. ASSUME NEW s \in DOMAIN vertics'
        PROVE  vertics'[s].gba_stateid \in LivingIn(given)
    <3>1. CASE s = i /\ vertics'[s] = t
      <4>1. t.gba_stateid = vertics[i].gba_stateid /\ vertics[i].gba_stateid \in LivingIn(given)
        BY <1>9, <1>a, <1>b, <1>c DEF Same, Members
      <4> QED BY <4>1, <3>1
    <3>2. CASE s \in DOMAIN vertics /\ vertics'[s] = vertics[s]
      BY <3>2, <1>a, <1>b DEF Members
    <3>3. CASE vertics'[s] = new
      BY <3>3, <1>1, <1>4
    <3> QED BY <3>1, <3>2, <3>3, <1>11
  <2>3. given' \in Seq(GBA_State') /\ Closed(given') /\ given' = given
    BY <1>a, <1>b, <1>12 DEF Members
  <2> QED BY <2>1, <2>2, <2>3, <1>10, <1>12, <1>b DEF Members
<1>15. Growing'
  <2>1. ASSUME NEW s \in DOMAIN vertics'
        PROVE  /\ vertics'[s].id = s
               /\ \A k \in DOMAIN vertics'[s].arcs : ~vertics'[s].arcs[k].readyremove
               /\ s > i => vertics'[s].arcs = <<>>
               /\ s < i => vertics'[s].explored
    <3>1. CASE s = i /\ vertics'[s] = t
      BY <3>1, <1>6, <1>9, <1>c, <1>e
    <3>2. CASE s # i /\ s \in DOMAIN vertics /\ vertics'[s] = vertics[s]
      BY <3>2, <1>a, <1>b, <1>c DEF Growing
    <3>3. CASE s > i /\ s = dest /\ vertics'[s] = new
      BY <3>3, <1>4, <1>c, <1>2
    <3> QED BY <3>1, <3>2, <3>3, <1>11
  <2>2. \A s \in DOMAIN vertics' : s \in Int
    BY <1>10, <1>5
  <2>3. vertics'[i].arcs # <<>>
    BY <1>9, <1>10
  <2> QED BY <2>1, <2>2, <2>3, <1>b, <1>c DEF Growing
<1>16. ASSUME NEW s \in DOMAIN vertics'
       PROVE  /\ vertics'[s].arcnum = Len(vertics'[s].arcs)
              /\ vertics'[s].explored => vertics'[s].arcs # <<>>
              /\ \A k \in DOMAIN vertics'[s].arcs :
                   Resolved(s, k)' => vertics'[s].arcs[k].to \in DOMAIN vertics'
  <2>1. CASE s = i /\ vertics'[s] = t
    BY <2>1, <1>5, <1>6, <1>9, <1>10, <1>e
  <2>2. CASE s # i /\ s \in DOMAIN vertics /\ vertics'[s] = vertics[s]
    <3>1. \A k \in DOMAIN vertics[s].arcs : Resolved(s, k)
      BY <2>2 DEF Resolved
    <3> QED BY <3>1, <2>2, <1>5, <1>10, <1>b, SoFar
  <2>3. CASE vertics'[s] = new
    BY <2>3, <1>4
  <2> QED BY <2>1, <2>2, <2>3, <1>11
<1> QED BY <1>13, <1>14, <1>15, <1>16, <1>10, <1>12, <1>b, StillGrowing

-----------------------------------------------------------------------------
(* Simplify, of General and of Buchi. *)

Loops == {"mark", "unlink", "merge"}

\* What the invariant says meanwhile.
LEMMA Simply ==
  ASSUME IInv, kind \in ArcKinds, pc \in Loops
  PROVE  /\ state_num = Cardinality(Living)
         /\ 1 \in Living
         /\ \A s \in DOMAIN vertics : vertics[s].explored /\ vertics[s].arcnum = Len(vertics[s].arcs)
         /\ \A s \in Living : /\ s \in DOMAIN vertics
                              /\ vertics[s].id = s
                              /\ \E k \in DOMAIN vertics[s].arcs : ~vertics[s].arcs[k].readyremove
                              /\ \A k \in DOMAIN vertics[s].arcs : vertics[s].arcs[k].to \in Living
<1>1. \A s \in DOMAIN vertics : vertics[s].explored
  BY DEF IInv, AllExplored, Loops, Stages
<1>2. kind # "StateBuchi" /\ pc # "product" /\ pc # "successors"
  BY DEF ArcKinds, Loops
<1>3. \A s \in Living : s \in DOMAIN vertics
  BY DEF Living
<1>4. state_num = Cardinality(Living)
  BY DEF IInv, SelfCheck, StatesCounted, Loops
<1>5. \A s \in Living : vertics[s].id = s
  BY DEF IInv, SelfCheck, IdsArePositions
<1>6. \A s \in Living : \E k \in DOMAIN vertics[s].arcs : ~vertics[s].arcs[k].readyremove
  BY <1>1, <1>2, <1>3 DEF IInv, SomeArcStays
<1>7. \A s \in Living : \A k \in DOMAIN vertics[s].arcs : vertics[s].arcs[k].to \in Living
  BY <1>2 DEF IInv, SelfCheck, NoArcToDead, Resolved
<1>8. 1 \in Living
  BY StateFacts DEF IInv, Members, Living
<1> QED BY <1>1, <1>2, <1>3, <1>4, <1>5, <1>6, <1>7, <1>8 DEF IInv, SelfCheck, ArcsCounted

\* What is left to show of a step within Simplify.
LEMMA Simplified ==
  ASSUME Control', Indices', Locals', Members', kind' \in ArcKinds, pc' \in Loops,
         state_num' = Cardinality(Living'),
         \A s \in DOMAIN vertics' : vertics'[s].explored /\ vertics'[s].arcnum = Len(vertics'[s].arcs),
         \A s \in Living' : /\ vertics'[s].id = s
                            /\ \E k \in DOMAIN vertics'[s].arcs : ~vertics'[s].arcs[k].readyremove
                            /\ \A k \in DOMAIN vertics'[s].arcs : vertics'[s].arcs[k].to \in Living'
  PROVE  IInv'
<1>1. kind' # "StateBuchi" /\ pc' \notin Stages
  BY DEF ArcKinds, Loops, Stages
<1>2. Growing'
  BY <1>1 DEF Growing, Stages
<1>3. AllExplored'
  BY DEF AllExplored
<1>4. SelfCheck'
  BY <1>1 DEF SelfCheck, IdsArePositions, ArcsCounted, StatesCounted, NoArcToDead
<1>5. SomeArcStays'
  BY <1>1 DEF SomeArcStays
<1> QED BY <1>2, <1>3, <1>4, <1>5 DEF IInv

\* A step that only moves on.
LEMMA MovesOn ==
  ASSUME IInv, kind \in ArcKinds, pc \in Loops, pc' \in Loops, Control', Indices',
         UNCHANGED <<vwaa, kind, given, vertics, state_num, trans, rest>>
  PROVE  IInv'
<1>1. StateT' = StateT /\ Live' = Live /\ GBA_State' = GBA_State /\ BA_States' = BA_States
  BY Stay
<1>2. kind \in {"General", "Buchi"} /\ pc # "product" /\ pc' # "product"
  BY DEF ArcKinds, Loops
<1>3. Locals'
  BY <1>1, <1>2 DEF IInv, Locals
<1>4. Members'
  BY <1>1, <1>2 DEF IInv, Members
<1>5. Living' = Living
  BY DEF Living
<1> QED BY <1>3, <1>4, <1>5, Simply, Simplified

LEMMA BuiltIInv == ASSUME IInv, Built PROVE IInv'
<1>a. Control /\ Indices /\ Locals /\ Members /\ Growing
  BY DEF IInv
<1>b. /\ kind \in ArcKinds /\ pc = "build" /\ pc \in Stages /\ i > Len(vertics) /\ kind \in {"General", "Buchi"}
      /\ pc' = "mark" /\ pc' \in Loops /\ i' = 1 /\ j' = 1 /\ state_num' = Len(vertics) /\ simplest' = TRUE
      /\ UNCHANGED <<vwaa, kind, given, vertics, trans, rest>>
  BY DEF Built, Goto, ArcKinds, Stages, Loops
<1>c. /\ DOMAIN vertics = 1 .. Len(vertics) /\ Len(vertics) \in Nat /\ i \in Nat
  BY <1>a, <1>b, StateFacts DEF Control
<1>1. StateT' = StateT /\ Live' = Live /\ GBA_State' = GBA_State /\ BA_States' = BA_States
  BY <1>b, Stay
<1>2. Control' /\ Indices' /\ Locals'
  BY <1>a, <1>b, <1>c, <1>1 DEF Control, Indices, Locals
<1>3. Members'
  BY <1>a, <1>b, <1>1 DEF Members
<1>4. Living' = DOMAIN vertics
  BY <1>a, <1>b, <1>c, AllAlive DEF Growing, Living
<1>5. state_num' = Cardinality(Living')
  <2>1. \A n \in Nat : Cardinality(1 .. n) = n
    BY FS_Interval
  <2> QED BY <2>1, <1>4, <1>b, <1>c
<1>6. ASSUME NEW s \in DOMAIN vertics
      PROVE  /\ vertics[s].explored /\ vertics[s].arcnum = Len(vertics[s].arcs) /\ vertics[s].id = s
             /\ \E k \in DOMAIN vertics[s].arcs : ~vertics[s].arcs[k].readyremove
             /\ \A k \in DOMAIN vertics[s].arcs : vertics[s].arcs[k].to \in DOMAIN vertics
  <2>1. vertics[s].explored
    BY <1>a, <1>b, <1>c DEF Growing
  <2>2. vertics[s].id = s /\ \A k \in DOMAIN vertics[s].arcs : ~vertics[s].arcs[k].readyremove
    BY <1>a, <1>b DEF Growing
  <2>3. 1 \in DOMAIN vertics[s].arcs
    <3> DEFINE as == vertics[s].arcs
    <3>1. as \in Seq(ArcT) /\ as # <<>>
      BY <1>a, <1>b, <2>1, StateFacts, SoFar
    <3> HIDE DEF as
    <3>2. 1 \in DOMAIN as
      BY <3>1, NonEmpty
    <3> QED BY <3>2 DEF as
  <2>4. \A k \in DOMAIN vertics[s].arcs : Resolved(s, k)
    BY <1>b DEF Resolved
  <2> QED BY <2>1, <2>2, <2>3, <2>4, <1>b, SoFar
<1> QED BY <1>2, <1>3, <1>4, <1>5, <1>6, <1>b, Simplified

LEMMA SkipDeadIInv == ASSUME IInv, SkipDead PROVE IInv'
<1>1. /\ kind \in ArcKinds /\ pc \in Loops /\ pc' = "mark" /\ pc' \in Loops /\ i' = i + 1 /\ j' = 1
      /\ UNCHANGED <<vwaa, kind, given, vertics, state_num, simplest, trans, rest>>
  BY DEF SkipDead, Simplifying, Goto, ArcKinds, Loops
<1>2. Control' /\ Indices'
  BY <1>1 DEF IInv, Control, Indices
<1> QED BY <1>1, <1>2, MovesOn

LEMMA MarkedIInv == ASSUME IInv, Marked PROVE IInv'
<1>1. /\ kind \in ArcKinds /\ pc \in Loops /\ pc' = "unlink" /\ pc' \in Loops /\ i' = i /\ j' = 1
      /\ Alive(vertics[i]) /\ i <= Len(vertics)
      /\ UNCHANGED <<vwaa, kind, given, vertics, state_num, simplest, trans, rest>>
  BY DEF Marked, Simplifying, Goto, ArcKinds, Loops
<1>2. DOMAIN vertics = 1 .. Len(vertics) /\ i \in Nat \ {0}
  BY <1>1, StateFacts DEF IInv, Control
<1>3. Control' /\ Indices'
  BY <1>1, <1>2 DEF IInv, Control, Indices, ArcKinds
<1> QED BY <1>1, <1>3, MovesOn

LEMMA UnlinkedIInv == ASSUME IInv, Unlinked PROVE IInv'
<1>1. /\ kind \in ArcKinds /\ pc \in Loops /\ pc' = "mark" /\ pc' \in Loops /\ i' = i + 1 /\ j' = 1
      /\ UNCHANGED <<vwaa, kind, given, vertics, state_num, simplest, trans, rest>>
  BY DEF Unlinked, Simplifying, Goto, ArcKinds, Loops
<1>2. Control' /\ Indices'
  BY <1>1 DEF IInv, Control, Indices
<1> QED BY <1>1, <1>2, MovesOn

LEMMA TransitionsDoneIInv == ASSUME IInv, TransitionsDone PROVE IInv'
<1>1. /\ kind \in ArcKinds /\ pc \in Loops /\ pc' = "merge" /\ pc' \in Loops /\ i' = 1 /\ j' = 2
      /\ UNCHANGED <<vwaa, kind, given, vertics, state_num, simplest, trans, rest>>
  BY DEF TransitionsDone, Goto, ArcKinds, Loops
<1>2. Control' /\ Indices'
  BY <1>1 DEF IInv, Control, Indices
<1> QED BY <1>1, <1>2, MovesOn

\* The indices of the pairs of states.
LEMMA PairIndices ==
  ASSUME NextPair, Control, Indices, pc = "merge"
  PROVE  pc' = "merge" /\ i' \in Nat \ {0} /\ j' \in Nat \ {0} /\ i' < j'
BY DEF NextPair, Goto, Control, Indices

LEMMA KeepBothIInv == ASSUME IInv, KeepBoth PROVE IInv'
<1>1. /\ kind \in ArcKinds /\ pc = "merge" /\ pc \in Loops
      /\ UNCHANGED <<vwaa, kind, given, vertics, state_num, simplest, trans, rest>>
  BY DEF KeepBoth, Merging, ArcKinds, Loops
<1>2. pc' = "merge" /\ i' \in Nat \ {0} /\ j' \in Nat \ {0} /\ i' < j'
  BY <1>1, PairIndices DEF KeepBoth, IInv
<1>3. Control' /\ Indices' /\ pc' \in Loops
  BY <1>1, <1>2 DEF IInv, Control, Indices, ArcKinds, Loops
<1> QED BY <1>1, <1>3, MovesOn

LEMMA AgainIInv == ASSUME IInv, Again, kind \in ArcKinds PROVE IInv'
<1>1. /\ pc \in Loops /\ pc' = "mark" /\ pc' \in Loops /\ i' = 1 /\ j' = 1 /\ simplest' = TRUE
      /\ UNCHANGED <<vwaa, kind, given, vertics, state_num, trans, rest>>
  BY DEF Again, MergeDone, Goto, ArcKinds, Loops
<1>2. Control' /\ Indices'
  BY <1>1 DEF IInv, Control, Indices, ArcKinds
<1> QED BY <1>1, <1>2, MovesOn

LEMMA MarkedArc ==
  ASSUME kind \in ArcKinds, NEW a \in ArcT, NEW b \in BOOLEAN
  PROVE  LET c == [a EXCEPT !.readyremove = b] IN
         c \in ArcT /\ c.to = a.to /\ c.readyremove = b /\ (kind = "General" => c.dests = a.dests)
<1>1. CASE kind = "General"
  BY <1>1 DEF ArcT, GBA_Arc
<1>2. CASE kind = "Buchi"
  BY <1>2 DEF ArcT, BA_Arc
<1> QED BY <1>1, <1>2 DEF ArcKinds

LEMMA RedirectedArc ==
  ASSUME kind \in ArcKinds, NEW a \in ArcT, NEW n \in Nat
  PROVE  LET c == [a EXCEPT !.to = n] IN
         c \in ArcT /\ c.to = n /\ c.readyremove = a.readyremove /\ (kind = "General" => c.dests = a.dests)
<1>1. CASE kind = "General"
  BY <1>1 DEF ArcT, GBA_Arc
<1>2. CASE kind = "Buchi"
  BY <1>2 DEF ArcT, BA_Arc
<1> QED BY <1>1, <1>2 DEF ArcKinds

LEMMA ListOf ==
  ASSUME NEW T, NEW n \in Nat, NEW w, w = [k \in 1 .. n |-> w[k]], \A k \in 1 .. n : w[k] \in T
  PROVE  w \in Seq(T) /\ Len(w) = n /\ DOMAIN w = 1 .. n
OBVIOUS

\* What is left to show of a step that marks or unlinks arcs of state i.
LEMMA FewerArcs ==
  ASSUME IInv, kind \in ArcKinds, pc \in Loops, pc' \in Loops, Control', Indices',
         UNCHANGED <<vwaa, kind, given, state_num, trans, rest>>,
         i \in DOMAIN vertics, NEW t \in StateT, vertics' = [vertics EXCEPT ![i] = t],
         t.id = vertics[i].id, t.explored = vertics[i].explored, Same(vertics[i], t), t.arcnum = Len(t.arcs),
         Alive(vertics[i]) => \E k \in DOMAIN t.arcs : ~t.arcs[k].readyremove,
         \A k \in DOMAIN t.arcs : \E m \in DOMAIN vertics[i].arcs :
           /\ t.arcs[k].to = vertics[i].arcs[m].to
           /\ kind = "General" => t.arcs[k].dests = vertics[i].arcs[m].dests
  PROVE  IInv'
<1>a. Control /\ Indices /\ Locals /\ Members
  BY DEF IInv
<1>c. vertics \in Seq(StateT) /\ DOMAIN vertics = 1 .. Len(vertics) /\ Len(vertics) \in Nat \ {0}
  BY <1>a, StateFacts
<1>1. /\ vertics' \in Seq(StateT) /\ Len(vertics') = Len(vertics) /\ DOMAIN vertics' = DOMAIN vertics
      /\ vertics'[i] = t /\ \A s \in DOMAIN vertics : s # i => vertics'[s] = vertics[s]
  BY <1>c, OneState
<1>2. StateT' = StateT /\ Live' = Live /\ GBA_State' = GBA_State /\ BA_States' = BA_States
  BY Stay
<1>3. kind \in {"General", "Buchi"} /\ pc # "product" /\ pc' # "product"
  BY DEF ArcKinds, Loops
<1>4. Locals'
  BY <1>a, <1>2, <1>3 DEF Locals
<1>5. \A s \in DOMAIN vertics' : vertics'[s].id = vertics[s].id /\ vertics'[s].explored = vertics[s].explored
  BY <1>1
<1>6. Living' = Living
  BY <1>1, <1>5 DEF Living, Alive
<1>7. Members'
  <2>1. vertics' # <<>> /\ Alive(vertics'[1])
    <3>1. 1 \in DOMAIN vertics /\ vertics' # <<>>
      BY <1>1, <1>c
    <3> QED BY <3>1, <1>1, <1>5, <1>a DEF Members, Alive
  <2>2. CASE kind = "General"
    <3>1. ASSUME NEW s \in DOMAIN vertics'
          PROVE  /\ vertics'[s].subformulas \subseteq Live
                 /\ \A k \in DOMAIN vertics'[s].arcs : vertics'[s].arcs[k].dests \subseteq Live
      <4>0. /\ vertics[s].subformulas \subseteq Live
            /\ \A k \in DOMAIN vertics[s].arcs : vertics[s].arcs[k].dests \subseteq Live
        BY <1>1, <1>a, <2>2 DEF Members
      <4>1. CASE s = i
        BY <4>0, <4>1, <1>1, <2>2 DEF Same
      <4>2. CASE s # i
        BY <4>0, <4>2, <1>1
      <4> QED BY <4>1, <4>2
    <3> QED BY <3>1, <2>1, <2>2, <1>1, <1>2 DEF Members
  <2>3. CASE kind = "Buchi"
    <3>1. \A s \in DOMAIN vertics' : vertics'[s].gba_stateid = vertics[s].gba_stateid
      BY <2>3, <1>1 DEF Same
    <3> QED BY <3>1, <2>1, <2>3, <1>1, <1>2, <1>a DEF Members
  <2> QED BY <2>2, <2>3, <1>3
<1>8. \A s \in DOMAIN vertics' : vertics'[s].explored /\ vertics'[s].arcnum = Len(vertics'[s].arcs)
  BY <1>1, <1>5, Simply
<1>9. ASSUME NEW s \in Living'
      PROVE  /\ vertics'[s].id = s
             /\ \E k \in DOMAIN vertics'[s].arcs : ~vertics'[s].arcs[k].readyremove
             /\ \A k \in DOMAIN vertics'[s].arcs : vertics'[s].arcs[k].to \in Living'
  <2>0. /\ vertics[s].id = s /\ s \in DOMAIN vertics /\ Alive(vertics[s])
        /\ \E k \in DOMAIN vertics[s].arcs : ~vertics[s].arcs[k].readyremove
        /\ \A k \in DOMAIN vertics[s].arcs : vertics[s].arcs[k].to \in Living
    BY <1>6, Simply DEF Living
  <2>1. CASE s = i
    BY <2>0, <2>1, <1>1, <1>6
  <2>2. CASE s # i
    BY <2>0, <2>2, <1>1, <1>6
  <2> QED BY <2>1, <2>2
<1>10. state_num' = Cardinality(Living')
  BY <1>6, Simply
<1> QED BY <1>4, <1>7, <1>8, <1>9, <1>10, Simplified

LEMMA MarkIInv == ASSUME IInv, Mark PROVE IInv'
<1> DEFINE arcs == vertics[i].arcs
           hits == {k \in DOMAIN arcs \ {j} : /\ ~arcs[j].readyremove /\ ~arcs[k].readyremove
                                              /\ implies(arcs[j], arcs[k])}
           b(k) == arcs[k].readyremove \/ k \in hits
           as   == [k \in DOMAIN arcs |-> [arcs[k] EXCEPT !.readyremove = b(k)]]
           t    == [vertics[i] EXCEPT !.arcs = as]
<1>b. /\ kind \in ArcKinds /\ pc = "mark" /\ pc \in Loops /\ pc' = "mark" /\ pc' \in Loops /\ i' = i /\ j' = j + 1
      /\ i <= Len(vertics) /\ Alive(vertics[i]) /\ j <= Len(arcs)
      /\ UNCHANGED <<vwaa, kind, given, state_num, trans, rest>>
      /\ simplest' = (simplest /\ hits = {})
  BY DEF Mark, Simplifying, Goto, ArcKinds, Loops
<1>c. /\ i \in DOMAIN vertics /\ j \in Nat \ {0} /\ vertics[i] \in StateT
      /\ arcs \in Seq(ArcT) /\ Len(arcs) \in Nat /\ DOMAIN arcs = 1 .. Len(arcs) /\ \A k \in DOMAIN arcs : arcs[k] \in ArcT
      /\ j \in DOMAIN arcs
  <2>1. i \in Nat \ {0} /\ j \in Nat \ {0}
    BY DEF IInv, Control
  <2> QED BY <2>1, <1>b, StateFacts DEF IInv
<1>1. vertics' = [vertics EXCEPT ![i] = t]
  BY DEF Mark
<1>2. hits = {} \/ (j \notin hits /\ ~arcs[j].readyremove)
  OBVIOUS
<1> HIDE DEF hits
<1>3. \A k \in DOMAIN arcs : b(k) \in BOOLEAN
  OBVIOUS
<1>4. \A k \in DOMAIN arcs : /\ as[k] \in ArcT /\ as[k].to = arcs[k].to /\ as[k].readyremove = b(k)
                             /\ kind = "General" => as[k].dests = arcs[k].dests
  <2> SUFFICES ASSUME NEW k \in DOMAIN arcs
               PROVE  /\ as[k] \in ArcT /\ as[k].to = arcs[k].to /\ as[k].readyremove = b(k)
                      /\ kind = "General" => as[k].dests = arcs[k].dests
    OBVIOUS
  <2> DEFINE a == arcs[k]
             y == b(k)
  <2>1. as[k] = [a EXCEPT !.readyremove = y]
    OBVIOUS
  <2>2. a \in ArcT /\ y \in BOOLEAN
    BY <1>c, <1>3
  <2>3. as[k].to = as[k].to /\ a = arcs[k] /\ y = b(k)
    OBVIOUS
  <2> HIDE DEF a, y, as
  <2>4. as[k] \in ArcT /\ as[k].to = a.to /\ as[k].readyremove = y /\ (kind = "General" => as[k].dests = a.dests)
    BY <2>1, <2>2, <1>b, MarkedArc
  <2> QED BY <2>3, <2>4
<1>5. as = [k \in 1 .. Len(arcs) |-> as[k]]
  BY <1>c
<1> HIDE DEF as
<1>6. as \in Seq(ArcT) /\ Len(as) = Len(arcs) /\ DOMAIN as = DOMAIN arcs
  <2> DEFINE n == Len(arcs)
  <2>1. n \in Nat /\ as = [k \in 1 .. n |-> as[k]] /\ (\A k \in 1 .. n : as[k] \in ArcT) /\ DOMAIN arcs = 1 .. n
    BY <1>4, <1>5, <1>c
  <2> HIDE DEF n, arcs
  <2>2. as \in Seq(ArcT) /\ Len(as) = n /\ DOMAIN as = 1 .. n
    BY <2>1, ListOf
  <2> QED BY <2>1, <2>2 DEF n
<1>7. t \in StateT /\ t.id = vertics[i].id /\ t.arcnum = vertics[i].arcnum
      /\ t.explored = vertics[i].explored /\ t.arcs = as /\ Same(vertics[i], t)
  BY <1>6, <1>b, <1>c, WithArcs
<1> HIDE DEF t
<1>8. t.arcnum = Len(t.arcs)
  BY <1>6, <1>7, <1>b, <1>c, Simply
<1>9. \E k \in DOMAIN t.arcs : ~t.arcs[k].readyremove
  <2>1. PICK m \in DOMAIN arcs : ~arcs[m].readyremove
    BY <1>b, <1>c, Simply DEF Living
  <2>2. CASE hits = {}
    BY <2>1, <2>2, <1>4, <1>6, <1>7
  <2>3. CASE j \notin hits /\ ~arcs[j].readyremove
    BY <2>3, <1>4, <1>6, <1>7, <1>c
  <2> QED BY <2>2, <2>3, <1>2
<1>10. \A k \in DOMAIN t.arcs : \E m \in DOMAIN vertics[i].arcs :
         /\ t.arcs[k].to = vertics[i].arcs[m].to
         /\ kind = "General" => t.arcs[k].dests = vertics[i].arcs[m].dests
  BY <1>4, <1>6, <1>7
<1>11. Control' /\ Indices'
  <2>1. simplest' \in BOOLEAN
    BY <1>b
  <2> QED BY <2>1, <1>b, <1>c DEF IInv, Control, Indices
<1> QED BY <1>1, <1>7, <1>8, <1>9, <1>10, <1>11, <1>b, <1>c, FewerArcs

LEMMA UnlinkIInv == ASSUME IInv, Unlink PROVE IInv'
<1>b. /\ kind \in ArcKinds /\ pc = "unlink" /\ pc \in Loops /\ pc' = "unlink" /\ pc' \in Loops /\ i' = i
      /\ j <= Len(vertics[i].arcs)
      /\ UNCHANGED <<vwaa, kind, given, state_num, simplest, trans, rest>>
  BY DEF Unlink, Simplifying, ArcKinds, Loops
<1>c. i \in DOMAIN vertics /\ Alive(vertics[i]) /\ i \in Nat \ {0} /\ j \in Nat \ {0}
  BY <1>b DEF IInv, Indices, Control
<1>1. CASE ~vertics[i].arcs[j].readyremove
  <2>1. j' = j + 1 /\ UNCHANGED vertics
    BY <1>1 DEF Unlink
  <2>2. Control' /\ Indices'
    BY <2>1, <1>b, <1>c DEF IInv, Control, Indices
  <2> QED BY <2>1, <2>2, <1>b, MovesOn
<1>2. CASE vertics[i].arcs[j].readyremove
  <2> DEFINE s    == vertics[i]
             arcs == s.arcs
             as   == RemoveAt(arcs, j)
             n    == s.arcnum - 1
             t    == [s EXCEPT !.arcs = as, !.arcnum = n]
  <2>1. /\ vertics[i] \in StateT /\ arcs \in Seq(ArcT) /\ Len(arcs) \in Nat /\ DOMAIN arcs = 1 .. Len(arcs) /\ j \in DOMAIN arcs
        /\ vertics[i].arcnum = Len(arcs) /\ n \in Int /\ n = Len(arcs) - 1
    <3>1. /\ vertics[i] \in StateT /\ arcs \in Seq(ArcT) /\ Len(arcs) \in Nat /\ DOMAIN arcs = 1 .. Len(arcs)
      BY <1>b, <1>c, StateFacts DEF IInv
    <3>2. vertics[i].arcnum = Len(arcs)
      BY <1>b, <1>c, Simply
    <3> QED BY <3>1, <3>2, <1>b, <1>c
  <2>2. vertics' = [vertics EXCEPT ![i] = t] /\ j' = j
    <3> DEFINE u == [s EXCEPT !.arcs = RemoveAt(@, j), !.arcnum = @ - 1]
    <3>1. vertics' = [vertics EXCEPT ![i] = u] /\ j' = j
      BY <1>2 DEF Unlink, WithoutArc
    <3>2. u = t
      OBVIOUS
    <3> HIDE DEF t, u
    <3> QED BY <3>1, <3>2
  <2>3. /\ as \in Seq(ArcT) /\ Len(as) = Len(arcs) - 1 /\ DOMAIN as = 1 .. Len(arcs) - 1
        /\ \A m \in DOMAIN as : as[m] = IF m < j THEN arcs[m] ELSE arcs[m + 1]
    <3>1. /\ as \in Seq(ArcT) /\ Len(as) = Len(arcs) - 1
          /\ \A m \in DOMAIN as : as[m] = IF m < j THEN arcs[m] ELSE arcs[m + 1]
      <4> HIDE DEF arcs
      <4> QED BY <2>1, RemoveAtFacts
    <3>2. DOMAIN as = 1 .. Len(as)
      <4> HIDE DEF as
      <4> QED BY <3>1, Elements
    <3> QED BY <3>1, <3>2
  <2> HIDE DEF as, n
  <2>4. /\ t \in StateT /\ t.id = vertics[i].id /\ t.arcnum = n
        /\ t.explored = vertics[i].explored /\ t.arcs = as /\ Same(vertics[i], t)
    <3>1. kind \in ArcKinds /\ s \in StateT /\ as \in Seq(ArcT) /\ n \in Int
      BY <1>b, <2>1, <2>3
    <3>a. s = vertics[i]
      OBVIOUS
    <3> HIDE DEF s
    <3>2. t \in StateT /\ t.id = s.id /\ t.arcnum = n /\ t.explored = s.explored /\ t.arcs = as /\ Same(s, t)
      BY <3>1, WithArcsAndCount
    <3> HIDE DEF t
    <3> QED BY <3>a, <3>2
  <2> HIDE DEF t
  <2>5. t.arcnum = Len(t.arcs)
    BY <2>1, <2>3, <2>4
  <2>6. \E k \in DOMAIN t.arcs : ~t.arcs[k].readyremove
    <3>1. PICK m \in DOMAIN arcs : ~arcs[m].readyremove
      BY <1>b, <1>c, Simply DEF Living
    <3>2. m \in Nat /\ m # j
      BY <3>1, <2>1, <1>2
    <3>3. CASE m < j
      <4>1. m \in DOMAIN as /\ as[m] = arcs[m]
        <5> HIDE DEF arcs
        <5>1. m \in 1 .. Len(arcs) - 1
          BY <3>1, <3>3, <2>1
        <5> QED BY <5>1, <3>3, <2>3
      <4> QED BY <4>1, <3>1, <2>4
    <3>4. CASE m > j
      <4>1. m - 1 \in DOMAIN as /\ ~(m - 1 < j) /\ (m - 1) + 1 = m
        BY <3>1, <3>2, <3>4, <2>1, <2>3
      <4> QED BY <4>1, <3>1, <2>3, <2>4
    <3> QED BY <3>2, <3>3, <3>4, <1>c
  <2>7. \A k \in DOMAIN t.arcs : \E m \in DOMAIN vertics[i].arcs :
          /\ t.arcs[k].to = vertics[i].arcs[m].to
          /\ kind = "General" => t.arcs[k].dests = vertics[i].arcs[m].dests
    <3>1. \A k \in DOMAIN as : k \in DOMAIN arcs /\ k + 1 \in DOMAIN arcs
      BY <2>1, <2>3
    <3> QED BY <3>1, <2>3, <2>4
  <2>8. Control' /\ Indices'
    <3>1. i \in DOMAIN vertics' /\ Alive(vertics'[i])
      BY <2>2, <2>4, <1>c DEF Alive
    <3> QED BY <3>1, <2>2, <1>b, <1>c DEF IInv, Control, Indices
  <2> QED BY <2>2, <2>4, <2>5, <2>6, <2>7, <2>8, <1>b, <1>c, FewerArcs
<1> QED BY <1>1, <1>2

-----------------------------------------------------------------------------
(* Merge_states. *)

\* State y is gone; the arcs of the states that remain lead to x instead.
LEMMA RedirectedFacts ==
  ASSUME Members, kind \in ArcKinds, NEW x \in DOMAIN vertics, NEW y \in DOMAIN vertics
  PROVE  LET w == Redirected(vertics, x, y) IN
         /\ w \in Seq(StateT) /\ Len(w) = Len(vertics) /\ DOMAIN w = DOMAIN vertics
         /\ \A m \in DOMAIN vertics :
              /\ w[m].id = IF m = y THEN NONE ELSE vertics[m].id
              /\ w[m].explored = vertics[m].explored /\ w[m].arcnum = vertics[m].arcnum
              /\ Same(vertics[m], w[m])
              /\ Len(w[m].arcs) = Len(vertics[m].arcs) /\ DOMAIN w[m].arcs = DOMAIN vertics[m].arcs
              /\ \A k \in DOMAIN vertics[m].arcs :
                   /\ w[m].arcs[k].readyremove = vertics[m].arcs[k].readyremove
                   /\ kind = "General" => w[m].arcs[k].dests = vertics[m].arcs[k].dests
                   /\ m # y /\ Alive(vertics[m]) =>
                        w[m].arcs[k].to = IF vertics[m].arcs[k].to = y THEN x ELSE vertics[m].arcs[k].to
<1> DEFINE w == Redirected(vertics, x, y)
           n == Len(vertics)
<1>1. /\ n \in Nat /\ DOMAIN vertics = 1 .. n /\ x \in Nat
      /\ \A m \in DOMAIN vertics : vertics[m] \in StateT /\ vertics[m].arcs \in Seq(ArcT)
  BY StateFacts
<1>2. ASSUME NEW m \in DOMAIN vertics
      PROVE  /\ w[m] \in StateT
             /\ w[m].id = IF m = y THEN NONE ELSE vertics[m].id
             /\ w[m].explored = vertics[m].explored /\ w[m].arcnum = vertics[m].arcnum
             /\ Same(vertics[m], w[m])
             /\ Len(w[m].arcs) = Len(vertics[m].arcs) /\ DOMAIN w[m].arcs = DOMAIN vertics[m].arcs
             /\ \A k \in DOMAIN vertics[m].arcs :
                  /\ w[m].arcs[k].readyremove = vertics[m].arcs[k].readyremove
                  /\ kind = "General" => w[m].arcs[k].dests = vertics[m].arcs[k].dests
                  /\ m # y /\ Alive(vertics[m]) =>
                       w[m].arcs[k].to = IF vertics[m].arcs[k].to = y THEN x ELSE vertics[m].arcs[k].to
  <2> DEFINE s  == vertics[m]
             as == s.arcs
             bs == [k \in DOMAIN as |-> IF as[k].to = y THEN [as[k] EXCEPT !.to = x] ELSE as[k]]
  <2>0. s = vertics[m] /\ s \in StateT /\ as \in Seq(ArcT)
    BY <1>1
  <2>1. CASE m = y
    <3> DEFINE t == [s EXCEPT !.id = NONE]
    <3>1. w[m] = t
      BY <2>1 DEF Redirected
    <3> HIDE DEF s, w
    <3>2. t \in StateT /\ t.id = NONE /\ t.arcnum = s.arcnum /\ t.explored = s.explored /\ t.arcs = s.arcs /\ Same(s, t)
      <4>1. NONE \in Int
        BY DEF NONE
      <4> QED BY <4>1, <2>0, WithId
    <3> HIDE DEF t
    <3> QED BY <3>1, <3>2, <2>0, <2>1
  <2>2. CASE m # y /\ ~Alive(s)
    <3>1. w[m] = s
      BY <2>2 DEF Redirected
    <3> QED BY <3>1, <2>0, <2>2 DEF Same
  <2>3. CASE m # y /\ Alive(s)
    <3> DEFINE t == [s EXCEPT !.arcs = bs]
    <3>1. w[m] = t
      BY <2>3 DEF Redirected
    <3>2. /\ bs \in Seq(ArcT) /\ Len(bs) = Len(as) /\ DOMAIN bs = DOMAIN as
          /\ \A k \in DOMAIN as : /\ bs[k].to = IF as[k].to = y THEN x ELSE as[k].to
                                  /\ bs[k].readyremove = as[k].readyremove
                                  /\ kind = "General" => bs[k].dests = as[k].dests
      <4>1. Len(as) \in Nat /\ DOMAIN as = 1 .. Len(as) /\ \A k \in DOMAIN as : as[k] \in ArcT
        <5> HIDE DEF as
        <5> QED BY <2>0, Elements
      <4>2. ASSUME NEW k \in DOMAIN as
            PROVE  /\ bs[k] \in ArcT
                   /\ bs[k].to = IF as[k].to = y THEN x ELSE as[k].to
                   /\ bs[k].readyremove = as[k].readyremove
                   /\ kind = "General" => bs[k].dests = as[k].dests
        <5> DEFINE a == as[k]
                   c == [a EXCEPT !.to = x]
        <5>1. a \in ArcT /\ a = as[k] /\ bs[k] = IF a.to = y THEN c ELSE a
          BY <4>1
        <5> HIDE DEF a
        <5>2. c \in ArcT /\ c.to = x /\ c.readyremove = a.readyremove /\ (kind = "General" => c.dests = a.dests)
          BY <5>1, <1>1, RedirectedArc
        <5> HIDE DEF c, bs, as
        <5> QED BY <5>1, <5>2
      <4>4. bs = [k \in 1 .. Len(as) |-> bs[k]]
        BY <4>1
      <4> HIDE DEF bs, as
      <4>5. bs \in Seq(ArcT) /\ Len(bs) = Len(as) /\ DOMAIN bs = 1 .. Len(as)
        BY <4>1, <4>2, <4>4, ListOf
      <4> QED BY <4>1, <4>2, <4>5
    <3> HIDE DEF bs, w
    <3>a. as = s.arcs
      OBVIOUS
    <3> HIDE DEF s, as
    <3>3. t \in StateT /\ t.id = s.id /\ t.arcnum = s.arcnum /\ t.explored = s.explored /\ t.arcs = bs /\ Same(s, t)
      BY <2>0, <3>2, WithArcs
    <3> HIDE DEF t
    <3>4. /\ w[m] \in StateT
          /\ w[m].id = IF m = y THEN NONE ELSE s.id
          /\ w[m].explored = s.explored /\ w[m].arcnum = s.arcnum
          /\ Same(s, w[m])
      BY <3>1, <3>3, <2>3
    <3>5. /\ Len(w[m].arcs) = Len(s.arcs) /\ DOMAIN w[m].arcs = DOMAIN s.arcs
          /\ \A k \in DOMAIN s.arcs :
                  /\ w[m].arcs[k].readyremove = s.arcs[k].readyremove
                  /\ kind = "General" => w[m].arcs[k].dests = s.arcs[k].dests
                  /\ w[m].arcs[k].to = IF s.arcs[k].to = y THEN x ELSE s.arcs[k].to
      BY <3>1, <3>2, <3>3, <3>a
    <3> QED BY <3>4, <3>5, <2>0
  <2> QED BY <2>1, <2>2, <2>3
<1>3. w = [m \in 1 .. n |-> w[m]]
  BY <1>1 DEF Redirected
<1> HIDE DEF w, n
<1>4. w \in Seq(StateT) /\ Len(w) = n /\ DOMAIN w = 1 .. n
  BY <1>1, <1>2, <1>3, ListOf
<1>5. Len(w) = Len(vertics) /\ DOMAIN w = DOMAIN vertics
  BY <1>1, <1>4 DEF n
<1>6. w = Redirected(vertics, x, y)
  BY DEF w
<1> QED BY <1>2, <1>4, <1>5, <1>6

LEMMA Merge_statesIInv == ASSUME IInv, Merge_states PROVE IInv'
<1>a. Control /\ Indices /\ Locals /\ Members
  BY DEF IInv
<1>b. /\ kind \in ArcKinds /\ kind \in {"General", "Buchi"} /\ pc = "merge" /\ pc \in Loops /\ j <= Len(vertics)
      /\ Alive(vertics[i]) /\ Alive(vertics[j])
      /\ vertics' = Redirected(vertics, i, j) /\ state_num' = state_num - 1 /\ simplest' = FALSE
      /\ UNCHANGED <<vwaa, kind, given, trans, rest>>
  BY DEF Merge_states, Merging, BothAlive, ArcKinds, Loops
<1>c. pc' = "merge" /\ pc' \in Loops /\ i' \in Nat \ {0} /\ j' \in Nat \ {0} /\ i' < j'
  BY <1>a, <1>b, PairIndices DEF Merge_states, Loops
<1>d. /\ vertics \in Seq(StateT) /\ DOMAIN vertics = 1 .. Len(vertics) /\ Len(vertics) \in Nat \ {0}
      /\ i < j /\ i \in DOMAIN vertics /\ j \in DOMAIN vertics /\ i \in Nat \ {0} /\ j \in Nat \ {0}
  BY <1>a, <1>b, StateFacts DEF Control, Indices
<1>1. /\ vertics' \in Seq(StateT) /\ Len(vertics') = Len(vertics) /\ DOMAIN vertics' = DOMAIN vertics
      /\ \A m \in DOMAIN vertics :
           /\ vertics'[m].id = IF m = j THEN NONE ELSE vertics[m].id
           /\ vertics'[m].explored = vertics[m].explored /\ vertics'[m].arcnum = vertics[m].arcnum
           /\ Same(vertics[m], vertics'[m])
           /\ Len(vertics'[m].arcs) = Len(vertics[m].arcs) /\ DOMAIN vertics'[m].arcs = DOMAIN vertics[m].arcs
           /\ \A k \in DOMAIN vertics[m].arcs :
                /\ vertics'[m].arcs[k].readyremove = vertics[m].arcs[k].readyremove
                /\ kind = "General" => vertics'[m].arcs[k].dests = vertics[m].arcs[k].dests
                /\ m # j /\ Alive(vertics[m]) =>
                     vertics'[m].arcs[k].to = IF vertics[m].arcs[k].to = j THEN i ELSE vertics[m].arcs[k].to
  BY <1>a, <1>b, <1>d, RedirectedFacts
<1>2. StateT' = StateT /\ Live' = Live /\ GBA_State' = GBA_State /\ BA_States' = BA_States
  BY <1>b, Stay
<1>3. Living' = Living \ {j}
  <2>1. \A m \in DOMAIN vertics : Alive(vertics'[m]) <=> m # j /\ Alive(vertics[m])
    BY <1>1 DEF Alive
  <2> QED BY <2>1, <1>1 DEF Living
<1>4. state_num' = Cardinality(Living') /\ state_num' \in Int
  <2>1. IsFiniteSet(Living)
    <3>1. IsFiniteSet(1 .. Len(vertics))
      BY <1>d, FS_Interval
    <3>2. Living \subseteq 1 .. Len(vertics)
      BY <1>d DEF Living
    <3> QED BY <3>1, <3>2, FS_Subset
  <2>2. j \in Living
    BY <1>b, <1>d DEF Living
  <2>3. Cardinality(Living \ {j}) = Cardinality(Living) - 1 /\ Cardinality(Living) \in Nat
    BY <2>1, <2>2, FS_RemoveElement, FS_CardinalityType
  <2> QED BY <2>3, <1>3, <1>b, Simply
<1>5. Control' /\ Indices' /\ Locals'
  BY <1>a, <1>b, <1>c, <1>2, <1>4 DEF Control, Indices, Locals
<1>6. Members'
  <2>1. vertics' # <<>> /\ Alive(vertics'[1])
    <3>1. 1 \in DOMAIN vertics /\ 1 # j
      BY <1>d
    <3>2. vertics'[1].id = vertics[1].id /\ vertics' # <<>>
      BY <3>1, <1>1
    <3> QED BY <3>2, <1>a, <1>b DEF Members, Alive
  <2>2. CASE kind = "General"
    <3>1. ASSUME NEW s \in DOMAIN vertics'
          PROVE  /\ vertics'[s].subformulas \subseteq Live
                 /\ \A k \in DOMAIN vertics'[s].arcs : vertics'[s].arcs[k].dests \subseteq Live
      <4>0. /\ vertics[s].subformulas \subseteq Live
            /\ \A k \in DOMAIN vertics[s].arcs : vertics[s].arcs[k].dests \subseteq Live
        BY <1>1, <1>a, <2>2 DEF Members
      <4> QED BY <4>0, <1>1, <2>2 DEF Same
    <3> QED BY <3>1, <2>1, <2>2, <1>1, <1>2, <1>b DEF Members
  <2>3. CASE kind = "Buchi"
    <3>1. \A s \in DOMAIN vertics' : vertics'[s].gba_stateid = vertics[s].gba_stateid
      BY <2>3, <1>1 DEF Same
    <3> QED BY <3>1, <2>1, <2>3, <1>1, <1>2, <1>a, <1>b DEF Members
  <2> QED BY <2>2, <2>3, <1>b
<1>7. \A s \in DOMAIN vertics' : vertics'[s].explored /\ vertics'[s].arcnum = Len(vertics'[s].arcs)
  BY <1>1, <1>b, Simply
<1>8. ASSUME NEW s \in Living'
      PROVE  /\ vertics'[s].id = s
             /\ \E k \in DOMAIN vertics'[s].arcs : ~vertics'[s].arcs[k].readyremove
             /\ \A k \in DOMAIN vertics'[s].arcs : vertics'[s].arcs[k].to \in Living'
  <2>1. /\ s \in Living /\ s # j /\ s \in DOMAIN vertics /\ Alive(vertics[s]) /\ vertics[s].id = s
        /\ \E k \in DOMAIN vertics[s].arcs : ~vertics[s].arcs[k].readyremove
        /\ \A k \in DOMAIN vertics[s].arcs : vertics[s].arcs[k].to \in Living
    BY <1>3, <1>b, Simply DEF Living
  <2>2. i \in Living /\ i # j
    BY <1>b, <1>d DEF Living
  <2>3. \A k \in DOMAIN vertics'[s].arcs : vertics'[s].arcs[k].to \in Living'
    BY <2>1, <2>2, <1>1, <1>3
  <2> QED BY <2>1, <2>3, <1>1
<1> QED BY <1>4, <1>5, <1>6, <1>7, <1>8, <1>b, <1>c, Simplified

-----------------------------------------------------------------------------
(* One class hands its automaton to the next. *)

LEMMA Handed ==
  ASSUME IInv, kind \in ArcKinds, pc = "merge"
  PROVE  Closed(vertics)
<1>1. LivingIn(vertics) = Living
  BY DEF LivingIn, Living
<1>2. pc \in Loops
  BY DEF Loops
<1>3. ASSUME NEW s \in Living
      PROVE  vertics[s].arcs # <<>> /\ \A k \in DOMAIN vertics[s].arcs : vertics[s].arcs[k].to \in Living
  BY <1>2, Simply
<1>4. 1 \in Living
  BY <1>2, Simply
<1> QED BY <1>1, <1>3, <1>4 DEF Closed

LEMMA StartBuchiIInv == ASSUME IInv, StartBuchi PROVE IInv'
<1> DEFINE s0 == BA_State(1, 1, 0)
<1>a. Control /\ Indices /\ Locals /\ Members
  BY DEF IInv
<1>b. /\ kind \in ArcKinds /\ kind = "General" /\ pc = "merge" /\ kind' = "Buchi" /\ kind' \in ArcKinds
      /\ pc' = "build" /\ pc' \in Stages /\ i' = 1 /\ j' = 1 /\ given' = vertics /\ vertics' = <<s0>>
      /\ UNCHANGED <<vwaa, state_num, simplest, trans, rest>>
  BY DEF StartBuchi, MergeDone, Goto, ArcKinds, Stages
<1>1. Live' = Live /\ GBA_State' = GBA_State /\ StateT' = BA_States /\ StateT = GBA_State
  BY <1>b DEF StateT, Live, Node, GBA_State, GBA_Arc, BA_States, BA_Arc, ustacksize, Untils
<1>2. /\ s0 \in BA_States /\ s0.id = 1 /\ s0.arcnum = 0 /\ s0.arcs = <<>> /\ DOMAIN s0.arcs = {} /\ Len(s0.arcs) = 0
      /\ s0.explored = FALSE /\ s0.gba_stateid = 1
  <2>1. 0 \in 0 .. ustacksize
    BY <1>a, AutomatonFacts DEF Control
  <2> QED BY <2>1 DEF BA_State, BA_States
<1> HIDE DEF s0
<1>3. vertics' \in Seq(StateT') /\ DOMAIN vertics' = {1} /\ vertics'[1] = s0 /\ vertics' # <<>>
  BY <1>1, <1>2, <1>b
<1>4. Control' /\ Indices'
  BY <1>a, <1>b DEF Control, Indices
<1>5. Locals'
  BY <1>a, <1>b, <1>1 DEF Locals
<1>6. Members'
  <2>1. given' \in Seq(GBA_State') /\ Closed(given')
    BY <1>a, <1>b, <1>1, Handed, StateFacts
  <2>2. 1 \in LivingIn(given')
    BY <2>1 DEF Closed
  <2>3. Alive(vertics'[1])
    BY <1>2, <1>3 DEF Alive, NONE
  <2> QED BY <2>1, <2>2, <2>3, <1>b, <1>2, <1>3 DEF Members
<1>7. Growing'
  BY <1>b, <1>2, <1>3 DEF Growing
<1> QED BY <1>b, <1>2, <1>3, <1>4, <1>5, <1>6, <1>7, StillGrowing

\* While StateBuchi adds states.
Adding == {"build", "in", "out"}

LEMMA StillAdding ==
  ASSUME Control', Indices', Locals', Members', kind' = "StateBuchi", pc' \in Adding,
         \A v \in DOMAIN vertics' : vertics'[v].id = v /\ vertics'[v].consumers \subseteq DOMAIN vertics'
  PROVE  IInv'
<1>1. kind' \notin ArcKinds /\ pc' \notin {"mark", "unlink", "merge", "done"} /\ pc' # "product"
  BY DEF ArcKinds, Adding
<1>2. DOMAIN vertics' = 1 .. Len(vertics') /\ Len(vertics') \in Nat
  <2>1. vertics' \in Seq(Vertex')
    BY DEF Members
  <2> QED BY <2>1, Elements
<1>3. Living' = DOMAIN vertics'
  BY <1>2, AllAlive DEF Living
<1>4. Growing'
  BY <1>1 DEF Growing
<1>5. SelfCheck'
  BY <1>1, <1>3 DEF SelfCheck, IdsArePositions, ArcsCounted, StatesCounted, NoArcToDead
<1>6. SomeArcStays' /\ AllExplored'
  BY <1>1 DEF SomeArcStays, AllExplored
<1> QED BY <1>4, <1>5, <1>6 DEF IInv

LEMMA StartStateBuchiIInv == ASSUME IInv, StartStateBuchi PROVE IInv'
<1>a. Control /\ Indices /\ Locals /\ Members
  BY DEF IInv
<1>b. /\ kind \in ArcKinds /\ kind = "Buchi" /\ pc = "merge" /\ kind' = "StateBuchi"
      /\ pc' = "build" /\ pc' \in Adding /\ i' = 1 /\ j' = 1 /\ given' = vertics /\ vertics' = <<>>
      /\ UNCHANGED <<vwaa, state_num, simplest, trans, rest>>
  BY DEF StartStateBuchi, MergeDone, Goto, ArcKinds, Adding
<1>1. Live' = Live /\ BA_States' = BA_States /\ StateT = BA_States
  BY <1>b DEF StateT, Live, Node, BA_States, BA_Arc, ustacksize, Untils
<1>2. DOMAIN vertics' = {} /\ vertics' \in Seq(Vertex')
  BY <1>b
<1>3. Control' /\ Indices'
  BY <1>a, <1>b DEF Control, Indices
<1>4. Locals'
  BY <1>a, <1>b, <1>1 DEF Locals
<1>5. Members'
  <2>1. given' \in Seq(BA_States') /\ Closed(given')
    BY <1>a, <1>b, <1>1, Handed, StateFacts
  <2> QED BY <2>1, <1>2, <1>b DEF Members, ArcKinds
<1> QED BY <1>b, <1>2, <1>3, <1>4, <1>5, StillAdding

-----------------------------------------------------------------------------
(* StateBuchi: the states. *)

\* What the invariant says meanwhile.
LEMMA AddingFacts ==
  ASSUME IInv, kind = "StateBuchi", pc \in Adding
  PROVE  /\ vertics \in Seq(Vertex) /\ DOMAIN vertics = 1 .. Len(vertics) /\ Len(vertics) \in Nat
         /\ \A v \in DOMAIN vertics : /\ vertics[v] \in Vertex /\ vertics[v].id = v
                                      /\ vertics[v].consumers \subseteq DOMAIN vertics
         /\ rest \subseteq Slots
<1>1. vertics \in Seq(Vertex)
  BY DEF IInv, Members
<1>2. DOMAIN vertics = 1 .. Len(vertics) /\ Len(vertics) \in Nat /\ \A v \in DOMAIN vertics : vertics[v] \in Vertex
  BY <1>1, Elements
<1>3. \A v \in DOMAIN vertics : vertics[v].id = v
  BY DEF IInv, Growing, Adding
<1>4. Living = DOMAIN vertics
  BY <1>2, <1>3, AllAlive DEF Living
<1>5. \A v \in DOMAIN vertics : vertics[v].consumers \subseteq DOMAIN vertics
  BY <1>4 DEF IInv, SelfCheck, NoArcToDead
<1> QED BY <1>1, <1>2, <1>3, <1>5 DEF IInv, Locals

\* An arc of the Buchi automaton of a state not merged away.
LEMMA SlotFacts ==
  ASSUME IInv, kind = "StateBuchi", NEW a \in Slots
  PROVE  /\ a \in Nat \X Nat /\ Arc(a).pred \in SUBSET Literal
         /\ given[Arc(a).to].accepted \in BOOLEAN
<1>1. given \in Seq(BA_States) /\ Closed(given)
  BY DEF IInv, Members
<1>2. PICK s \in LivingIn(given) : a \in SlotsOf(s)
  BY DEF Slots
<1>3. PICK k \in DOMAIN given[s].arcs : a = <<s, k>>
  BY <1>2 DEF SlotsOf
<1>4. DOMAIN given = 1 .. Len(given) /\ Len(given) \in Nat /\ \A m \in DOMAIN given : given[m] \in BA_States
  BY <1>1, Elements
<1>5. s \in DOMAIN given
  BY DEF LivingIn
<1>6. given[s].arcs \in Seq(BA_Arc)
  BY <1>4, <1>5 DEF BA_States
<1> DEFINE as == given[s].arcs
<1>7. as \in Seq(BA_Arc) /\ k \in DOMAIN as
  BY <1>6
<1>8. Arc(a) = as[k]
  BY <1>3 DEF Arc
<1>9. as[k].to \in LivingIn(given)
  BY <1>1, <1>7 DEF Closed
<1> HIDE DEF as
<1>10. k \in Nat /\ as[k] \in BA_Arc
  <2>1. Len(as) \in Nat /\ DOMAIN as = 1 .. Len(as) /\ as[k] \in BA_Arc
    BY <1>7, Elements
  <2>2. k \in DOMAIN as
    BY <1>7
  <2>3. k \in Nat
    BY <2>1, <2>2
  <2> QED BY <2>1, <2>3
<1>11. as[k].pred \in SUBSET Literal
  BY <1>10 DEF BA_Arc
<1>12. given[as[k].to].accepted \in BOOLEAN
  <2>1. given[as[k].to] \in BA_States
    BY <1>4, <1>9 DEF LivingIn
  <2> QED BY <2>1 DEF BA_States
<1>13. a \in Nat \X Nat
  BY <1>3, <1>4, <1>5, <1>10
<1> QED BY <1>8, <1>11, <1>12, <1>13

\* What is left to show of a step that adds or changes states.
LEMMA Adds ==
  ASSUME IInv, kind = "StateBuchi", pc \in Adding, pc' \in Adding, Control', Indices',
         UNCHANGED <<vwaa, kind, given, state_num, trans>>, rest' \subseteq Slots,
         vertics' \in Seq(Vertex),
         \A v \in DOMAIN vertics' : vertics'[v].id = v /\ vertics'[v].consumers \subseteq DOMAIN vertics'
  PROVE  IInv'
<1>1. Live' = Live /\ BA_States' = BA_States /\ Slots' = Slots /\ Vertex' = Vertex
  BY Stay DEF Slots, LivingIn, SlotsOf, Vertex
<1>2. Locals'
  BY <1>1 DEF IInv, Locals
<1>3. Members'
  BY <1>1 DEF IInv, Members, ArcKinds
<1> QED BY <1>2, <1>3, StillAdding

LEMMA GivenFacts ==
  ASSUME IInv, kind = "StateBuchi"
  PROVE  /\ DOMAIN given = 1 .. Len(given) /\ Len(given) \in Nat
         /\ \A s \in DOMAIN given : given[s].accepted \in BOOLEAN
<1>1. given \in Seq(BA_States)
  BY DEF IInv, Members
<1>2. DOMAIN given = 1 .. Len(given) /\ Len(given) \in Nat /\ \A s \in DOMAIN given : given[s] \in BA_States
  BY <1>1, Elements
<1> QED BY <1>2 DEF BA_States

LEMMA VisitIInv == ASSUME IInv, Visit PROVE IInv'
<1>b. /\ kind = "StateBuchi" /\ pc \in Adding /\ i <= Len(given) /\ i \in Nat \ {0}
      /\ UNCHANGED <<vwaa, kind, given, vertics, state_num, simplest, trans>>
  BY DEF Visit, SBA_Building, Adding, IInv, Control
<1>1. i \in DOMAIN given
  BY <1>b, GivenFacts
<1>2. CASE Alive(given[i])
  <2>1. /\ rest' = {a \in UNION {SlotsOf(s) : s \in {m \in DOMAIN given : Alive(given[m])}} : Arc(a).to = i}
        /\ pc' = "in" /\ i' = i /\ j' = 1
    BY <1>2 DEF Visit, Goto
  <2>2. rest' \subseteq Slots
    BY <2>1 DEF Slots, LivingIn
  <2>3. Control' /\ Indices' /\ pc' \in Adding
    BY <1>b, <1>1, <1>2, <2>1 DEF IInv, Control, Indices, LivingIn, Adding
  <2> QED BY <2>2, <2>3, <1>b, Adds, AddingFacts
<1>3. CASE ~Alive(given[i])
  <2>1. rest' = rest /\ pc' = "build" /\ i' = i + 1 /\ j' = 1
    BY <1>3 DEF Visit, Goto
  <2>2. Control' /\ Indices' /\ pc' \in Adding
    BY <1>b, <2>1 DEF IInv, Control, Indices, Adding
  <2> QED BY <2>1, <2>2, <1>b, Adds, AddingFacts
<1> QED BY <1>2, <1>3

LEMMA AllInIInv == ASSUME IInv, AllIn PROVE IInv'
<1>b. /\ kind = "StateBuchi" /\ pc = "in" /\ pc \in Adding /\ rest' = SlotsOf(i)
      /\ pc' = "out" /\ i' = i /\ j' = 1
      /\ UNCHANGED <<vwaa, kind, given, vertics, state_num, simplest, trans>>
  BY DEF AllIn, SBA_Building, Adding, Goto
<1>1. i \in LivingIn(given)
  BY <1>b DEF IInv, Indices
<1>2. rest' \subseteq Slots
  BY <1>b, <1>1 DEF Slots
<1>3. Control' /\ Indices' /\ pc' \in Adding
  BY <1>b, <1>1 DEF IInv, Control, Indices, Adding
<1> QED BY <1>2, <1>3, <1>b, Adds, AddingFacts

\* The ways the list of states changes.
LEMMA Appended ==
  ASSUME IInv, kind = "StateBuchi", pc \in Adding,
         NEW s \in Vertex, s.id = Len(vertics) + 1, s.consumers = {}, vertics' = Append(vertics, s)
  PROVE  /\ vertics' \in Seq(Vertex)
         /\ \A v \in DOMAIN vertics' : vertics'[v].id = v /\ vertics'[v].consumers \subseteq DOMAIN vertics'
<1>1. /\ vertics \in Seq(Vertex) /\ DOMAIN vertics = 1 .. Len(vertics) /\ Len(vertics) \in Nat
      /\ \A v \in DOMAIN vertics : vertics[v].id = v /\ vertics[v].consumers \subseteq DOMAIN vertics
  BY AddingFacts
<1>2. /\ vertics' \in Seq(Vertex) /\ Len(vertics') = Len(vertics) + 1
      /\ \A v \in 1 .. Len(vertics) : vertics'[v] = vertics[v]
      /\ vertics'[Len(vertics) + 1] = s
  BY <1>1, AppendProperties
<1>3. DOMAIN vertics' = 1 .. Len(vertics) + 1
  BY <1>2, Elements
<1>4. ASSUME NEW v \in DOMAIN vertics'
      PROVE  vertics'[v].id = v /\ vertics'[v].consumers \subseteq DOMAIN vertics'
  <2>1. v \in 1 .. Len(vertics) \/ v = Len(vertics) + 1
    BY <1>1, <1>3
  <2> QED BY <2>1, <1>1, <1>2, <1>3
<1> QED BY <1>2, <1>4

LEMMA Changed ==
  ASSUME IInv, kind = "StateBuchi", pc \in Adding,
         vertics' = [v \in DOMAIN vertics |-> vertics'[v]],
         \A v \in DOMAIN vertics : /\ vertics'[v] \in Vertex /\ vertics'[v].id = vertics[v].id
                                   /\ vertics'[v].consumers \subseteq DOMAIN vertics
  PROVE  /\ vertics' \in Seq(Vertex)
         /\ \A v \in DOMAIN vertics' : vertics'[v].id = v /\ vertics'[v].consumers \subseteq DOMAIN vertics'
<1>1. /\ DOMAIN vertics = 1 .. Len(vertics) /\ Len(vertics) \in Nat
      /\ \A v \in DOMAIN vertics : vertics[v].id = v
  BY AddingFacts
<1>2. vertics' \in Seq(Vertex) /\ DOMAIN vertics' = 1 .. Len(vertics)
  BY <1>1, ListOf
<1> QED BY <1>1, <1>2

LEMMA NewVertex ==
  ASSUME NEW n \in Nat, NEW x \in BOOLEAN, NEW y \in BOOLEAN, NEW a \in Nat \X Nat, Arc(a).pred \in SUBSET Literal
  PROVE  /\ SBA_State(n, x, y, a) \in Vertex /\ SBA_State(n, x, y, a).id = n /\ SBA_State(n, x, y, a).consumers = {}
BY DEF SBA_State, Vertex

LEMMA ArcInIInv == ASSUME IInv, ArcIn PROVE IInv'
<1>b. /\ kind = "StateBuchi" /\ pc = "in" /\ pc \in Adding /\ pc' \in Adding
      /\ UNCHANGED <<vwaa, kind, given, state_num, simplest, pc, i, j, trans>>
  BY DEF ArcIn, SBA_Building, Adding
<1>c. PICK a \in rest :
        /\ rest' = rest \ {a}
        /\ vertics' = IF sstateloc(a) = {}
                      THEN Append(vertics, SBA_State(Len(vertics) + 1, FALSE, given[i].accepted, a))
                      ELSE [v \in DOMAIN vertics |->
                              IF vertics[v].of = a THEN [vertics[v] EXCEPT !.accepted = given[i].accepted]
                              ELSE vertics[v]]
  BY DEF ArcIn
<1>1. /\ vertics \in Seq(Vertex) /\ DOMAIN vertics = 1 .. Len(vertics) /\ Len(vertics) \in Nat
      /\ \A v \in DOMAIN vertics : vertics[v] \in Vertex /\ vertics[v].consumers \subseteq DOMAIN vertics
      /\ a \in Slots /\ rest' \subseteq Slots
  BY <1>b, <1>c, AddingFacts
<1>2. given[i].accepted \in BOOLEAN
  BY <1>b, GivenFacts DEF IInv, Indices, LivingIn
<1>3. Control' /\ Indices'
  BY <1>b DEF IInv, Control, Indices
<1>4. CASE sstateloc(a) = {}
  <2> DEFINE s == SBA_State(Len(vertics) + 1, FALSE, given[i].accepted, a)
  <2>1. s \in Vertex /\ s.id = Len(vertics) + 1 /\ s.consumers = {}
    <3> DEFINE n == Len(vertics) + 1
               y == given[i].accepted
    <3>1. n \in Nat /\ y \in BOOLEAN /\ FALSE \in BOOLEAN
      BY <1>1, <1>2
    <3>a. a \in Nat \X Nat /\ Arc(a).pred \in SUBSET Literal
      BY <1>1, <1>b, SlotFacts
    <3> HIDE DEF n, y
    <3>2. SBA_State(n, FALSE, y, a) \in Vertex /\ SBA_State(n, FALSE, y, a).id = n /\ SBA_State(n, FALSE, y, a).consumers = {}
      BY <3>1, <3>a, NewVertex
    <3> QED BY <3>2 DEF n, y
  <2>2. vertics' = Append(vertics, s)
    BY <1>4, <1>c
  <2> HIDE DEF s
  <2> QED BY <2>1, <2>2, <1>1, <1>3, <1>b, Appended, Adds
<1>5. CASE sstateloc(a) # {}
  <2>1. vertics' = [v \in DOMAIN vertics |->
                      IF vertics[v].of = a THEN [vertics[v] EXCEPT !.accepted = given[i].accepted]
                      ELSE vertics[v]]
    BY <1>5, <1>c
  <2>2. ASSUME NEW v \in DOMAIN vertics
        PROVE  /\ vertics'[v] \in Vertex /\ vertics'[v].id = vertics[v].id
               /\ vertics'[v].consumers \subseteq DOMAIN vertics
    <3>1. vertics'[v] = IF vertics[v].of = a THEN [vertics[v] EXCEPT !.accepted = given[i].accepted] ELSE vertics[v]
      BY <2>1
    <3>2. vertics[v] \in Vertex /\ vertics[v].consumers \subseteq DOMAIN vertics
      BY <1>1
    <3> QED BY <3>1, <3>2, <1>2 DEF Vertex
  <2>3. vertics' = [v \in DOMAIN vertics |-> vertics'[v]]
    BY <2>1
  <2> QED BY <2>2, <2>3, <1>1, <1>3, <1>b, Changed, Adds
<1> QED BY <1>4, <1>5

LEMMA ArcOutIInv == ASSUME IInv, ArcOut PROVE IInv'
<1>b. /\ kind = "StateBuchi" /\ pc = "out" /\ pc \in Adding /\ pc' \in Adding
      /\ UNCHANGED <<vwaa, kind, given, state_num, simplest, pc, i, j, trans>>
  BY DEF ArcOut, SBA_Building, Adding
<1>c. PICK a \in rest :
        /\ rest' = rest \ {a}
        /\ vertics' = IF sstateloc(a) = {}
                      THEN Append(vertics, SBA_State(Len(vertics) + 1, i = 1, given[Arc(a).to].accepted, a))
                      ELSE [v \in DOMAIN vertics |->
                              IF vertics[v].of = a THEN [vertics[v] EXCEPT !.initial = (i = 1)] ELSE vertics[v]]
  BY DEF ArcOut
<1>1. /\ vertics \in Seq(Vertex) /\ DOMAIN vertics = 1 .. Len(vertics) /\ Len(vertics) \in Nat
      /\ \A v \in DOMAIN vertics : vertics[v] \in Vertex /\ vertics[v].consumers \subseteq DOMAIN vertics
      /\ a \in Slots /\ rest' \subseteq Slots
  BY <1>b, <1>c, AddingFacts
<1> DEFINE x == (i = 1)
<1>2. given[Arc(a).to].accepted \in BOOLEAN /\ x \in BOOLEAN
  BY <1>1, <1>b, SlotFacts
<1>3. Control' /\ Indices'
  BY <1>b DEF IInv, Control, Indices
<1> HIDE DEF x
<1>4. CASE sstateloc(a) = {}
  <2> DEFINE s == SBA_State(Len(vertics) + 1, x, given[Arc(a).to].accepted, a)
  <2>1. s \in Vertex /\ s.id = Len(vertics) + 1 /\ s.consumers = {}
    <3> DEFINE n == Len(vertics) + 1
               y == given[Arc(a).to].accepted
    <3>1. n \in Nat /\ x \in BOOLEAN /\ y \in BOOLEAN
      BY <1>1, <1>2
    <3>a. a \in Nat \X Nat /\ Arc(a).pred \in SUBSET Literal
      BY <1>1, <1>b, SlotFacts
    <3> HIDE DEF n, y
    <3>2. SBA_State(n, x, y, a) \in Vertex /\ SBA_State(n, x, y, a).id = n /\ SBA_State(n, x, y, a).consumers = {}
      BY <3>1, <3>a, NewVertex
    <3> QED BY <3>2 DEF n, y
  <2>2. vertics' = Append(vertics, s)
    BY <1>4, <1>c DEF x
  <2> HIDE DEF s
  <2> QED BY <2>1, <2>2, <1>1, <1>3, <1>b, Appended, Adds
<1>5. CASE sstateloc(a) # {}
  <2>1. vertics' = [v \in DOMAIN vertics |->
                      IF vertics[v].of = a THEN [vertics[v] EXCEPT !.initial = x] ELSE vertics[v]]
    BY <1>5, <1>c DEF x
  <2>2. ASSUME NEW v \in DOMAIN vertics
        PROVE  /\ vertics'[v] \in Vertex /\ vertics'[v].id = vertics[v].id
               /\ vertics'[v].consumers \subseteq DOMAIN vertics
    <3>1. vertics'[v] = IF vertics[v].of = a THEN [vertics[v] EXCEPT !.initial = x] ELSE vertics[v]
      BY <2>1
    <3>2. vertics[v] \in Vertex /\ vertics[v].consumers \subseteq DOMAIN vertics
      BY <1>1
    <3> QED BY <3>1, <3>2, <1>2 DEF Vertex
  <2>3. vertics' = [v \in DOMAIN vertics |-> vertics'[v]]
    BY <2>1
  <2> QED BY <2>2, <2>3, <1>1, <1>3, <1>b, Changed, Adds
<1> QED BY <1>4, <1>5

LEMMA LinkIInv == ASSUME IInv, Link PROVE IInv'
<1> DEFINE more == UNION {sstateloc(a) : a \in SlotsOf(i)}
<1>b. /\ kind = "StateBuchi" /\ pc = "out" /\ pc \in Adding /\ pc' = "build" /\ pc' \in Adding /\ i' = i + 1 /\ j' = 1
      /\ UNCHANGED <<vwaa, kind, given, state_num, simplest, trans, rest>>
      /\ vertics' = [v \in DOMAIN vertics |->
                       IF Arc(vertics[v].of).to = i
                       THEN [vertics[v] EXCEPT !.consumers = @ \cup more]
                       ELSE vertics[v]]
  BY DEF Link, SBA_Building, Adding, Goto
<1>1. /\ vertics \in Seq(Vertex) /\ DOMAIN vertics = 1 .. Len(vertics) /\ Len(vertics) \in Nat
      /\ \A v \in DOMAIN vertics : vertics[v] \in Vertex /\ vertics[v].consumers \subseteq DOMAIN vertics
      /\ rest' \subseteq Slots
  BY <1>b, AddingFacts
<1>2. more \subseteq DOMAIN vertics
  BY DEF sstateloc
<1> HIDE DEF more
<1>3. Control' /\ Indices'
  BY <1>b DEF IInv, Control, Indices
<1>4. ASSUME NEW v \in DOMAIN vertics
      PROVE  /\ vertics'[v] \in Vertex /\ vertics'[v].id = vertics[v].id
             /\ vertics'[v].consumers \subseteq DOMAIN vertics
  <2> DEFINE s == vertics[v]
             c == s.consumers \cup more
             t == [s EXCEPT !.consumers = c]
  <2>1. vertics'[v] = IF Arc(s.of).to = i THEN t ELSE s
    BY <1>b
  <2>2. s \in Vertex /\ s.consumers \subseteq DOMAIN vertics /\ c \subseteq DOMAIN vertics /\ c \in SUBSET Nat
    BY <1>1, <1>2
  <2>a. s = vertics[v]
    OBVIOUS
  <2> HIDE DEF s, c
  <2>3. t \in Vertex /\ t.id = s.id /\ t.consumers = c
    BY <2>2 DEF Vertex
  <2> HIDE DEF t
  <2> QED BY <2>1, <2>2, <2>3, <2>a
<1>5. vertics' = [v \in DOMAIN vertics |-> vertics'[v]]
  BY <1>b
<1> QED BY <1>1, <1>3, <1>4, <1>5, <1>b, Changed, Adds

-----------------------------------------------------------------------------
(* StateBuchi: the states are simplified. *)

Simplifies == {"merge", "done"}

LEMMA MergingFacts ==
  ASSUME IInv, kind = "StateBuchi", pc \in Simplifies
  PROVE  /\ vertics \in Seq(Vertex) /\ DOMAIN vertics = 1 .. Len(vertics) /\ Len(vertics) \in Nat
         /\ \A v \in DOMAIN vertics : vertics[v] \in Vertex
         /\ state_num = Cardinality(Living)
         /\ \A v \in Living : vertics[v].id = v /\ vertics[v].consumers \subseteq Living
<1>1. vertics \in Seq(Vertex)
  BY DEF IInv, Members
<1>2. DOMAIN vertics = 1 .. Len(vertics) /\ Len(vertics) \in Nat /\ \A v \in DOMAIN vertics : vertics[v] \in Vertex
  BY <1>1, Elements
<1> QED BY <1>1, <1>2 DEF IInv, SelfCheck, IdsArePositions, StatesCounted, NoArcToDead, Simplifies

\* What is left to show of a step that merges states or moves on.
LEMMA Merges ==
  ASSUME IInv, kind = "StateBuchi", UNCHANGED <<vwaa, kind, given, trans, rest>>,
         Control', Indices', pc' \in Simplifies,
         vertics' \in Seq(Vertex), state_num' = Cardinality(Living'),
         \A v \in Living' : vertics'[v].id = v /\ vertics'[v].consumers \subseteq Living'
  PROVE  IInv'
<1>1. Live' = Live /\ BA_States' = BA_States /\ Slots' = Slots /\ Vertex' = Vertex
  BY Stay DEF Slots, LivingIn, SlotsOf, Vertex
<1>2. Locals'
  BY <1>1 DEF IInv, Locals
<1>3. Members'
  BY <1>1 DEF IInv, Members, ArcKinds
<1>4. Growing' /\ AllExplored' /\ SomeArcStays'
  BY DEF Growing, AllExplored, SomeArcStays, ArcKinds, Simplifies
<1>5. SelfCheck'
  BY DEF SelfCheck, IdsArePositions, ArcsCounted, StatesCounted, NoArcToDead
<1> QED BY <1>2, <1>3, <1>4, <1>5 DEF IInv

LEMMA SBA_BuiltIInv == ASSUME IInv, SBA_Built PROVE IInv'
<1>b. /\ kind = "StateBuchi" /\ pc = "build" /\ pc \in Adding /\ pc' = "merge" /\ pc' \in Simplifies /\ i' = 1 /\ j' = 2
      /\ state_num' = Len(vertics) /\ simplest' = TRUE
      /\ UNCHANGED <<vwaa, kind, given, vertics, trans, rest>>
  BY DEF SBA_Built, SBA_Building, Adding, Goto, Simplifies
<1>1. /\ vertics' \in Seq(Vertex) /\ DOMAIN vertics = 1 .. Len(vertics) /\ Len(vertics) \in Nat
      /\ \A v \in DOMAIN vertics : vertics[v].id = v /\ vertics[v].consumers \subseteq DOMAIN vertics
  BY <1>b, AddingFacts
<1>2. Living' = DOMAIN vertics
  BY <1>1, <1>b, AllAlive DEF Living
<1>3. state_num' = Cardinality(Living')
  <2>1. \A n \in Nat : Cardinality(1 .. n) = n
    BY FS_Interval
  <2> QED BY <2>1, <1>1, <1>2, <1>b
<1>4. Control' /\ Indices'
  BY <1>1, <1>b DEF IInv, Control, Indices
<1> QED BY <1>1, <1>2, <1>3, <1>4, <1>b, Merges

LEMMA KeepVerticesIInv == ASSUME IInv, KeepVertices PROVE IInv'
<1>b. /\ kind = "StateBuchi" /\ pc = "merge" /\ pc \in Simplifies
      /\ UNCHANGED <<vwaa, kind, given, vertics, state_num, simplest, trans, rest>>
  BY DEF KeepVertices, Merging, Simplifies
<1>1. pc' = "merge" /\ pc' \in Simplifies /\ i' \in Nat \ {0} /\ j' \in Nat \ {0} /\ i' < j'
  BY <1>b, PairIndices DEF KeepVertices, IInv, Simplifies
<1>2. Control' /\ Indices'
  BY <1>1, <1>b DEF IInv, Control, Indices
<1>3. Living' = Living
  BY <1>b DEF Living
<1> QED BY <1>1, <1>2, <1>3, <1>b, MergingFacts, Merges

LEMMA AgainStateIInv == ASSUME IInv, Again, kind = "StateBuchi" PROVE IInv'
<1>b. /\ pc = "merge" /\ pc \in Simplifies /\ pc' = "merge" /\ pc' \in Simplifies /\ i' = 1 /\ j' = 2 /\ simplest' = TRUE
      /\ UNCHANGED <<vwaa, kind, given, vertics, state_num, trans, rest>>
  BY DEF Again, MergeDone, Goto, Simplifies
<1>2. Control' /\ Indices'
  BY <1>b DEF IInv, Control, Indices
<1>3. Living' = Living
  BY <1>b DEF Living
<1> QED BY <1>2, <1>3, <1>b, MergingFacts, Merges

LEMMA FinishIInv == ASSUME IInv, Finish PROVE IInv'
<1>b. /\ kind = "StateBuchi" /\ pc = "merge" /\ pc \in Simplifies /\ pc' = "done" /\ pc' \in Simplifies /\ i' = i /\ j' = j
      /\ UNCHANGED <<vwaa, kind, given, vertics, state_num, simplest, trans, rest>>
  BY DEF Finish, MergeDone, Goto, Simplifies
<1>2. Control' /\ Indices'
  BY <1>b DEF IInv, Control, Indices
<1>3. Living' = Living
  BY <1>b DEF Living
<1> QED BY <1>2, <1>3, <1>b, MergingFacts, Merges

LEMMA Merge_stateIInv == ASSUME IInv, Merge_state PROVE IInv'
<1>b. /\ kind = "StateBuchi" /\ pc = "merge" /\ pc \in Simplifies /\ j <= Len(vertics)
      /\ Alive(vertics[i]) /\ Alive(vertics[j])
      /\ state_num' = state_num - 1 /\ simplest' = FALSE
      /\ UNCHANGED <<vwaa, kind, given, trans, rest>>
  BY DEF Merge_state, Merging, BothAlive, Simplifies
<1>v. vertics' = [v \in DOMAIN vertics |->
                   IF v = j THEN [vertics[v] EXCEPT !.id = NONE]
                   ELSE IF ~Alive(vertics[v]) THEN vertics[v]
                   ELSE [vertics[v] EXCEPT
                           !.initial = @ \/ (v = i /\ vertics[j].initial),
                           !.consumers = IF j \in @ THEN (@ \ {j}) \cup {i} ELSE @]]
  BY DEF Merge_state
<1>c. pc' = "merge" /\ pc' \in Simplifies /\ i' \in Nat \ {0} /\ j' \in Nat \ {0} /\ i' < j'
  BY <1>b, PairIndices DEF Merge_state, IInv, Simplifies
<1>d. /\ vertics \in Seq(Vertex) /\ DOMAIN vertics = 1 .. Len(vertics) /\ Len(vertics) \in Nat
      /\ \A v \in DOMAIN vertics : vertics[v] \in Vertex
      /\ i < j /\ i \in DOMAIN vertics /\ j \in DOMAIN vertics /\ i \in Nat \ {0} /\ j \in Nat \ {0}
  <2>1. i < j /\ i \in Nat \ {0} /\ j \in Nat \ {0}
    BY <1>b DEF IInv, Control, Indices
  <2> QED BY <2>1, <1>b, MergingFacts
<1>1. ASSUME NEW v \in DOMAIN vertics
      PROVE  /\ vertics'[v] \in Vertex
             /\ vertics'[v].id = IF v = j THEN NONE ELSE vertics[v].id
             /\ v # j /\ Alive(vertics[v]) => vertics'[v].consumers \subseteq (vertics[v].consumers \ {j}) \cup {i}
  <2> DEFINE s == vertics[v]
             b == s.initial \/ (v = i /\ vertics[j].initial)
             c == IF j \in s.consumers THEN (s.consumers \ {j}) \cup {i} ELSE s.consumers
             t == [s EXCEPT !.initial = b, !.consumers = c]
  <2>1. s \in Vertex /\ c \in SUBSET Nat /\ c \subseteq (s.consumers \ {j}) \cup {i} /\ s.id \in Int
    BY <1>d DEF Vertex
  <2>2. b \in BOOLEAN
    <3>1. vertics[j].initial \in BOOLEAN
      BY <1>d DEF Vertex
    <3> QED BY <2>1, <3>1 DEF Vertex
  <2>3. vertics'[v] = IF v = j THEN [s EXCEPT !.id = NONE] ELSE IF ~Alive(s) THEN s ELSE t
    BY <1>v
  <2>a. s = vertics[v]
    OBVIOUS
  <2> HIDE DEF s, b, c
  <2>4. t \in Vertex /\ t.id = s.id /\ t.consumers = c
    BY <2>1, <2>2 DEF Vertex
  <2> HIDE DEF t
  <2>5. [s EXCEPT !.id = NONE] \in Vertex /\ [s EXCEPT !.id = NONE].id = NONE
    BY <2>1 DEF Vertex, NONE
  <2>6. v # j => vertics'[v] = IF ~Alive(s) THEN s ELSE t
    BY <2>3
  <2>7. v = j => vertics'[v] = [s EXCEPT !.id = NONE]
    BY <2>3
  <2> QED BY <2>1, <2>4, <2>5, <2>6, <2>7, <2>a
<1>2. vertics' \in Seq(Vertex) /\ DOMAIN vertics' = DOMAIN vertics
  <2>1. vertics' = [v \in 1 .. Len(vertics) |-> vertics'[v]]
    BY <1>v, <1>d
  <2>2. \A v \in 1 .. Len(vertics) : vertics'[v] \in Vertex
    BY <1>1, <1>d
  <2> QED BY <2>1, <2>2, <1>d, ListOf
<1>3. Living' = Living \ {j}
  <2>1. \A m \in DOMAIN vertics : Alive(vertics'[m]) <=> m # j /\ Alive(vertics[m])
    BY <1>1 DEF Alive
  <2> QED BY <2>1, <1>2 DEF Living
<1>4. state_num' = Cardinality(Living') /\ state_num' \in Int
  <2>1. IsFiniteSet(Living)
    <3>1. IsFiniteSet(1 .. Len(vertics))
      BY <1>d, FS_Interval
    <3>2. Living \subseteq 1 .. Len(vertics)
      BY <1>d DEF Living
    <3> QED BY <3>1, <3>2, FS_Subset
  <2>2. j \in Living
    BY <1>b, <1>d DEF Living
  <2>3. Cardinality(Living \ {j}) = Cardinality(Living) - 1 /\ Cardinality(Living) \in Nat
    BY <2>1, <2>2, FS_RemoveElement, FS_CardinalityType
  <2> QED BY <2>3, <1>3, <1>b, MergingFacts
<1>5. Control' /\ Indices'
  BY <1>b, <1>c, <1>4 DEF IInv, Control, Indices
<1>6. ASSUME NEW v \in Living'
      PROVE  vertics'[v].id = v /\ vertics'[v].consumers \subseteq Living'
  <2>1. v \in Living /\ v # j /\ v \in DOMAIN vertics /\ Alive(vertics[v]) /\ vertics[v].id = v /\ vertics[v].consumers \subseteq Living
    BY <1>3, <1>b, MergingFacts DEF Living
  <2>2. i \in Living /\ i # j
    BY <1>b, <1>d DEF Living
  <2> QED BY <2>1, <2>2, <1>1, <1>3
<1> QED BY <1>2, <1>4, <1>5, <1>6, <1>b, <1>c, Merges

-----------------------------------------------------------------------------
LEMMA NextIInv == ASSUME IInv, [Next]_vars PROVE IInv'
<1>1. CASE UNCHANGED vars
  <2>1. UNCHANGED <<vwaa, kind, given, vertics, state_num, simplest, pc, i, j, trans, rest>>
    BY <1>1 DEF vars
  <2>2. Live' = Live /\ GBA_State' = GBA_State /\ BA_States' = BA_States /\ StateT' = StateT
    BY <2>1, Stay
  <2>3. Control' /\ Indices' /\ Growing' /\ AllExplored'
    BY <2>1 DEF IInv, Control, Indices, Growing, AllExplored
  <2>4. Locals' /\ Members'
    BY <2>1, <2>2 DEF IInv, Locals, Members, Slots, SlotsOf, LivingIn, Vertex
  <2>5. SelfCheck' /\ SomeArcStays'
    BY <2>1 DEF IInv, SelfCheck, IdsArePositions, ArcsCounted, StatesCounted, NoArcToDead, SomeArcStays, Living, Resolved
  <2> QED BY <2>3, <2>4, <2>5 DEF IInv
<1>2. CASE Build_GBA
  BY <1>2, ExpandTrueIInv, ExpandIInv, MultiplyNextIInv, AddTransitionIInv, ExploredIInv,
     CreateSuccessorStateIInv, SuccessorsDoneIInv DEF Build_GBA
<1>3. CASE Build_BA
  BY <1>3, BuildArcIInv, BuildNextIInv DEF Build_BA
<1>4. CASE Build_SBA
  BY <1>4, VisitIInv, ArcInIInv, AllInIInv, ArcOutIInv, LinkIInv, SBA_BuiltIInv DEF Build_SBA
<1>5. CASE Simplify
  <2>1. CASE Again
    <3>1. kind \in ArcKinds \/ kind = "StateBuchi"
      BY DEF IInv, Control, ArcKinds
    <3> QED BY <2>1, <3>1, AgainIInv, AgainStateIInv
  <2> QED BY <1>5, <2>1, BuiltIInv, SkipDeadIInv, MarkIInv, MarkedIInv, UnlinkIInv, UnlinkedIInv,
             TransitionsDoneIInv, Merge_statesIInv, KeepBothIInv, Merge_stateIInv, KeepVerticesIInv DEF Simplify
<1>6. CASE StartBuchi \/ StartStateBuchi \/ Finish
  BY <1>6, StartBuchiIInv, StartStateBuchiIInv, FinishIInv
<1>7. CASE Done
  BY <1>1, <1>7 DEF Done
<1> QED BY <1>1, <1>2, <1>3, <1>4, <1>5, <1>6, <1>7 DEF Next, Step

(* The inductive invariant: what SelfCheck and SomeArcStays rest on, from  *)
(* the loops' indices to what one class has promised the next.             *)
THEOREM Invariance == Spec => []IInv
<1>1. Init => IInv
  BY InitIInv
<1>2. IInv /\ [Next]_vars => IInv'
  BY NextIInv
<1> QED BY <1>1, <1>2, PTL DEF Spec

(***************************************************************************)
(* What self_check asks of numbers and counts (buchi.cpp:326, 623, 902)    *)
(* holds at every step of the translation and for every automaton: a state *)
(* is where its number says, the counts of arcs and of states are those of *)
(* the lists, and no arc leads to a state merged away.                     *)
(***************************************************************************)
THEOREM SelfCheckHolds == Spec => []SelfCheck
<1>1. IInv => SelfCheck
  BY DEF IInv
<1> QED BY <1>1, Invariance, PTL

(***************************************************************************)
(* Simplify_transition may read firstarc without looking whether there is  *)
(* one: a state that has been expanded always keeps an arc.                *)
(***************************************************************************)
THEOREM SomeArcAlwaysStays == Spec => []SomeArcStays
<1>1. IInv => SomeArcStays
  BY DEF IInv
<1> QED BY <1>1, Invariance, PTL

(***************************************************************************)
(* The members of the three classes and the indices of their loops keep    *)
(* their types, also where one class hands its automaton to the next.      *)
(***************************************************************************)
THEOREM TypeCorrect == Spec => []TypeOK
<1>1. ASSUME IInv PROVE TypeOK
  <2>1. IsVWAA(vwaa) /\ Live \subseteq Node
    BY <1>1, AutomatonFacts DEF IInv, Control
  <2>2. trans \in Seq(Transition)
    <3>1. trans \in Seq([pred : SUBSET Literal, dests : SUBSET Live])
      BY <1>1 DEF IInv, Locals
    <3> DEFINE T == [pred : SUBSET Literal, dests : SUBSET Live]
    <3>2. \A t \in T : t \in Transition
      BY <2>1 DEF Transition
    <3>3. \A k \in DOMAIN trans : trans[k] \in T
      <4> HIDE DEF T
      <4> QED BY <3>1, Elements DEF T
    <3> QED BY <3>1, <3>2, <3>3, Retype
  <2>3. kind = "General" => vertics \in Seq(GBA_State) /\ rest \in SUBSET Node
    BY <1>1, <2>1 DEF IInv, Members, Locals, ArcKinds, StateT
  <2>4. kind = "Buchi" => vertics \in Seq(BA_States) /\ given \in Seq(GBA_State)
    BY <1>1 DEF IInv, Members, ArcKinds, StateT
  <2>5. kind = "StateBuchi" => vertics \in Seq(Vertex) /\ given \in Seq(BA_States) /\ rest \in SUBSET (Nat \X Nat)
    BY <1>1, SlotFacts DEF IInv, Members, Locals
  <2>6. kind \in {"General", "Buchi", "StateBuchi"}
    BY <1>1 DEF IInv, Control
  <2>7. CASE kind = "General"
    BY <1>1, <2>1, <2>2, <2>3, <2>7 DEF TypeOK, IInv, Control
  <2>8. CASE kind = "Buchi"
    BY <1>1, <2>1, <2>2, <2>4, <2>8 DEF TypeOK, IInv, Control
  <2>9. CASE kind = "StateBuchi"
    BY <1>1, <2>1, <2>2, <2>5, <2>9 DEF TypeOK, IInv, Control
  <2> QED BY <2>6, <2>7, <2>8, <2>9
<1> QED BY <1>1, Invariance, PTL
=============================================================================

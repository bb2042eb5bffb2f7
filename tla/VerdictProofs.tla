--------------------------- MODULE VerdictProofs ---------------------------
(***************************************************************************)
(* The verdict of the product search is right, proved for every instance.  *)
(***************************************************************************)
EXTENDS ProductProofs, WellFoundedInduction

(***************************************************************************)
(* The edges of the product graph in the order in which Tarjan follows     *)
(* them, as a function of the node.                                        *)
(***************************************************************************)
FanoutOf(m) == IF sys.succ[m] = <<>> THEN 1 ELSE Len(sys.succ[m])
EdgesOf(u)  == Len(sys.arcs[u[2]]) * FanoutOf(u[1])
EdgeTo(u, e) ==
  <<IF sys.succ[u[1]] = <<>> THEN u[1] ELSE sys.succ[u[1]][(e % FanoutOf(u[1])) + 1],
    sys.arcs[u[2]][(e \div FanoutOf(u[1])) + 1]>>

(***************************************************************************)
(* The state of the search in terms of product nodes: the open nodes from  *)
(* the bottom of the stack up, their lowlinks, the positions of those that *)
(* are accepting and of those whose activation still runs, what has been   *)
(* found behind each so far, and the closed nodes.                         *)
(***************************************************************************)
path      == [p \in DOMAIN cstack |-> NodeOf(cstack[p])]
lowlinks  == [p \in DOMAIN cstack |-> obj[cstack[p]].lowlink]
accepting == {p \in DOMAIN cstack : obj[cstack[p]].ba \in sys.accepted}
closed    == {NodeOf(o) : o \in h}

Started(k)    == k \in DOMAIN frames /\ frames[k].pc # "enter"
PositionOf(k) == obj[frames[k].obj].id + 1
active        == {PositionOf(k) : k \in {l \in DOMAIN frames : Started(l)}}
top           == Node.id + 1

\* An activation has followed the edges before the one it is at; a node whose
\* activation has returned has had every edge followed.
EdgesFollowed(p) ==
  {e \in 0 .. EdgesOf(NodeOf(cstack[p])) - 1 :
     \A k \in DOMAIN frames : Started(k) /\ frames[k].obj = cstack[p] => e < frames[k].edge}
found == [p \in DOMAIN cstack |->
            {EdgeTo(NodeOf(cstack[p]), e) : e \in EdgesFollowed(p)} \cap sys.label]

\* The running activation is about to close its component, the rest of the
\* stack from its node on.
Closing   == Running("loop") /\ Top.edge >= NumEdges /\ Node.lowlink = Node.id
Component == IF Closing THEN {path[p] : p \in {q \in DOMAIN path : q >= top}} ELSE {}

-----------------------------------------------------------------------------
(***************************************************************************)
(* The invariant.  First what holds until the time is up.                  *)
(***************************************************************************)
\* astack holds the accepting nodes of cstack in their order.
AstackMatches ==
  /\ \A i \in DOMAIN astack : \E p \in accepting : cstack[p] = astack[i]
  /\ \A i, j \in DOMAIN astack : i < j => obj[astack[i]].id < obj[astack[j]].id
  /\ \A p \in accepting : \E i \in DOMAIN astack : astack[i] = cstack[p]

\* An activation that waits has called Tarjan on the node its edge leads to.
Calls ==
  \A k \in DOMAIN frames : frames[k].pc = "call" =>
    /\ frames[k].edge \in 0 .. EdgesOf(NodeOf(frames[k].obj)) - 1
    /\ NodeOf(frames[k].qs) = EdgeTo(NodeOf(frames[k].obj), frames[k].edge)
    /\ NodeOf(frames[k].qs) \in sys.label
    /\ k < Len(frames) => frames[k + 1].obj = frames[k].qs

EnteredInTime == ~timeup /\ Running("enter") /\ Len(frames) > 1 => result

\* A call that is over has left its node open, or its lowlink tells nothing.
Returned ==
  ~timeup /\ Running("call") =>
    \/ \E p \in DOMAIN cstack : cstack[p] = Top.qs
    \/ obj[Top.qs].lowlink >= Len(cstack)

LowlinksReach ==
  ~timeup => \A p \in DOMAIN path :
               /\ lowlinks[p] + 1 \in DOMAIN path
               /\ path[lowlinks[p] + 1] \in Reachable({path[p]})

AllReached == \A o \in DOMAIN obj : NodeOf(o) \in Reachable(InitialNodes)

\* GetInitNode lists every initial node, and nothing else.
InitialsListed ==
  /\ rgnodevec[1] = sys.init
  /\ \A k \in DOMAIN initial_status : <<sys.init, initial_status[k]>> \in InitialNodes
  /\ \A b \in sys.initial : isLabel(sys.init, b) =>
       \/ \E k \in DOMAIN initial_status : initial_status[k] = b
       \/ phase = "init" /\ \E k \in DOMAIN sys.vertics : k >= next /\ sys.vertics[k] = b

\* Tarjan runs between GetInitNode and the end of GetProduct only.
RunsInSearch ==
  /\ phase # "search" => frames = <<>>
  /\ phase = "done" => next \notin DOMAIN initial_status

RefutedRightly == ~timeup /\ ~result => AcceptingLassoFrom(InitialNodes)

(***************************************************************************)
(* Then what holds as long as no accepting cycle has been found either.    *)
(***************************************************************************)
\* The stack is a path, with detours: each node reaches those above it, ...
Upward == \A p, q \in DOMAIN path : p <= q => path[q] \in Reachable({path[p]})

\* ... and an active one at or below it.
ToActive == \A p \in DOMAIN path : \E q \in active : q <= p /\ path[q] \in Reachable({path[p]})

\* No node is both open and closed, but an initial node that an earlier one
\* has reached: GetProduct has it searched again.
Fresh ==
  /\ \A p \in DOMAIN path : path[p] \in closed =>
       Len(cstack) = 1 /\ Len(frames) = 1 /\ frames[1].pc # "call"
  /\ Running("enter") /\ Len(frames) > 1 => NodeOf(Top.obj) \notin closed

FoundKnown == \A p \in DOMAIN path : \A u \in found[p] :
                u \in closed \/ \E q \in DOMAIN path : path[q] = u

CalledKnown ==
  Running("call") => NodeOf(Top.qs) \in closed
                     \/ \E q \in DOMAIN cstack : q > top /\ cstack[q] = Top.qs

\* No accepting node lies on the stack between the ends of a backward edge:
\* the edge would have closed an accepting cycle.
Cut == \A p, q \in DOMAIN path :
         q <= p /\ path[q] \in found[p] => \A a \in accepting : ~(q <= a /\ a <= p)

\* An active node between the ends of a backward edge is told by a lowlink, of
\* its own, of an active one above it or of the call that has just returned.
LowlinksTold ==
  \A p, q \in DOMAIN path, a \in active :
    path[q] \in found[p] /\ q < a /\ a <= p =>
      \/ \E b \in active : b >= a /\ lowlinks[b] < q
      \/ Running("call") /\ obj[Top.qs].lowlink < q

ClosedFollowed == \A u \in closed : Post(u) \subseteq closed \cup Component

NoneAccepting == \A u \in closed : ~AcceptingCycleAt(u)

ComponentDone ==
  \A u \in Component : Post(u) \subseteq closed \cup Component /\ ~AcceptingCycleAt(u)

\* The initial nodes handed to Tarjan are closed, but the one being searched.
InitialsSearched ==
  phase # "init" => \A k \in DOMAIN initial_status :
    k < next => \/ <<sys.init, initial_status[k]>> \in closed
                \/ frames # <<>> /\ NodeOf(frames[1].obj) = <<sys.init, initial_status[k]>>

TimelyInv ==
  /\ StacksInv /\ AstackMatches /\ Calls /\ EnteredInTime /\ Returned /\ LowlinksReach
  /\ AllReached /\ InitialsListed /\ RunsInSearch /\ RefutedRightly

OpenPart ==
  Upward /\ ToActive /\ Fresh /\ FoundKnown /\ CalledKnown /\ Cut /\ LowlinksTold

LiveInv == OpenPart /\ ClosedFollowed /\ NoneAccepting /\ ComponentDone /\ InitialsSearched

VerdictInv == TimelyInv /\ (Live => LiveInv)

-----------------------------------------------------------------------------
(***************************************************************************)
(* What Reachable computes: the induction its proofs use, its least closed set,*)
(* and steps back along a path.                                            *)
(***************************************************************************)
\* A set of numbers has a least one: induction in the form the provers take.
LEMMA LeastNumber ==
  ASSUME NEW S \in SUBSET Nat, S # {}
  PROVE  \E n \in S : \A m \in S : n <= m
<1>1. PICK n0 \in S : TRUE
  OBVIOUS
<1> DEFINE D == 0 .. n0
           R == StrictSubsetOrdering(D)
           T == {0 .. m : m \in {k \in S : k <= n0}}
<1>2. IsFiniteSet(D)
  BY FS_Interval
<1>3. IsWellFoundedOn(R, SUBSET D)
  <2>1. FiniteSubsetsOf(D) = SUBSET D
    BY <1>2, FS_FiniteSubsetsOfFinite
  <2> QED BY <2>1, FS_StrictSubsetOrderingWellFounded
<1>4. T \subseteq SUBSET D /\ T # {}
  <2>1. D \in T
    BY <1>1
  <2> QED BY <2>1
<1>5. \A m, n \in S : m < n /\ n <= n0 => <<0 .. m, 0 .. n>> \in R
  BY DEF StrictSubsetOrdering
<1> HIDE DEF R, D, T
<1>6. PICK t \in T : \A y \in T : ~ (<<y, t>> \in R)
  BY <1>3, <1>4, WFMin
<1>7. PICK n \in S : n <= n0 /\ t = 0 .. n
  BY <1>6 DEF T
<1>8. ASSUME NEW m \in S, m < n PROVE FALSE
  <2>1. 0 .. m \in T
    BY <1>7, <1>8, <1>1 DEF T
  <2>2. <<0 .. m, 0 .. n>> \in R
    BY <1>5, <1>7, <1>8
  <2> QED BY <2>1, <2>2, <1>6, <1>7
<1> QED BY <1>8

\* Induction over the natural numbers, on a set instead of a formula.
LEMMA InductionOnSets ==
  ASSUME NEW S, 0 \in S, \A n \in Nat : n \in S => n + 1 \in S
  PROVE  Nat \subseteq S
<1> SUFFICES ASSUME Nat \ S # {} PROVE FALSE
  OBVIOUS
<1>1. PICK n \in Nat \ S : \A m \in Nat \ S : n <= m
  BY LeastNumber
<1>2. n # 0 /\ n - 1 \in Nat
  BY <1>1
<1>3. n - 1 \in S
  BY <1>1, <1>2
<1>4. (n - 1) + 1 \in S
  BY <1>2, <1>3
<1> QED BY <1>1, <1>4

\* The sets of nodes found step by step in ReachableIn.
IsSpread(s, S, n, f) ==
  f = [d \in 0 .. n |-> IF d = 0 THEN S ELSE f[d - 1] \cup UNION {PostIn(s, u) : u \in f[d - 1]}]

\* The levels of a breadth-first search exist for any number of rounds.
LEMMA SpreadExists ==
  ASSUME NEW s, NEW S, NEW N \in Nat
  PROVE  \E f : IsSpread(s, S, N, f)
<1> DEFINE grow(X) == X \cup UNION {PostIn(s, u) : u \in X}
           K == {n \in Nat : \E f : IsSpread(s, S, n, f)}
<1>1. 0 \in K
  <2> DEFINE f == [d \in 0 .. 0 |-> S]
  <2>1. f = [d \in 0 .. 0 |-> IF d = 0 THEN S ELSE grow(f[d - 1])]
    OBVIOUS
  <2> QED BY <2>1 DEF IsSpread
<1>2. ASSUME NEW n \in Nat, n \in K PROVE n + 1 \in K
  <2>1. PICK f : IsSpread(s, S, n, f)
    BY <1>2
  <2> HIDE DEF grow
  <2>2. f = [d \in 0 .. n |-> IF d = 0 THEN S ELSE grow(f[d - 1])]
    BY <2>1 DEF IsSpread, grow
  <2> DEFINE g == [d \in 0 .. n + 1 |-> IF d = n + 1 THEN grow(f[n]) ELSE f[d]]
  <2>3. \A d \in 0 .. n + 1 : g[d] = IF d = 0 THEN S ELSE grow(g[d - 1])
    <3> TAKE d \in 0 .. n + 1
    <3>1. CASE d = n + 1
      <4>1. d # 0 /\ d - 1 = n /\ d - 1 \in 0 .. n + 1 /\ n # n + 1
        BY <3>1
      <4>2. g[d] = grow(f[n]) /\ g[d - 1] = f[n]
        BY <3>1, <4>1
      <4> HIDE DEF g
      <4> QED BY <4>1, <4>2
    <3>2. CASE d = 0
      <4>1. d # n + 1 /\ d \in 0 .. n
        BY <3>2
      <4>2. g[d] = f[d]
        BY <4>1
      <4> HIDE DEF g
      <4>3. f[d] = S
        BY <2>2, <4>1, <3>2
      <4> QED BY <4>2, <4>3, <3>2
    <3>3. CASE d # 0 /\ d # n + 1
      <4>1. d \in 0 .. n /\ d - 1 \in 0 .. n + 1 /\ d - 1 # n + 1
        BY <3>3
      <4>2. g[d] = f[d] /\ g[d - 1] = f[d - 1]
        BY <4>1, <3>3
      <4> HIDE DEF g
      <4>3. f[d] = grow(f[d - 1])
        BY <2>2, <4>1, <3>3
      <4> QED BY <4>2, <4>3, <3>3
    <3> QED BY <3>1, <3>2, <3>3
  <2>4. g = [d \in 0 .. n + 1 |-> g[d]]
    OBVIOUS
  <2> HIDE DEF g
  <2>5. g = [d \in 0 .. n + 1 |-> IF d = 0 THEN S ELSE grow(g[d - 1])]
    BY <2>3, <2>4
  <2>6. IsSpread(s, S, n + 1, g)
    BY <2>5 DEF IsSpread, grow
  <2> QED BY <2>6
<1> HIDE DEF K
<1>3. Nat \subseteq K
  BY <1>1, <1>2, InductionOnSets
<1> QED BY <1>3 DEF K

\* Reachable is the last level of as many rounds as there are product nodes.
LEMMA SpreadIsReachable ==
  ASSUME NEW s, NEW S, Cardinality(ProductNodes) \in Nat
  PROVE  \E f : /\ IsSpread(s, S, Cardinality(ProductNodes), f)
                /\ ReachableIn(s, S) = f[Cardinality(ProductNodes)]
<1> DEFINE N == Cardinality(ProductNodes)
           f == CHOOSE g : IsSpread(s, S, N, g)
<1>1. \E g : IsSpread(s, S, N, g)
  BY SpreadExists
<1>2. IsSpread(s, S, N, f)
  BY <1>1
<1>3. ReachableIn(s, S) = f[N]
  BY DEF ReachableIn, IsSpread
<1> QED BY <1>2, <1>3

\* The product graph of an instance.
ProductIsFinite == IsFiniteSet(ProductNodes)

\* Successors are product nodes.
LEMMA PostOfNode ==
  ASSUME NEW s \in SystemType, NEW u
  PROVE  PostIn(s, u) \subseteq ProductNodes
BY DEF PostIn, SystemType, ProductNodes

\* A set reaches itself.
LEMMA ReachableHasStart ==
  ASSUME ProductIsFinite, NEW s, NEW S
  PROVE  S \subseteq ReachableIn(s, S)
<1> DEFINE N == Cardinality(ProductNodes)
<1>1. N \in Nat
  BY FS_CardinalityType DEF ProductIsFinite
<1>2. PICK f : IsSpread(s, S, N, f) /\ ReachableIn(s, S) = f[N]
  BY <1>1, SpreadIsReachable
<1> DEFINE K == {d \in Nat : d <= N => S \subseteq f[d]}
<1> HIDE DEF N
<1>3. \A d \in 0 .. N : f[d] = IF d = 0 THEN S ELSE f[d - 1] \cup UNION {PostIn(s, u) : u \in f[d - 1]}
  BY <1>2 DEF IsSpread
<1>4. 0 \in K
  <2>1. 0 \in 0 .. N
    BY <1>1
  <2>2. f[0] = S
    BY <1>3, <2>1
  <2> QED BY <2>2
<1>5. ASSUME NEW d \in Nat, d \in K PROVE d + 1 \in K
  <2>1. CASE d + 1 <= N
    <3>1. d + 1 \in 0 .. N /\ d + 1 # 0 /\ (d + 1) - 1 = d /\ d <= N
      BY <1>1, <2>1
    <3>2. f[d] \subseteq f[d + 1]
      BY <1>3, <3>1
    <3> QED BY <1>5, <3>1, <3>2
  <2> QED BY <2>1, <1>1
<1> HIDE DEF K
<1>6. Nat \subseteq K
  BY <1>4, <1>5, InductionOnSets
<1> QED BY <1>1, <1>2, <1>6 DEF K

\* Nothing is reached outside a set that holds the start and is closed.
LEMMA ReachableIsLeast ==
  ASSUME ProductIsFinite, NEW s, NEW S, NEW C, S \subseteq C, \A u \in C : PostIn(s, u) \subseteq C
  PROVE  ReachableIn(s, S) \subseteq C
<1> DEFINE N == Cardinality(ProductNodes)
<1>1. N \in Nat
  BY FS_CardinalityType DEF ProductIsFinite
<1>2. PICK f : IsSpread(s, S, N, f) /\ ReachableIn(s, S) = f[N]
  BY <1>1, SpreadIsReachable
<1> DEFINE K == {d \in Nat : d <= N => f[d] \subseteq C}
<1> HIDE DEF N
<1>3. \A d \in 0 .. N : f[d] = IF d = 0 THEN S ELSE f[d - 1] \cup UNION {PostIn(s, u) : u \in f[d - 1]}
  BY <1>2 DEF IsSpread
<1>4. 0 \in K
  <2>1. 0 \in 0 .. N
    BY <1>1
  <2>2. f[0] = S
    BY <1>3, <2>1
  <2> QED BY <2>2
<1>5. ASSUME NEW d \in Nat, d \in K PROVE d + 1 \in K
  <2>1. CASE d + 1 <= N
    <3>1. d + 1 \in 0 .. N /\ d + 1 # 0 /\ (d + 1) - 1 = d /\ d <= N
      BY <1>1, <2>1
    <3>2. f[d + 1] = f[d] \cup UNION {PostIn(s, u) : u \in f[d]}
      BY <1>3, <3>1
    <3>3. f[d] \subseteq C
      BY <1>5, <3>1
    <3> QED BY <3>2, <3>3
  <2> QED BY <2>1, <1>1
<1> HIDE DEF K
<1>6. Nat \subseteq K
  BY <1>4, <1>5, InductionOnSets
<1> QED BY <1>1, <1>2, <1>6 DEF K

\* There are enough rounds: each one that is not the last finds a node more.
LEMMA ReachableIsClosed ==
  ASSUME ProductIsFinite, NEW s \in SystemType, NEW S \in SUBSET ProductNodes
  PROVE  /\ ReachableIn(s, S) \subseteq ProductNodes
         /\ \A u \in ReachableIn(s, S) : PostIn(s, u) \subseteq ReachableIn(s, S)
<1> DEFINE N == Cardinality(ProductNodes)
           Closed1(X) == \A u \in X : PostIn(s, u) \subseteq X
           nxt(X) == X \cup UNION {PostIn(s, u) : u \in X}
<1>1. N \in Nat
  BY FS_CardinalityType DEF ProductIsFinite
<1>2. PICK f : IsSpread(s, S, N, f) /\ ReachableIn(s, S) = f[N]
  BY <1>1, SpreadIsReachable
<1> DEFINE K == {d \in Nat : d <= N => /\ f[d] \subseteq ProductNodes
                                       /\ Closed1(f[d]) \/ Cardinality(f[d]) >= d}
<1>3. \A d \in 0 .. N : f[d] = IF d = 0 THEN S ELSE nxt(f[d - 1])
  BY <1>2 DEF IsSpread
<1>4. \A X \in SUBSET ProductNodes : IsFiniteSet(X) /\ Cardinality(X) \in Nat
  BY FS_Subset, FS_CardinalityType DEF ProductIsFinite
<1>5. ASSUME NEW X \in SUBSET ProductNodes
      PROVE  /\ nxt(X) \in SUBSET ProductNodes /\ X \subseteq nxt(X)
             /\ Closed1(X) => Closed1(nxt(X))
             /\ ~Closed1(X) => Cardinality(nxt(X)) >= Cardinality(X) + 1
  <2>1. nxt(X) \in SUBSET ProductNodes /\ X \subseteq nxt(X)
    BY PostOfNode
  <2>2. Closed1(X) => nxt(X) = X
    OBVIOUS
  <2>3. ~Closed1(X) => nxt(X) # X
    OBVIOUS
  <2> HIDE DEF nxt, Closed1
  <2>4. X \in SUBSET nxt(X) /\ IsFiniteSet(nxt(X)) /\ Cardinality(nxt(X)) \in Nat /\ Cardinality(X) \in Nat
    BY <1>4, <2>1
  <2>5. Cardinality(X) <= Cardinality(nxt(X)) /\ (Cardinality(X) = Cardinality(nxt(X)) => X = nxt(X))
    BY <2>4, FS_Subset
  <2> QED BY <2>1, <2>2, <2>3, <2>4, <2>5
<1> HIDE DEF N, nxt
<1>6. 0 \in K
  BY <1>1, <1>3, <1>4
<1>7. ASSUME NEW d \in Nat, d \in K PROVE d + 1 \in K
  <2> HIDE DEF Closed1
  <2>1. CASE d + 1 <= N
    <3>1. d + 1 \in 0 .. N /\ d + 1 # 0 /\ (d + 1) - 1 = d /\ d <= N
      BY <1>1, <2>1
    <3>2. f[d + 1] = nxt(f[d])
      BY <1>3, <3>1
    <3>3. f[d] \in SUBSET ProductNodes /\ (Closed1(f[d]) \/ Cardinality(f[d]) >= d)
      BY <1>7, <3>1
    <3>4. Closed1(f[d]) => Closed1(f[d + 1])
      BY <3>2, <3>3, <1>5
    <3>5. ~Closed1(f[d]) => Cardinality(f[d + 1]) >= d + 1
      BY <3>2, <3>3, <1>4, <1>5
    <3> QED BY <3>2, <3>3, <3>4, <3>5, <1>5
  <2> QED BY <2>1, <1>1
<1> HIDE DEF K
<1>8. N \in K
  BY <1>1, <1>6, <1>7, InductionOnSets
<1>9. f[N] \in SUBSET ProductNodes /\ (Closed1(f[N]) \/ Cardinality(f[N]) >= N)
  BY <1>1, <1>8 DEF K
<1>10. Cardinality(f[N]) >= N => f[N] = ProductNodes
  <2>1. Cardinality(f[N]) <= N /\ Cardinality(f[N]) \in Nat
        /\ (Cardinality(ProductNodes) = Cardinality(f[N]) => ProductNodes = f[N])
    BY <1>4, <1>9, FS_Subset DEF ProductIsFinite, N
  <2> QED BY <2>1, <1>1 DEF N
<1>11. Closed1(ProductNodes)
  BY PostOfNode
<1>12. Closed1(f[N])
  BY <1>9, <1>10, <1>11
<1> QED BY <1>2, <1>9, <1>12

\* One after the other.
LEMMA ReachableTwice ==
  ASSUME ProductIsFinite, NEW s \in SystemType, NEW S \in SUBSET ProductNodes,
         NEW u \in ReachableIn(s, S), NEW v \in ReachableIn(s, {u})
  PROVE  v \in ReachableIn(s, S)
<1>1. \A x \in ReachableIn(s, S) : PostIn(s, x) \subseteq ReachableIn(s, S)
  BY ReachableIsClosed
<1>2. {u} \subseteq ReachableIn(s, S)
  OBVIOUS
<1>3. ReachableIn(s, {u}) \subseteq ReachableIn(s, S)
  BY <1>1, <1>2, ReachableIsLeast
<1> QED BY <1>3

\* What is reached from a node is the node or is reached from behind it.
LEMMA ReachableFirstEdge ==
  ASSUME ProductIsFinite, NEW s \in SystemType, NEW u, NEW v \in ReachableIn(s, {u})
  PROVE  v = u \/ v \in ReachableIn(s, PostIn(s, u))
<1> DEFINE R == ReachableIn(s, PostIn(s, u))
<1>1. PostIn(s, u) \in SUBSET ProductNodes
  BY PostOfNode
<1>2. PostIn(s, u) \subseteq R /\ \A x \in R : PostIn(s, x) \subseteq R
  BY <1>1, ReachableHasStart, ReachableIsClosed
<1> HIDE DEF R
<1>3. \A x \in {u} \cup R : PostIn(s, x) \subseteq {u} \cup R
  BY <1>2
<1>4. {u} \subseteq {u} \cup R
  OBVIOUS
<1> DEFINE C == {u} \cup R
<1>5. {u} \subseteq C /\ \A x \in C : PostIn(s, x) \subseteq C
  BY <1>3
<1> HIDE DEF C
<1>6. ReachableIn(s, {u}) \subseteq C
  BY <1>5, ReachableIsLeast
<1> QED BY <1>6 DEF C, R

-----------------------------------------------------------------------------
(***************************************************************************)
(* Product nodes, and what an edge does to reachability and to cycles.     *)
(***************************************************************************)
\* An edge closes a cycle through the node it was reached from.
LEMMA EdgeClosesCycle ==
  ASSUME ProductIsFinite, NEW s \in SystemType, NEW x \in ProductNodes, NEW y \in ReachableIn(s, {x}),
         NEW v \in PostIn(s, y), x \in ReachableIn(s, {v})
  PROVE  x \in ReachableIn(s, PostIn(s, x))
<1> DEFINE P == PostIn(s, x)
<1>1. P \in SUBSET ProductNodes
  BY PostOfNode
<1>2. P \subseteq ReachableIn(s, P) /\ \A z \in ReachableIn(s, P) : PostIn(s, z) \subseteq ReachableIn(s, P)
  BY <1>1, ReachableHasStart, ReachableIsClosed
<1>3. y = x \/ y \in ReachableIn(s, P)
  BY ReachableFirstEdge
<1>4. v \in ReachableIn(s, P)
  BY <1>2, <1>3
<1> HIDE DEF P
<1>5. x \in ReachableIn(s, P)
  BY <1>1, <1>4, ReachableTwice
<1> QED BY <1>5 DEF P

\* The facts about Reachable, for the instance being searched.
LEMMA ReachFacts ==
  ASSUME ProductIsFinite, TypeInv
  PROVE  /\ \A u : Post(u) \subseteq ProductNodes
         /\ \A u : u \in Reachable({u})
         /\ \A u \in ProductNodes : Reachable({u}) \subseteq ProductNodes
         /\ \A u \in ProductNodes : \A v \in Reachable({u}) : Post(v) \subseteq Reachable({u})
         /\ \A u \in ProductNodes : \A v \in Reachable({u}) : \A w \in Reachable({v}) : w \in Reachable({u})
         /\ \A x \in ProductNodes : \A y \in Reachable({x}) : \A v \in Post(y) :
              x \in Reachable({v}) => x \in Reachable(Post(x))
         /\ \A S, C : S \subseteq C /\ (\A u \in C : Post(u) \subseteq C) => Reachable(S) \subseteq C
         /\ InitialNodes \subseteq Reachable(InitialNodes)
         /\ \A u \in Reachable(InitialNodes) : Post(u) \subseteq Reachable(InitialNodes)
         /\ \A u \in Reachable(InitialNodes) : \A v \in Reachable({u}) : v \in Reachable(InitialNodes)
<1>1. sys \in SystemType
  BY SystemsAssumption DEF TypeInv, TypeOK
<1>2. InitialNodes \in SUBSET ProductNodes
  BY <1>1 DEF InitialNodes, ProductNodes, SystemType
<1> USE DEF Post, Reachable
<1>3. \A u : Post(u) \subseteq ProductNodes
  BY <1>1, PostOfNode
<1>4. \A u : u \in Reachable({u})
  BY ReachableHasStart
<1>5. \A u \in ProductNodes : Reachable({u}) \subseteq ProductNodes
  BY <1>1, ReachableIsClosed
<1>6. \A u \in ProductNodes : \A v \in Reachable({u}) : Post(v) \subseteq Reachable({u})
  BY <1>1, ReachableIsClosed
<1>7. \A u \in ProductNodes : \A v \in Reachable({u}) : \A w \in Reachable({v}) : w \in Reachable({u})
  BY <1>1, ReachableTwice
<1>8. \A x \in ProductNodes : \A y \in Reachable({x}) : \A v \in Post(y) :
        x \in Reachable({v}) => x \in Reachable(Post(x))
  BY <1>1, EdgeClosesCycle
<1>9. \A S, C : S \subseteq C /\ (\A u \in C : Post(u) \subseteq C) => Reachable(S) \subseteq C
  BY ReachableIsLeast
<1>10. InitialNodes \subseteq Reachable(InitialNodes)
  BY ReachableHasStart
<1>11. \A u \in Reachable(InitialNodes) : Post(u) \subseteq Reachable(InitialNodes)
  BY <1>1, <1>2, ReachableIsClosed
<1>12. \A u \in Reachable(InitialNodes) : \A v \in Reachable({u}) : v \in Reachable(InitialNodes)
  BY <1>1, <1>2, ReachableTwice
<1> QED BY <1>3, <1>4, <1>5, <1>6, <1>7, <1>8, <1>9, <1>10, <1>11, <1>12

\* With room for all product nodes there are finitely many.
LEMMA RoomIsFinite == RoomForAll => ProductIsFinite
BY FS_Product DEF RoomForAll, ProductIsFinite, ProductNodes

\* The objects stand for product nodes.
LEMMA NodesInProduct ==
  ASSUME TypeInv
  PROVE  \A o \in DOMAIN obj : NodeOf(o) \in ProductNodes
<1>1. \A o \in DOMAIN obj : obj[o] \in Objects /\ obj[o].rg \in DOMAIN rgnodevec
  BY DEF TypeInv, TypeOK, NoDangling
<1>2. \A r \in DOMAIN rgnodevec : rgnodevec[r] \in Markings
  BY DEF TypeInv, TypeOK
<1> QED BY <1>1, <1>2 DEF NodeOf, ProductNodes, Objects

\* Different objects on the stack are different nodes.
LEMMA SameNode ==
  ASSUME StacksInv
  PROVE  /\ \A o \in DOMAIN obj, r \in DOMAIN rgnodevec : \A b :
              NodeOf(o) = <<rgnodevec[r], b>> <=> Same(o, r, b)
         /\ path \in Seq(ProductNodes) /\ DOMAIN path = DOMAIN cstack /\ Len(path) = Len(cstack)
         /\ \A p, q \in DOMAIN path : path[p] = path[q] => p = q
<1>1. \A o \in DOMAIN obj : obj[o].rg \in DOMAIN rgnodevec
  BY DEF StacksInv, TypeInv, NoDangling
<1>2. \A o \in DOMAIN obj, r \in DOMAIN rgnodevec : \A b :
        NodeOf(o) = <<rgnodevec[r], b>> <=> Same(o, r, b)
  BY <1>1 DEF StacksInv, RGNodesDiffer, NodeOf, Same
<1>3. cstack \in Seq(DOMAIN obj)
  BY DEF StacksInv, TypeInv, TypeOK
<1>4. \A o \in DOMAIN obj : NodeOf(o) \in ProductNodes
  BY NodesInProduct DEF StacksInv
<1>5. path \in Seq(ProductNodes) /\ DOMAIN path = DOMAIN cstack /\ Len(path) = Len(cstack)
  BY <1>3, <1>4 DEF path
<1>6. ASSUME NEW p \in DOMAIN path, NEW q \in DOMAIN path, path[p] = path[q] PROVE p = q
  <2>1. p \in DOMAIN cstack /\ q \in DOMAIN cstack /\ cstack[p] \in DOMAIN obj /\ cstack[q] \in DOMAIN obj
    BY <1>3, <1>5
  <2>2. NodeOf(cstack[p]) = NodeOf(cstack[q])
    BY <1>6, <2>1 DEF path
  <2>3. Same(cstack[p], obj[cstack[q]].rg, obj[cstack[q]].ba)
    BY <1>1, <1>2, <2>1, <2>2 DEF NodeOf
  <2> QED BY <2>1, <2>3 DEF StacksInv, OpenOnce, Same
<1> QED BY <1>2, <1>5, <1>6

-----------------------------------------------------------------------------
(***************************************************************************)
(* What no step changes: the product graph.                                *)
(***************************************************************************)
\* A step keeps the instance and what the objects stand for.
LEMMA NodesKept ==
  ASSUME TypeInv, [Next]_vars
  PROVE  /\ sys' = sys
         /\ DOMAIN obj \subseteq DOMAIN obj'
         /\ \A o \in DOMAIN obj : /\ obj'[o].rg = obj[o].rg /\ obj'[o].ba = obj[o].ba
                                  /\ NodeOf(o)' = NodeOf(o)
         /\ \A r \in DOMAIN rgnodevec : r \in DOMAIN rgnodevec' /\ rgnodevec'[r] = rgnodevec[r]
<1>1. sys' = sys
  BY DEF Next, Step, Done, vars, GetInitNode, StartSearch, SearchFrom, Finish, EnterTooLate, EnterDecided,
         Enter, EnterWith, LeaveDecided, SkipEdge, CloseCycle, CrossEdge, TreeEdge, AfterCall, LeaveOpen,
         CloseOne, CloseRound
<1>2. obj \in Seq(Objects) /\ rgnodevec \in Seq(Markings)
  BY DEF TypeInv, TypeOK
<1>3. \A r \in DOMAIN rgnodevec : r \in DOMAIN rgnodevec' /\ rgnodevec'[r] = rgnodevec[r]
  <2>1. CASE rgnodevec' = rgnodevec
    BY <2>1
  <2>2. CASE rgnodevec' = Append(rgnodevec, Target)
    BY <2>2, <1>2
  <2>3. rgnodevec' = rgnodevec \/ rgnodevec' = Append(rgnodevec, Target)
    BY DEF Next, Step, Done, vars, GetInitNode, StartSearch, SearchFrom, Finish, EnterTooLate, EnterDecided,
         Enter, EnterWith, LeaveDecided, SkipEdge, CloseCycle, CrossEdge, TreeEdge, AfterCall, LeaveOpen,
         CloseOne, CloseRound, FireTo
  <2> QED BY <2>1, <2>2, <2>3
<1>4. /\ DOMAIN obj \subseteq DOMAIN obj'
      /\ \A o \in DOMAIN obj : obj'[o].rg = obj[o].rg /\ obj'[o].ba = obj[o].ba
  <2>1. CASE obj' = obj
    BY <2>1
  <2>2. CASE \E x : obj' = Append(obj, x)
    BY <2>2, <1>2
  <2>3. CASE Enter
    <3>1. obj' = [obj EXCEPT ![Top.obj] = Object(Node.rg, Node.ba, Len(cstack), Len(cstack))]
      BY <2>3 DEF Enter, EnterWith
    <3> QED BY <3>1 DEF Object, Node
  <2>4. CASE CloseCycle
    <3>1. PICK x : obj' = [obj EXCEPT ![Top.obj].lowlink = x]
      BY <2>4 DEF CloseCycle
    <3>2. \A o \in DOMAIN obj : obj[o] \in Objects
      BY <1>2
    <3> QED BY <3>1, <3>2 DEF Objects
  <2>5. CASE AfterCall
    <3>1. PICK x : obj' = [obj EXCEPT ![Top.obj].lowlink = x]
      BY <2>5 DEF AfterCall
    <3>2. \A o \in DOMAIN obj : obj[o] \in Objects
      BY <1>2
    <3> QED BY <3>1, <3>2 DEF Objects
  <2>6. obj' = obj \/ (\E x : obj' = Append(obj, x)) \/ Enter \/ CloseCycle \/ AfterCall
    <3>1. CASE SearchFrom \/ TreeEdge
      BY <3>1 DEF SearchFrom, TreeEdge
    <3>2. CASE ~SearchFrom /\ ~TreeEdge
      BY <3>2 DEF Next, Step, Done, vars, GetInitNode, StartSearch, Finish, EnterTooLate, EnterDecided,
          LeaveDecided, SkipEdge, CrossEdge, LeaveOpen, CloseOne, CloseRound
    <3> QED BY <3>1, <3>2
  <2> QED BY <2>1, <2>2, <2>3, <2>4, <2>5, <2>6
<1>5. \A o \in DOMAIN obj : obj[o].rg \in DOMAIN rgnodevec
  BY DEF TypeInv, NoDangling
<1>6. \A o \in DOMAIN obj : NodeOf(o)' = NodeOf(o)
  BY <1>3, <1>4, <1>5 DEF NodeOf
<1> QED BY <1>1, <1>3, <1>4, <1>6

\* Nor does a step change the product graph.
LEMMA GraphKept ==
  ASSUME TypeInv, [Next]_vars
  PROVE  /\ \A u : Post(u)' = Post(u) /\ EdgesOf(u)' = EdgesOf(u) /\ AcceptingCycleAt(u)' = AcceptingCycleAt(u)
         /\ \A u, e : EdgeTo(u, e)' = EdgeTo(u, e)
         /\ \A S : Reachable(S)' = Reachable(S)
         /\ InitialNodes' = InitialNodes /\ AcceptingLassoFrom(InitialNodes)' = AcceptingLassoFrom(InitialNodes)
<1>1. sys' = sys
  BY NodesKept
<1>2. \A u : Post(u)' = Post(u) /\ EdgesOf(u)' = EdgesOf(u)
  BY <1>1 DEF Post, EdgesOf, FanoutOf
<1>3. \A u, e : EdgeTo(u, e)' = EdgeTo(u, e)
  BY <1>1 DEF EdgeTo, FanoutOf
<1>4. \A S : Reachable(S)' = Reachable(S)
  BY <1>1 DEF Reachable
<1>5. InitialNodes' = InitialNodes
  BY <1>1 DEF InitialNodes, isLabel
<1>6. \A u : AcceptingCycleAt(u)' = AcceptingCycleAt(u)
  BY <1>1 DEF AcceptingCycleAt, Reachable, Post
<1>7. AcceptingLassoFrom(InitialNodes)' = AcceptingLassoFrom(InitialNodes)
  BY <1>1, <1>5 DEF AcceptingLassoFrom, AcceptingCycleAt, Reachable, Post
<1> QED BY <1>2, <1>3, <1>4, <1>5, <1>6, <1>7

\* Quotient and remainder, for the two indexes an edge number stands for.
LEMMA Division ==
  ASSUME NEW x \in Nat, NEW f \in Nat \ {0}
  PROVE  x \div f \in Nat /\ x % f \in 0 .. f - 1 /\ x = (x \div f) * f + (x % f)
OBVIOUS

\* Every successor is the target of an edge Tarjan follows, and no other node is.
LEMMA PostIsEdges ==
  ASSUME TypeInv, NEW u \in ProductNodes
  PROVE  Post(u) = {EdgeTo(u, e) : e \in 0 .. EdgesOf(u) - 1} \cap sys.label
<1> DEFINE F == FanoutOf(u[1])
           arcs == sys.arcs[u[2]]
           succ == sys.succ[u[1]]
           first(e) == IF succ = <<>> THEN u[1] ELSE succ[(e % F) + 1]
           second(e) == arcs[(e \div F) + 1]
<1>1. u[1] \in Markings /\ u[2] \in BAStates
  BY DEF ProductNodes
<1>2. arcs \in Seq(BAStates) /\ succ \in Seq(Markings)
  BY <1>1, SystemFields DEF TypeInv, TypeOK
<1>3. F \in Nat \ {0} /\ F = IF succ = <<>> THEN 1 ELSE Len(succ)
  BY <1>2 DEF FanoutOf
<1>4. Len(arcs) \in Nat /\ DOMAIN arcs = 1 .. Len(arcs) /\ DOMAIN succ = 1 .. Len(succ)
  BY <1>2
<1>5. EdgesOf(u) = Len(arcs) * F /\ \A e : EdgeTo(u, e) = <<first(e), second(e)>>
  BY DEF EdgesOf, EdgeTo
<1>6. Post(u) = (SuccessorsIn(sys, u[1]) \X Entries(arcs)) \cap sys.label
  BY DEF Post, PostIn
<1>7. SuccessorsIn(sys, u[1]) = IF succ = <<>> THEN {u[1]} ELSE Entries(succ)
  BY DEF SuccessorsIn
<1> DEFINE L == Len(arcs)
<1>8. ASSUME NEW e \in 0 .. L * F - 1
      PROVE  <<first(e), second(e)>> \in SuccessorsIn(sys, u[1]) \X Entries(arcs)
  <2>1. e \div F \in 0 .. L - 1 /\ e % F \in 0 .. F - 1
    <3> HIDE DEF F, L
    <3>1. L \in Nat /\ F \in Nat
      BY <1>3, <1>4 DEF L
    <3>2. L * F \in Nat
      BY <3>1
    <3>3. e \in Nat /\ e < L * F
      BY <3>2, <1>8
    <3> QED BY <3>1, <3>3, <1>3, DivMod
  <2>2. (e \div F) + 1 \in DOMAIN arcs
    <3> HIDE DEF F, arcs
    <3> QED BY <2>1, <1>4
  <2>3. succ # <<>> => (e % F) + 1 \in DOMAIN succ
    <3>1. succ # <<>> => F = Len(succ)
      BY <1>3
    <3> HIDE DEF F, succ
    <3> QED BY <2>1, <1>4, <3>1, <1>3
  <2>4. second(e) \in Entries(arcs)
    BY <2>2 DEF Entries
  <2>5. first(e) \in SuccessorsIn(sys, u[1])
    BY <2>3, <1>7 DEF Entries
  <2> QED BY <2>4, <2>5
<1>9. ASSUME NEW m \in SuccessorsIn(sys, u[1]), NEW b \in Entries(arcs)
      PROVE  \E e \in 0 .. L * F - 1 : m = first(e) /\ b = second(e)
  <2>1. PICK i \in DOMAIN arcs : b = arcs[i]
    BY DEF Entries
  <2>2. PICK j \in 1 .. F : IF succ = <<>> THEN m = u[1] ELSE m = succ[j]
    <3>1. CASE succ = <<>>
      <4>1. 1 \in 1 .. F /\ m = u[1]
        BY <3>1, <1>3, <1>7
      <4> QED BY <4>1, <3>1
    <3>2. CASE succ # <<>>
      <4>1. PICK j \in DOMAIN succ : m = succ[j]
        BY <3>2, <1>7 DEF Entries
      <4>2. j \in 1 .. F
        BY <4>1, <3>2, <1>3, <1>4
      <4> QED BY <4>1, <4>2, <3>2
    <3> QED BY <3>1, <3>2
  <2> DEFINE e == (i - 1) * F + (j - 1)
  <2>3. i \in 1 .. L /\ i \in Nat /\ L \in Nat
    BY <1>4, <2>1
  <2>4. e \in 0 .. L * F - 1 /\ e \div F = i - 1 /\ e % F = j - 1
    <3> HIDE DEF F, L, first, second
    <3>1. F \in Nat \ {0} /\ j \in Nat /\ j >= 1 /\ j <= F /\ i >= 1 /\ i <= L
      BY <1>3, <2>2, <2>3
    <3>2. (i - 1) * F \in Nat /\ (i - 1) * F + F <= L * F
      <4>1. L - i \in Nat /\ L = (L - i) + i
        BY <2>3, <3>1
      <4>2. (L - i) * F \in Nat
        BY <4>1, <3>1
      <4>3. L * F = (L - i) * F + i * F
        BY <4>1, <3>1, <2>3
      <4>4. i * F = (i - 1) * F + F /\ (i - 1) * F \in Nat /\ i * F \in Nat
        BY <3>1, <2>3
      <4> QED BY <4>2, <4>3, <4>4, <3>1
    <3>3. L * F \in Nat
      BY <2>3, <3>1
    <3>4. e \in 0 .. L * F - 1
      BY <3>1, <3>2, <3>3
    <3> DEFINE q == e \div F
               r == e % F
    <3>5. q \in Nat /\ r \in 0 .. F - 1 /\ e = q * F + r /\ e \in Nat
      <4>1. e \in Nat
        BY <3>3, <3>4
      <4> HIDE DEF e
      <4> QED BY <4>1, <3>1, Division
    <3>6. (i - 1) * F + (j - 1) = q * F + r
      BY <3>5
    <3> HIDE DEF q, r, e
    <3>7. q = i - 1
      <4>1. ASSUME q >= i PROVE FALSE
        <5>1. q - i \in Nat /\ q = (q - i) + i
          BY <4>1, <3>5, <2>3
        <5>2. q * F = (q - i) * F + i * F /\ (q - i) * F \in Nat
          BY <5>1, <3>1, <2>3
        <5>3. i * F = (i - 1) * F + F
          BY <3>1, <2>3
        <5> QED BY <5>2, <5>3, <3>1, <3>2, <3>5, <3>6
      <4>2. ASSUME q <= i - 2 PROVE FALSE
        <5>1. (i - 1) - q - 1 \in Nat /\ i - 1 = ((i - 1) - q - 1) + q + 1
          BY <4>2, <3>5, <2>3
        <5>2. (i - 1) * F = ((i - 1) - q - 1) * F + q * F + F /\ ((i - 1) - q - 1) * F \in Nat
          BY <5>1, <3>1, <3>5
        <5> QED BY <5>2, <3>1, <3>2, <3>5, <3>6
      <4> QED BY <4>1, <4>2, <3>5, <2>3
    <3>8. r = j - 1
      BY <3>6, <3>7, <3>1, <3>5, <3>2
    <3> QED BY <3>4, <3>7, <3>8 DEF q, r
  <2>5. (e \div F) + 1 = i /\ (e % F) + 1 = j
    <3> HIDE DEF e, F
    <3> QED BY <2>4, <2>3, <2>2
  <2>6. second(e) = b
    BY <2>1, <2>5
  <2>7. first(e) = m
    BY <2>2, <2>5
  <2> QED BY <2>4, <2>6, <2>7
<1> HIDE DEF first, second
<1>10. SuccessorsIn(sys, u[1]) \X Entries(arcs) = {<<first(e), second(e)>> : e \in 0 .. L * F - 1}
  <2> HIDE DEF F, L
  <2>1. ASSUME NEW w \in SuccessorsIn(sys, u[1]) \X Entries(arcs)
        PROVE  w \in {<<first(e), second(e)>> : e \in 0 .. L * F - 1}
    <3>1. PICK m \in SuccessorsIn(sys, u[1]), b \in Entries(arcs) : w = <<m, b>>
      OBVIOUS
    <3> QED BY <3>1, <1>9
  <2> QED BY <2>1, <1>8
<1> QED BY <1>5, <1>6, <1>10

-----------------------------------------------------------------------------
(***************************************************************************)
(* The edges Tarjan follows are the successors, each once.                 *)
(***************************************************************************)
\* The edge the running activation explores, as an edge of its node.
LEMMA EdgeLeads ==
  ASSUME TypeInv, Exploring
  PROVE  /\ NumEdges = EdgesOf(NodeOf(Top.obj))
         /\ Top.edge \in 0 .. EdgesOf(NodeOf(Top.obj)) - 1
         /\ EdgeTo(NodeOf(Top.obj), Top.edge) = <<Target, Dest>>
         /\ isLabel(Target, Dest) => <<Target, Dest>> \in Post(NodeOf(Top.obj))
<1> DEFINE u == NodeOf(Top.obj)
<1>1. frames # <<>> /\ Top.edge < NumEdges
  BY DEF Exploring, Running
<1>2. Top.edge \in Nat /\ Top.obj \in DOMAIN obj
  BY <1>1, TopType DEF Frames
<1>3. u = <<rgnodevec[Node.rg], Node.ba>> /\ u \in ProductNodes
  BY <1>2, NodesInProduct DEF NodeOf, Node
<1>4. FanoutOf(u[1]) = Fanout(Node.rg)
  BY <1>3 DEF FanoutOf, Fanout, Deadlock
<1>5. NumEdges = EdgesOf(u)
  BY <1>3, <1>4 DEF NumEdges, EdgesOf
<1>6. EdgeTo(u, Top.edge) = <<Target, Dest>>
  BY <1>3, <1>4 DEF EdgeTo, Target, Dest, Deadlock
<1> HIDE DEF u
<1>7. EdgesOf(u) \in Int
  <2>1. u[1] \in Markings /\ u[2] \in BAStates
    BY <1>3 DEF ProductNodes
  <2>2. sys.arcs[u[2]] \in Seq(BAStates) /\ sys.succ[u[1]] \in Seq(Markings)
    BY <2>1, SystemFields DEF TypeInv, TypeOK
  <2>3. Len(sys.arcs[u[2]]) \in Nat /\ FanoutOf(u[1]) \in Nat
    BY <2>2 DEF FanoutOf
  <2> QED BY <2>3 DEF EdgesOf
<1>8. Top.edge \in 0 .. EdgesOf(u) - 1
  BY <1>1, <1>2, <1>5, <1>7
<1>9. isLabel(Target, Dest) => <<Target, Dest>> \in Post(u)
  <2>1. Post(u) = {EdgeTo(u, e) : e \in 0 .. EdgesOf(u) - 1} \cap sys.label
    BY <1>3, PostIsEdges
  <2> QED BY <2>1, <1>6, <1>8 DEF isLabel
<1> QED BY <1>5, <1>6, <1>8, <1>9 DEF u

\* Where the activations have their nodes.
LEMMA Positions ==
  ASSUME StacksInv
  PROVE  /\ \A k : Started(k) => /\ PositionOf(k) \in DOMAIN cstack
                                 /\ cstack[PositionOf(k)] = frames[k].obj
         /\ \A k, l : Started(k) /\ Started(l) /\ k < l => PositionOf(k) < PositionOf(l)
         /\ active \subseteq DOMAIN cstack
         /\ \A k : k \in DOMAIN frames /\ k < Len(frames) => Started(k)
         /\ \A p \in DOMAIN cstack : obj[cstack[p]].id + 1 = p
<1>1. \A p \in DOMAIN cstack : obj[cstack[p]].id = p - 1 /\ p \in Nat
  <2>1. cstack \in Seq(DOMAIN obj)
    BY DEF StacksInv, TypeInv, TypeOK
  <2> QED BY <2>1 DEF StacksInv, IdIsPosition
<1>2. \A p \in DOMAIN cstack : obj[cstack[p]].id + 1 = p
  BY <1>1
<1>3. \A k : Started(k) => /\ PositionOf(k) \in DOMAIN cstack
                           /\ cstack[PositionOf(k)] = frames[k].obj
  BY <1>2 DEF StacksInv, CallersAreOpen, Started, PositionOf
<1>4. ASSUME NEW k, NEW l, Started(k), Started(l), k < l
      PROVE  PositionOf(k) < PositionOf(l)
  <2>1. obj[frames[k].obj].id < obj[frames[l].obj].id
    BY <1>4 DEF StacksInv, CallersAreOpen, Started
  <2>2. \A j \in DOMAIN frames : obj[frames[j].obj].id \in Nat
    <3>1. \A j \in DOMAIN frames : frames[j].obj \in DOMAIN obj
      BY DEF StacksInv, TypeInv, TypeOK
    <3>2. \A o \in DOMAIN obj : obj[o] \in Objects
      BY DEF StacksInv, TypeInv, TypeOK
    <3> QED BY <3>1, <3>2 DEF Objects
  <2> QED BY <1>4, <2>1, <2>2 DEF PositionOf, Started
<1>5. active \subseteq DOMAIN cstack
  BY <1>3 DEF active
<1>6. \A k : k \in DOMAIN frames /\ k < Len(frames) => Started(k)
  BY DEF StacksInv, Suspended, Started
<1> QED BY <1>2, <1>3, <1>4, <1>5, <1>6

\* The running activation, past its push, is the highest.
LEMMA TopPosition ==
  ASSUME StacksInv, frames # <<>>, Top.pc # "enter"
  PROVE  /\ Len(frames) \in DOMAIN frames /\ Started(Len(frames)) /\ top = PositionOf(Len(frames))
         /\ top \in active /\ top \in DOMAIN cstack /\ cstack[top] = Top.obj
         /\ \A a \in active : a <= top
         /\ path[top] = NodeOf(Top.obj) /\ lowlinks[top] = Node.lowlink
         /\ \A p \in DOMAIN cstack : cstack[p] = Top.obj => p = top
<1>1. Len(frames) \in DOMAIN frames /\ Top = frames[Len(frames)]
  BY TopType DEF StacksInv
<1>2. Started(Len(frames)) /\ top = PositionOf(Len(frames))
  BY <1>1 DEF Started, top, PositionOf, Node
<1>3. top \in active
  BY <1>1, <1>2 DEF active
<1>4. top \in DOMAIN cstack /\ cstack[top] = Top.obj
  BY <1>1, <1>2, Positions
<1>5. ASSUME NEW a \in active PROVE a <= top
  <2>1. PICK k \in DOMAIN frames : Started(k) /\ a = PositionOf(k)
    BY DEF active
  <2>2. k = Len(frames) \/ k < Len(frames)
    <3>1. frames \in Seq(Frames)
      BY DEF StacksInv, TypeInv, TypeOK
    <3> DEFINE n == Len(frames)
    <3>2. n \in Nat /\ DOMAIN frames = 1 .. n
      BY <3>1
    <3> HIDE DEF n
    <3>3. k = n \/ k < n
      BY <3>2
    <3> QED BY <3>3 DEF n
  <2>3. CASE k = Len(frames)
    <3>1. a = top
      BY <2>1, <2>3, <1>2
    <3>2. cstack \in Seq(DOMAIN obj)
      BY DEF StacksInv, TypeInv, TypeOK
    <3>3. top \in Nat
      BY <1>4, <3>2
    <3> QED BY <3>1, <3>3
  <2>4. CASE k < Len(frames)
    <3>1. a < top
      BY <2>1, <2>4, <1>2, Positions
    <3>2. cstack \in Seq(DOMAIN obj) /\ a \in DOMAIN cstack
      BY Positions DEF StacksInv, TypeInv, TypeOK
    <3>3. a \in Nat /\ top \in Nat
      BY <1>4, <3>2
    <3> QED BY <3>1, <3>3
  <2> QED BY <2>2, <2>3, <2>4
<1>6. path[top] = NodeOf(Top.obj) /\ lowlinks[top] = Node.lowlink
  BY <1>4 DEF path, lowlinks, Node
<1>7. \A p \in DOMAIN cstack : cstack[p] = Top.obj => p = top
  BY Positions DEF top, Node
<1> QED BY <1>1, <1>2, <1>3, <1>4, <1>5, <1>6, <1>7

\* The caller of an activation that is just entered is the highest started one.
LEMMA CallerPosition ==
  ASSUME StacksInv, frames # <<>>, Top.pc = "enter", Len(frames) > 1
  PROVE  \E c \in active :
           /\ c = PositionOf(Len(frames) - 1) /\ Started(Len(frames) - 1)
           /\ \A a \in active : a <= c
           /\ path[c] = NodeOf(frames[Len(frames) - 1].obj)
<1> DEFINE n == Len(frames)
           c == PositionOf(n - 1)
<1>1. n \in Nat /\ n > 1 /\ DOMAIN frames = 1 .. n /\ Top = frames[n]
  BY DEF StacksInv, TypeInv, TypeOK, Top, Last
<1> HIDE DEF n
<1>2. n - 1 \in DOMAIN frames /\ n - 1 < n
  BY <1>1
<1>3. Started(n - 1) /\ ~Started(n)
  BY <1>1, <1>2, Positions DEF Started, n
<1>4. c \in active
  BY <1>2, <1>3 DEF active
<1>5. c \in DOMAIN cstack /\ cstack[c] = frames[n - 1].obj
  BY <1>3, Positions
<1>6. ASSUME NEW a \in active PROVE a <= c
  <2>1. PICK k \in DOMAIN frames : Started(k) /\ a = PositionOf(k)
    BY DEF active
  <2>2. k = n - 1 \/ k < n - 1
    BY <1>1, <1>3, <2>1
  <2>3. \A p \in DOMAIN cstack : p \in Nat
    <3>1. cstack \in Seq(DOMAIN obj)
      BY DEF StacksInv, TypeInv, TypeOK
    <3> QED BY <3>1
  <2>4. CASE k = n - 1
    BY <2>1, <2>3, <2>4, <1>5
  <2>5. CASE k < n - 1
    <3>1. a < c /\ a \in DOMAIN cstack
      BY <2>1, <2>5, <1>3, Positions
    <3> QED BY <3>1, <2>3, <1>5
  <2> QED BY <2>2, <2>4, <2>5
<1>7. path[c] = NodeOf(frames[n - 1].obj)
  BY <1>5 DEF path
<1> QED BY <1>3, <1>4, <1>6, <1>7 DEF n

\* All edges of a node without an activation have been followed.
LEMMA FoundAll ==
  ASSUME StacksInv, NEW p \in DOMAIN cstack, p \notin active
  PROVE  found[p] = Post(path[p])
<1>1. path[p] = NodeOf(cstack[p]) /\ path[p] \in ProductNodes
  <2>1. cstack[p] \in DOMAIN obj
    BY DEF StacksInv, TypeInv, TypeOK
  <2> QED BY <2>1, NodesInProduct DEF path, StacksInv
<1>2. \A k \in DOMAIN frames : ~(Started(k) /\ frames[k].obj = cstack[p])
  BY Positions DEF active, PositionOf
<1>3. EdgesFollowed(p) = 0 .. EdgesOf(path[p]) - 1
  BY <1>1, <1>2 DEF EdgesFollowed
<1>4. found[p] = {EdgeTo(path[p], e) : e \in EdgesFollowed(p)} \cap sys.label
  BY <1>1 DEF found
<1>5. Post(path[p]) = {EdgeTo(path[p], e) : e \in 0 .. EdgesOf(path[p]) - 1} \cap sys.label
  BY <1>1, PostIsEdges DEF StacksInv
<1> QED BY <1>3, <1>4, <1>5

\* Nor is any edge left once the loops of the running activation are through.
LEMMA FoundAtTop ==
  ASSUME StacksInv, Explored
  PROVE  found[top] = Post(path[top])
<1>1. frames # <<>> /\ Top.pc = "loop" /\ Top.edge >= NumEdges
  BY DEF Explored, Running
<1>2. /\ top \in DOMAIN cstack /\ cstack[top] = Top.obj /\ path[top] = NodeOf(Top.obj)
      /\ Len(frames) \in DOMAIN frames /\ Top = frames[Len(frames)] /\ Top \in Frames
      /\ Top.obj \in DOMAIN obj
  BY <1>1, TopPosition, TopType DEF StacksInv
<1>3. path[top] \in ProductNodes /\ path[top] = <<rgnodevec[Node.rg], Node.ba>>
  BY <1>2, NodesInProduct DEF StacksInv, NodeOf, Node
<1>4. NumEdges = EdgesOf(path[top])
  BY <1>3 DEF NumEdges, EdgesOf, FanoutOf, Fanout, Deadlock
<1>5. \A k \in DOMAIN frames : Started(k) /\ frames[k].obj = cstack[top] => k = Len(frames)
  <2> DEFINE n == Len(frames)
  <2>1. n \in Nat /\ DOMAIN frames = 1 .. n
    BY DEF StacksInv, TypeInv, TypeOK
  <2>2. Started(n) /\ PositionOf(n) = top
    BY <1>1, TopPosition
  <2>3. top \in Nat
    <3>1. cstack \in Seq(DOMAIN obj)
      BY DEF StacksInv, TypeInv, TypeOK
    <3> QED BY <3>1, <1>2
  <2> HIDE DEF n
  <2>4. ASSUME NEW k \in DOMAIN frames, Started(k), frames[k].obj = cstack[top], k # n PROVE FALSE
    <3>1. k < n
      BY <2>1, <2>4
    <3>2. PositionOf(k) < top
      BY <3>1, <2>2, <2>4, Positions
    <3>3. PositionOf(k) = top
      BY <2>4, <1>2, Positions DEF PositionOf
    <3> QED BY <3>2, <3>3, <2>3
  <2> QED BY <2>4 DEF n
<1>6. EdgesOf(path[top]) \in Int
  <2>1. Len(sys.arcs[path[top][2]]) \in Nat /\ FanoutOf(path[top][1]) \in Nat
    <3>1. path[top][1] \in Markings /\ path[top][2] \in BAStates
      BY <1>3 DEF ProductNodes
    <3>2. sys.arcs[path[top][2]] \in Seq(BAStates) /\ sys.succ[path[top][1]] \in Seq(Markings)
      BY <3>1, SystemFields DEF StacksInv, TypeInv, TypeOK
    <3> QED BY <3>2 DEF FanoutOf
  <2> QED BY <2>1 DEF EdgesOf
<1>7. ASSUME NEW e \in 0 .. EdgesOf(path[top]) - 1 PROVE e < Top.edge
  <2>1. Top.edge \in Nat
    BY <1>2 DEF Frames
  <2> QED BY <2>1, <1>1, <1>4, <1>6
<1>8. EdgesFollowed(top) = 0 .. EdgesOf(path[top]) - 1
  BY <1>2, <1>5, <1>7 DEF EdgesFollowed
<1>9. found[top] = {EdgeTo(path[top], e) : e \in EdgesFollowed(top)} \cap sys.label
  BY <1>2 DEF found
<1>10. Post(path[top]) = {EdgeTo(path[top], e) : e \in 0 .. EdgesOf(path[top]) - 1} \cap sys.label
  BY <1>3, PostIsEdges DEF StacksInv
<1> QED BY <1>8, <1>9, <1>10

-----------------------------------------------------------------------------
(***************************************************************************)
(* The stack, its active nodes and what has been found, step by step.      *)
(***************************************************************************)
\* Only Enter numbers a node, only CloseCycle and AfterCall lower a lowlink.
LEMMA ObjectsKept ==
  ASSUME StacksInv, [Next]_vars, ~Enter
  PROVE  /\ \A o \in DOMAIN obj : obj'[o].id = obj[o].id
         /\ ~CloseCycle /\ ~AfterCall => \A o \in DOMAIN obj : obj'[o] = obj[o]
<1>1. obj \in Seq(Objects)
  BY DEF StacksInv, TypeInv, TypeOK
<1>2. CASE CloseCycle \/ AfterCall
  <2>1. PICK x : obj' = [obj EXCEPT ![Top.obj].lowlink = x]
    BY <1>2 DEF CloseCycle, AfterCall
  <2>2. \A o \in DOMAIN obj : obj[o] \in Objects
    BY <1>1
  <2> QED BY <2>1, <2>2, <1>2 DEF Objects
<1>3. CASE ~CloseCycle /\ ~AfterCall
  <2>1. obj' = obj \/ \E x : obj' = Append(obj, x)
    <3>1. CASE SearchFrom \/ TreeEdge
      BY <3>1 DEF SearchFrom, TreeEdge
    <3>2. CASE ~SearchFrom /\ ~TreeEdge
      BY <3>2, <1>3 DEF Next, Step, Done, vars, GetInitNode, StartSearch, Finish, EnterTooLate, EnterDecided,
          LeaveDecided, SkipEdge, CrossEdge, LeaveOpen, CloseOne, CloseRound
    <3> QED BY <3>1, <3>2
  <2>2. CASE obj' = obj
    BY <2>2
  <2>3. CASE \E x : obj' = Append(obj, x)
    BY <2>3, <1>1
  <2> QED BY <2>1, <2>2, <2>3
<1> QED BY <1>2, <1>3

\* What stays of the stack when cstack does.
LEMMA PathKept ==
  ASSUME StacksInv, [Next]_vars, cstack' = cstack
  PROVE  /\ path' = path /\ accepting' = accepting
         /\ ~Enter /\ ~CloseCycle /\ ~AfterCall => lowlinks' = lowlinks
<1>1. \A p \in DOMAIN cstack : cstack[p] \in DOMAIN obj
  BY DEF StacksInv, TypeInv, TypeOK
<1>2. sys' = sys /\ \A o \in DOMAIN obj : obj'[o].ba = obj[o].ba /\ NodeOf(o)' = NodeOf(o)
  BY NodesKept DEF StacksInv
<1>3. \A p \in DOMAIN cstack : NodeOf(cstack[p])' = NodeOf(cstack[p])
  BY <1>1, <1>2 DEF NodeOf
<1>4. path' = path
  BY <1>3 DEF path
<1>5. accepting' = accepting
  BY <1>1, <1>2 DEF accepting
<1>6. ASSUME ~Enter, ~CloseCycle, ~AfterCall PROVE lowlinks' = lowlinks
  BY <1>1, <1>6, ObjectsKept DEF lowlinks
<1> QED BY <1>4, <1>5, <1>6

\* The closed nodes change with the hash table only.
LEMMA ClosedKept ==
  ASSUME StacksInv, [Next]_vars, h' = h
  PROVE  closed' = closed
<1>1. \A o \in h : NodeOf(o)' = NodeOf(o)
  BY NodesKept DEF StacksInv, TypeInv, TypeOK
<1> QED BY <1>1 DEF closed

\* What stays of the activations when the frames keep their nodes and pcs.
LEMMA ActiveKept ==
  ASSUME StacksInv, [Next]_vars, ~Enter,
         \A k : Started(k)' <=> Started(k),
         \A k : Started(k) => frames'[k].obj = frames[k].obj
  PROVE  active' = active /\ \A k : Started(k) => PositionOf(k)' = PositionOf(k)
<1>1. \A k : Started(k) => PositionOf(k)' = PositionOf(k)
  <2>1. \A k \in DOMAIN frames : frames[k].obj \in DOMAIN obj
    BY DEF StacksInv, TypeInv, TypeOK
  <2> QED BY <2>1, ObjectsKept DEF PositionOf, Started
<1>2. active = {PositionOf(k) : k \in {l \in DOMAIN frames : Started(l)}}
  BY DEF active
<1>3. active' = {PositionOf(k)' : k \in {l \in DOMAIN frames' : Started(l)'}}
  BY DEF active
<1>4. \A k : Started(k) => k \in DOMAIN frames
  BY DEF Started
<1>5. \A k : Started(k)' => k \in DOMAIN frames'
  BY DEF Started
<1> QED BY <1>1, <1>2, <1>3, <1>4, <1>5

\* The running activation goes on to its next edge.
LEMMA AdvanceViews ==
  ASSUME StacksInv, [Next]_vars, ~Enter, frames # <<>>, Top.pc # "enter", NextEdge,
         cstack' = cstack, h' = h,
         Top.edge \in 0 .. EdgesOf(path[top]) - 1
  PROVE  /\ path' = path /\ accepting' = accepting /\ closed' = closed /\ active' = active
         /\ top' = top /\ frames' # <<>> /\ Len(frames') = Len(frames)
         /\ Top'.pc = "loop" /\ Top'.obj = Top.obj /\ Top'.edge = Top.edge + 1
         /\ frames'[1].obj = frames[1].obj
         /\ DOMAIN found = DOMAIN path /\ DOMAIN found' = DOMAIN path
         /\ found'[top] = found[top] \cup ({EdgeTo(path[top], Top.edge)} \cap sys.label)
         /\ \A p \in DOMAIN path : p # top => found'[p] = found[p] /\ lowlinks'[p] = lowlinks[p]
<1>0. PICK n \in Nat, t \in Nat : n = Len(frames) /\ t = top
  <2>1. Len(frames) \in Nat /\ cstack \in Seq(DOMAIN obj)
    BY DEF StacksInv, TypeInv, TypeOK
  <2>2. top \in DOMAIN cstack
    BY TopPosition
  <2>3. top \in Nat
    BY <2>1, <2>2
  <2> QED BY <2>1, <2>3
<1>1. n \in Nat /\ n > 0 /\ DOMAIN frames = 1 .. n /\ Top = frames[n] /\ frames \in Seq(Frames)
  BY <1>0 DEF StacksInv, TypeInv, TypeOK, Top, Last
<1>1a. Started(n) /\ PositionOf(n) = t
  BY <1>0, TopPosition
<1>2. /\ DOMAIN frames' = 1 .. n /\ Len(frames') = n
      /\ frames'[n] = Frame(Top.obj, "loop", Top.edge + 1, 0)
      /\ \A k \in 1 .. n : k # n => frames'[k] = frames[k]
  <2> DEFINE f == Frame(Top.obj, "loop", Top.edge + 1, 0)
  <2>1. Continue(f)
    BY DEF NextEdge
  <2>2. f \in Frames
    BY TopType DEF Frame, Frames, StacksInv
  <2> HIDE DEF f
  <2>3. frames' \in Seq(Frames) /\ DOMAIN frames' = 1 .. n /\ frames'[n] = f
        /\ \A k \in 1 .. n : k # n => frames'[k] = frames[k]
    BY <2>1, <2>2, <1>0, <1>1, ContinueType DEF StacksInv
  <2> QED BY <2>3, <1>1 DEF f
<1>3. Top' = frames'[n] /\ frames' # <<>>
  BY <1>1, <1>2 DEF Top, Last
<1>4. Top'.pc = "loop" /\ Top'.obj = Top.obj /\ Top'.edge = Top.edge + 1
  BY <1>2, <1>3 DEF Frame
<1>5. \A k \in 1 .. n : frames'[k].obj = frames[k].obj /\ (frames'[k].pc # "enter" <=> frames[k].pc # "enter")
  BY <1>1, <1>2, <1>3, <1>4
<1>6. \A k : Started(k)' <=> Started(k)
  BY <1>1, <1>2, <1>5 DEF Started
<1>7. \A k : Started(k) => frames'[k].obj = frames[k].obj
  BY <1>1, <1>5 DEF Started
<1>8. active' = active
  BY <1>6, <1>7, ActiveKept
<1>9. path' = path /\ accepting' = accepting /\ closed' = closed
  BY PathKept, ClosedKept
<1>10. top' = top
  <2>1. Top.obj \in DOMAIN obj
    BY TopType DEF StacksInv
  <2> QED BY <2>1, <1>4, ObjectsKept DEF top, Node
<1>11. 1 \in 1 .. n
  BY <1>1
<1>12. /\ \A p \in DOMAIN cstack : cstack[p] \in DOMAIN obj /\ NodeOf(cstack[p]) = path[p]
       /\ DOMAIN path = DOMAIN cstack
  BY DEF path, StacksInv, TypeInv, TypeOK
<1>13. \A p \in DOMAIN cstack : NodeOf(cstack[p])' = path[p]
  BY <1>9, <1>12 DEF path
<1>14. t \in DOMAIN cstack /\ cstack[t] = Top.obj /\ \A p \in DOMAIN cstack : cstack[p] = Top.obj => p = t
  BY <1>0, TopPosition
<1>15. \A u : EdgesOf(u)' = EdgesOf(u)
  BY GraphKept DEF StacksInv
<1> DEFINE Before(p, e) == \A k \in 1 .. n : Started(k) /\ frames[k].obj = cstack[p] => e < frames[k].edge
<1>16. \A p \in DOMAIN cstack : /\ EdgesFollowed(p) = {e \in 0 .. EdgesOf(path[p]) - 1 : Before(p, e)}
                                /\ EdgesFollowed(p)' = {e \in 0 .. EdgesOf(path[p]) - 1 : Before(p, e)'}
  BY <1>1, <1>2, <1>12, <1>13, <1>15 DEF EdgesFollowed
<1>17. ASSUME NEW p \in DOMAIN cstack, p # t PROVE EdgesFollowed(p)' = EdgesFollowed(p)
  <2>1. \A k \in 1 .. n : frames[k].obj = cstack[p] => k # n
    BY <1>1, <1>14, <1>17
  <2>2. \A e : Before(p, e)' <=> Before(p, e)
    BY <2>1, <1>2, <1>5, <1>6
  <2> HIDE DEF Before
  <2> QED BY <2>2, <1>16
<1>18. EdgesFollowed(t)' = EdgesFollowed(t) \cup {Top.edge}
  <2>1. ASSUME NEW k \in 1 .. n, Started(k), frames[k].obj = cstack[t], k # n PROVE FALSE
    <3>1. k < n
      BY <1>1, <2>1
    <3>2. PositionOf(k) < t
      BY <3>1, <2>1, <1>1a, Positions
    <3>3. PositionOf(k) = t
      BY <2>1, <1>14, Positions DEF PositionOf
    <3> QED BY <3>2, <3>3
  <2>2. n \in 1 .. n /\ Started(n)' /\ frames[n].obj = cstack[t] /\ frames'[n].obj = cstack[t]
    BY <1>1, <1>1a, <1>5, <1>6, <1>14
  <2>3. frames[n].edge = Top.edge /\ frames'[n].edge = Top.edge + 1
    BY <1>1, <1>3, <1>4
  <2>4. \A e : Before(t, e) <=> e < Top.edge
    BY <2>1, <2>2, <2>3, <1>1a
  <2>5. \A e : Before(t, e)' <=> e < Top.edge + 1
    BY <2>1, <2>2, <2>3, <1>5, <1>6
  <2> HIDE DEF Before
  <2>6. \A e \in 0 .. EdgesOf(path[t]) - 1 : e < Top.edge + 1 <=> e < Top.edge \/ e = Top.edge
    BY <1>0
  <2>7. Top.edge \in 0 .. EdgesOf(path[t]) - 1
    BY <1>0
  <2> QED BY <2>4, <2>5, <2>6, <2>7, <1>14, <1>16
<1> HIDE DEF Before
<1>19. \A p \in DOMAIN cstack : found[p] = {EdgeTo(path[p], e) : e \in EdgesFollowed(p)} \cap sys.label
  BY <1>12 DEF found
<1>20. \A p \in DOMAIN cstack : found'[p] = {EdgeTo(path[p], e) : e \in EdgesFollowed(p)'} \cap sys.label
  <2>1. \A u, e : EdgeTo(u, e)' = EdgeTo(u, e)
    BY GraphKept DEF StacksInv
  <2>2. sys' = sys
    BY NodesKept DEF StacksInv
  <2> QED BY <2>1, <2>2, <1>13 DEF found
<1>21. \A p \in DOMAIN cstack : p # t => found'[p] = found[p]
  BY <1>17, <1>19, <1>20
<1>22. found'[t] = found[t] \cup ({EdgeTo(path[t], Top.edge)} \cap sys.label)
  <2> DEFINE E(S) == {EdgeTo(path[t], e) : e \in S}
  <2>1. \A S : E(S \cup {Top.edge}) = E(S) \cup {EdgeTo(path[t], Top.edge)}
    OBVIOUS
  <2>2. found[t] = E(EdgesFollowed(t)) \cap sys.label
    BY <1>14, <1>19
  <2>3. found'[t] = E(EdgesFollowed(t) \cup {Top.edge}) \cap sys.label
    BY <1>14, <1>18, <1>20
  <2> HIDE DEF E
  <2> QED BY <2>1, <2>2, <2>3
<1>23. DOMAIN found = DOMAIN path /\ DOMAIN found' = DOMAIN path
  BY <1>12 DEF found
<1>24. \A p \in DOMAIN cstack : p # t => lowlinks'[p] = lowlinks[p]
  <2>1. \A o \in DOMAIN obj : o # Top.obj => obj'[o] = obj[o]
    <3>1. CASE CloseCycle \/ AfterCall
      <4>1. PICK x : obj' = [obj EXCEPT ![Top.obj].lowlink = x]
        BY <3>1 DEF CloseCycle, AfterCall
      <4> QED BY <4>1
    <3>2. CASE ~CloseCycle /\ ~AfterCall
      BY <3>2, ObjectsKept
    <3> QED BY <3>1, <3>2
  <2> QED BY <2>1, <1>12, <1>14 DEF lowlinks
<1>25. frames'[1].obj = frames[1].obj
  BY <1>5, <1>11
<1> QED BY <1>0, <1>2, <1>3, <1>4, <1>8, <1>9, <1>10, <1>12, <1>21, <1>22, <1>23, <1>24, <1>25

\* What has been found changes with the edges followed and the stack only.
LEMMA FoundKept ==
  ASSUME StacksInv, [Next]_vars, DOMAIN cstack' \subseteq DOMAIN cstack,
         \A p \in DOMAIN cstack' : cstack'[p] = cstack[p] /\ EdgesFollowed(p)' = EdgesFollowed(p)
  PROVE  /\ DOMAIN found' = DOMAIN cstack' /\ DOMAIN found = DOMAIN cstack
         /\ \A p \in DOMAIN cstack' : found'[p] = found[p]
<1>1. \A u, e : EdgeTo(u, e)' = EdgeTo(u, e)
  BY GraphKept DEF StacksInv
<1>2. sys' = sys
  BY NodesKept DEF StacksInv
<1>3. \A o \in DOMAIN obj : NodeOf(o)' = NodeOf(o)
  BY NodesKept DEF StacksInv
<1>4. \A p \in DOMAIN cstack : cstack[p] \in DOMAIN obj
  BY DEF StacksInv, TypeInv, TypeOK
<1>5. ASSUME NEW p \in DOMAIN cstack' PROVE found'[p] = found[p]
  <2>1. p \in DOMAIN cstack /\ NodeOf(cstack[p])' = NodeOf(cstack[p])
    <3>1. p \in DOMAIN cstack /\ cstack[p] \in DOMAIN obj /\ cstack'[p] = cstack[p]
      BY <1>4, <1>5
    <3> QED BY <3>1, <1>3 DEF NodeOf
  <2>2. found[p] = {EdgeTo(NodeOf(cstack[p]), e) : e \in EdgesFollowed(p)} \cap sys.label
    BY <2>1 DEF found
  <2>3. found'[p] = {EdgeTo(NodeOf(cstack[p]), e)' : e \in EdgesFollowed(p)'} \cap sys.label
    BY <1>2, <1>5 DEF found
  <2>4. \A e : EdgeTo(NodeOf(cstack[p]), e)' = EdgeTo(NodeOf(cstack[p]), e)
    BY <1>2, <2>1 DEF EdgeTo, FanoutOf
  <2> QED BY <2>2, <2>3, <2>4, <1>5
<1>6. DOMAIN found' = DOMAIN cstack' /\ DOMAIN found = DOMAIN cstack
  BY DEF found
<1> QED BY <1>5, <1>6

\* The edges followed do not change when the activations keep their edges.
LEMMA FollowedKept ==
  ASSUME StacksInv, [Next]_vars, NEW p, p \in DOMAIN cstack, p \in DOMAIN cstack', cstack'[p] = cstack[p],
         \A k : Started(k) /\ frames[k].obj = cstack[p] =>
                Started(k)' /\ frames'[k].obj = cstack[p] /\ frames'[k].edge = frames[k].edge,
         \A k : Started(k)' /\ frames'[k].obj = cstack[p] =>
                Started(k) /\ frames[k].obj = cstack[p] /\ frames'[k].edge = frames[k].edge
  PROVE  EdgesFollowed(p)' = EdgesFollowed(p)
<1>1. \A u : EdgesOf(u)' = EdgesOf(u)
  BY GraphKept DEF StacksInv
<1>2. NodeOf(cstack[p])' = NodeOf(cstack[p])
  <2>1. cstack[p] \in DOMAIN obj
    BY DEF StacksInv, TypeInv, TypeOK
  <2>2. \A o \in DOMAIN obj : NodeOf(o)' = NodeOf(o)
    BY NodesKept DEF StacksInv
  <2> QED BY <2>1, <2>2 DEF NodeOf
<1>3. EdgesOf(NodeOf(cstack[p]))' = EdgesOf(NodeOf(cstack[p]))
  BY <1>2, NodesKept DEF StacksInv, EdgesOf, FanoutOf
<1> DEFINE Before(e) == \A k \in DOMAIN frames : Started(k) /\ frames[k].obj = cstack[p] => e < frames[k].edge
<1>4. \A e : Before(e)' <=> Before(e)
  <2>1. \A k : Started(k) => k \in DOMAIN frames
    BY DEF Started
  <2>2. \A k : Started(k)' => k \in DOMAIN frames'
    BY DEF Started
  <2> QED BY <2>1, <2>2
<1>5. EdgesFollowed(p) = {e \in 0 .. EdgesOf(NodeOf(cstack[p])) - 1 : Before(e)}
  BY DEF EdgesFollowed
<1>6. EdgesFollowed(p)' = {e \in 0 .. EdgesOf(NodeOf(cstack[p]))' - 1 : Before(e)'}
  BY DEF EdgesFollowed
<1> HIDE DEF Before
<1> QED BY <1>3, <1>4, <1>5, <1>6

\* A tree edge suspends the activation and starts one on a new object; the stack
\* stays as it is.
LEMMA TreeViews ==
  ASSUME StacksInv, [Next]_vars, TreeEdge
  PROVE  /\ path' = path /\ accepting' = accepting /\ closed' = closed /\ active' = active
         /\ lowlinks' = lowlinks /\ found' = found
         /\ ~Enter /\ Len(frames) \in Nat \ {0} /\ Len(frames') = Len(frames) + 1
         /\ DOMAIN frames = 1 .. Len(frames) /\ DOMAIN frames' = 1 .. Len(frames) + 1
         /\ Top' = Frame(Len(obj) + 1, "enter", 0, 0) /\ frames' # <<>>
         /\ frames'[Len(frames)] = Frame(Top.obj, "call", Top.edge, Len(obj) + 1)
         /\ frames'[Len(frames) + 1] = Top'
         /\ \A k \in DOMAIN frames : k # Len(frames) => frames'[k] = frames[k]
<1>0. PICK n \in Nat : n = Len(frames)
  BY DEF StacksInv, TypeInv, TypeOK
<1>1. /\ frames # <<>> /\ Top.pc = "loop" /\ UNCHANGED <<cstack, h>>
  BY DEF TreeEdge, Exploring, Running
<1>2. n > 0 /\ DOMAIN frames = 1 .. n /\ Top = frames[n] /\ frames \in Seq(Frames) /\ Top \in Frames
  BY <1>0, <1>1, TopType DEF StacksInv, TypeInv, TypeOK, Top, Last
<1>3. ~Enter
  BY <1>1 DEF Enter, EnterWith, Running
<1> DEFINE new == Len(obj) + 1
           f == Frame(Top.obj, "call", Top.edge, new)
           g == Frame(new, "enter", 0, 0)
           fs == [frames EXCEPT ![n] = f]
<1>4. frames' = Append(fs, g)
  BY <1>0 DEF TreeEdge, Call
<1>5. f \in Frames /\ g \in Frames
  BY <1>2 DEF Frame, Frames, StacksInv, TypeInv, TypeOK
<1> HIDE DEF f, g
<1>6. fs \in Seq(Frames) /\ Len(fs) = n /\ fs[n] = f /\ \A k \in 1 .. n : k # n => fs[k] = frames[k]
  BY <1>2, <1>5
<1> HIDE DEF fs
<1>7. /\ DOMAIN frames' = 1 .. n + 1 /\ Len(frames') = n + 1 /\ frames' # <<>>
      /\ frames'[n] = f /\ frames'[n + 1] = g
      /\ \A k \in 1 .. n : k # n => frames'[k] = frames[k]
  BY <1>2, <1>4, <1>5, <1>6
<1>8. Top' = g
  BY <1>7 DEF Top, Last
<1>9. \A k : Started(k)' <=> Started(k)
  BY <1>1, <1>2, <1>7 DEF Started, Frame, f, g
<1>10. \A k : Started(k) => frames'[k].obj = frames[k].obj /\ frames'[k].edge = frames[k].edge
  BY <1>1, <1>2, <1>7 DEF Started, Frame, f, g
<1>11. active' = active
  BY <1>3, <1>9, <1>10, ActiveKept
<1>12. lowlinks' = lowlinks
  <2>1. obj \in Seq(Objects) /\ \A p \in DOMAIN cstack : cstack[p] \in DOMAIN obj
    BY DEF StacksInv, TypeInv, TypeOK
  <2>2. \A o \in DOMAIN obj : obj'[o] = obj[o]
    BY <2>1 DEF TreeEdge
  <2> QED BY <2>1, <2>2, <1>1 DEF lowlinks
<1>13. path' = path /\ accepting' = accepting /\ lowlinks' = lowlinks /\ closed' = closed
  BY <1>1, <1>3, <1>12, PathKept, ClosedKept
<1>14. \A p \in DOMAIN cstack : EdgesFollowed(p)' = EdgesFollowed(p)
  <2> TAKE p \in DOMAIN cstack
  <2> QED BY <1>1, <1>9, <1>10, FollowedKept
<1>15. found' = found
  <2>1. /\ DOMAIN found' = DOMAIN cstack /\ DOMAIN found = DOMAIN cstack
        /\ \A p \in DOMAIN cstack : found'[p] = found[p]
    BY <1>1, <1>14, FoundKept
  <2>2. found' = [p \in DOMAIN found' |-> found'[p]] /\ found = [p \in DOMAIN found |-> found[p]]
    BY DEF found
  <2> QED BY <2>1, <2>2
<1> QED BY <1>0, <1>2, <1>3, <1>7, <1>8, <1>11, <1>13, <1>15 DEF f, g

\* A node left open stays on the stack; its activation is over.
LEMMA LeaveViews ==
  ASSUME StacksInv, [Next]_vars, LeaveOpen
  PROVE  /\ path' = path /\ accepting' = accepting /\ closed' = closed
         /\ active' = active \ {top}
         /\ lowlinks' = lowlinks /\ found' = found
<1>0. PICK n \in Nat, t \in Nat : n = Len(frames) /\ t = top
  <2>1. Len(frames) \in Nat /\ cstack \in Seq(DOMAIN obj)
    BY DEF StacksInv, TypeInv, TypeOK
  <2>2. top \in DOMAIN cstack
    BY TopPosition DEF LeaveOpen, Explored, Running
  <2> QED BY <2>1, <2>2
<1>1. /\ frames # <<>> /\ Top.pc = "loop" /\ UNCHANGED <<cstack, h, obj>> /\ Return /\ Explored
  BY DEF LeaveOpen, Explored, Running
<1>2. n > 0 /\ DOMAIN frames = 1 .. n /\ Top = frames[n] /\ frames \in Seq(Frames)
  BY <1>0, <1>1 DEF StacksInv, TypeInv, TypeOK, Top, Last
<1>3. ~Enter
  BY <1>1 DEF Enter, EnterWith, Running
<1>4. DOMAIN frames' = 1 .. n - 1 /\ \A k \in 1 .. n - 1 : frames'[k] = frames[k]
  BY <1>0, <1>2, <1>1 DEF Return, Front
<1>5. \A k : Started(k)' <=> Started(k) /\ k # n
  BY <1>2, <1>4 DEF Started
<1>6. \A k : Started(k)' => frames'[k] = frames[k]
  BY <1>4 DEF Started
<1>7. t \in DOMAIN cstack /\ cstack[t] = Top.obj /\ Started(n) /\ PositionOf(n) = t
  BY <1>0, <1>1, TopPosition
<1>8. \A k : Started(k) /\ k # n => k < n /\ PositionOf(k) < t
  <2>1. \A k : Started(k) /\ k # n => k < n
    BY <1>2 DEF Started
  <2> QED BY <2>1, <1>7, Positions
<1>9. active' = active \ {t}
  <2>1. \A k : Started(k) /\ k # n => PositionOf(k)' = PositionOf(k)
    BY <1>1, <1>5, <1>6 DEF PositionOf
  <2>2. active = {PositionOf(k) : k \in {l \in DOMAIN frames : Started(l)}}
    BY DEF active
  <2>3. active' = {PositionOf(k)' : k \in {l \in DOMAIN frames' : Started(l)'}}
    BY DEF active
  <2>4. \A k : Started(k) => k \in DOMAIN frames
    BY DEF Started
  <2>5. \A k : Started(k)' => k \in DOMAIN frames'
    BY DEF Started
  <2>6. \A k : Started(k) /\ k # n => PositionOf(k) # t
    BY <1>0, <1>8
  <2> QED BY <2>1, <2>2, <2>3, <2>4, <2>5, <2>6, <1>5, <1>7
<1>10. ~CloseCycle /\ ~AfterCall
  <2>1. ~Exploring /\ ~Running("call")
    <3>1. Top \in Frames /\ Top.edge \in Nat
      BY <1>1, TopType DEF StacksInv, Frames
    <3>2. NumEdges \in Int
      <4>1. Node \in Objects /\ rgnodevec[Node.rg] \in Markings
        BY <1>1, TopType DEF StacksInv, TypeInv, TypeOK
      <4>2. sys.arcs[Node.ba] \in Seq(BAStates) /\ sys.succ[rgnodevec[Node.rg]] \in Seq(Markings)
        BY <4>1, SystemFields DEF StacksInv, TypeInv, TypeOK, Objects
      <4>3. Len(sys.arcs[Node.ba]) \in Nat /\ Fanout(Node.rg) \in Nat
        BY <4>2 DEF Fanout
      <4> QED BY <4>3 DEF NumEdges
    <3> QED BY <3>1, <3>2, <1>1 DEF Exploring, Explored, Running
  <2> QED BY <2>1 DEF CloseCycle, AfterCall
<1>11. path' = path /\ accepting' = accepting /\ lowlinks' = lowlinks /\ closed' = closed
  BY <1>1, <1>3, <1>10, PathKept, ClosedKept
<1>12. \A p \in DOMAIN cstack : cstack[p] \in DOMAIN obj /\ NodeOf(cstack[p]) = path[p] /\ NodeOf(cstack[p])' = path[p]
  <2>1. \A p \in DOMAIN cstack : cstack[p] \in DOMAIN obj
    BY DEF StacksInv, TypeInv, TypeOK
  <2> QED BY <2>1, <1>11 DEF path
<1>13. ASSUME NEW p \in DOMAIN cstack, p # t PROVE EdgesFollowed(p)' = EdgesFollowed(p)
  <2>1. \A k : Started(k) /\ frames[k].obj = cstack[p] => k # n
    <3>1. cstack[p] # Top.obj
      BY <1>0, <1>1, <1>13, TopPosition
    <3> QED BY <3>1, <1>2
  <2> QED BY <2>1, <1>1, <1>5, <1>6, FollowedKept
<1>14. EdgesFollowed(t)' = EdgesFollowed(t)
  <2>1. \A k \in DOMAIN frames : Started(k) /\ frames[k].obj = cstack[t] => k = n
    <3>1. \A k : Started(k) /\ frames[k].obj = cstack[t] => PositionOf(k) = t
      BY <1>7, Positions DEF PositionOf
    <3> QED BY <3>1, <1>0, <1>8
  <2>2. EdgesFollowed(t)' = 0 .. EdgesOf(path[t]) - 1
    <3>1. \A k \in DOMAIN frames' : ~(Started(k)' /\ frames'[k].obj = cstack[t])
      <4>1. \A k : Started(k)' => Started(k) /\ k # n /\ frames'[k] = frames[k] /\ k \in DOMAIN frames
        BY <1>5, <1>6 DEF Started
      <4> QED BY <4>1, <2>1
    <3>2. NodeOf(cstack[t])' = path[t]
      BY <1>7, <1>12
    <3>3. EdgesOf(NodeOf(cstack[t]))' = EdgesOf(path[t])
      BY <3>2, NodesKept DEF EdgesOf, FanoutOf, StacksInv
    <3>4. EdgesFollowed(t)' = {e \in 0 .. EdgesOf(NodeOf(cstack[t]))' - 1 :
            \A k \in DOMAIN frames' : Started(k)' /\ frames'[k].obj = cstack[t] => e < frames'[k].edge}
      BY <1>1 DEF EdgesFollowed
    <3> QED BY <3>1, <3>3, <3>4
  <2>3. \A e \in 0 .. EdgesOf(path[t]) - 1 : e < Top.edge
    <3>1. Top.edge >= NumEdges /\ Top.edge \in Nat /\ Top.obj \in DOMAIN obj
      BY <1>1, TopType DEF Explored, StacksInv, Frames
    <3>2. path[t] = <<rgnodevec[Node.rg], Node.ba>> /\ path[t] \in ProductNodes
      BY <1>7, <1>12, <3>1, NodesInProduct DEF StacksInv, NodeOf, Node
    <3>3. NumEdges = EdgesOf(path[t])
      BY <3>2 DEF NumEdges, EdgesOf, FanoutOf, Fanout, Deadlock
    <3>4. EdgesOf(path[t]) \in Int
      <4>1. path[t][1] \in Markings /\ path[t][2] \in BAStates
        BY <3>2 DEF ProductNodes
      <4>2. sys.arcs[path[t][2]] \in Seq(BAStates) /\ sys.succ[path[t][1]] \in Seq(Markings)
        BY <4>1, SystemFields DEF StacksInv, TypeInv, TypeOK
      <4>3. Len(sys.arcs[path[t][2]]) \in Nat /\ FanoutOf(path[t][1]) \in Nat
        BY <4>2 DEF FanoutOf
      <4> QED BY <4>3 DEF EdgesOf
    <3> QED BY <3>1, <3>3, <3>4
  <2>4. EdgesFollowed(t) = 0 .. EdgesOf(path[t]) - 1
    <3>1. \A k \in DOMAIN frames : Started(k) /\ frames[k].obj = cstack[t] => frames[k].edge = Top.edge
      BY <2>1, <1>2
    <3> QED BY <3>1, <2>3, <1>7, <1>12 DEF EdgesFollowed
  <2> QED BY <2>2, <2>4
<1>15. found' = found
  <2>1. \A p \in DOMAIN cstack : EdgesFollowed(p)' = EdgesFollowed(p)
    BY <1>13, <1>14
  <2>2. /\ DOMAIN found' = DOMAIN cstack /\ DOMAIN found = DOMAIN cstack
        /\ \A p \in DOMAIN cstack : found'[p] = found[p]
    BY <1>1, <2>1, FoundKept
  <2>3. found' = [p \in DOMAIN found' |-> found'[p]] /\ found = [p \in DOMAIN found |-> found[p]]
    BY DEF found
  <2> QED BY <2>2, <2>3
<1> QED BY <1>0, <1>9, <1>11, <1>15

\* A node entered goes on top of the stack, its lowlink its own number, with nothing
\* found yet.
LEMMA EnterViews ==
  ASSUME RoomForAll, StacksInv, [Next]_vars, Enter
  PROVE  \E n \in Nat \ {0}, d \in Nat :
           /\ n = Len(frames) /\ DOMAIN frames = 1 .. n /\ DOMAIN path = 1 .. d /\ d = Len(cstack)
           /\ Top = frames[n] /\ Top.pc = "enter" /\ Top.obj \in DOMAIN obj
           /\ \A p \in DOMAIN cstack : cstack[p] # Top.obj
           /\ cstack' = Append(cstack, Top.obj) /\ DOMAIN path' = 1 .. d + 1
           /\ path'[d + 1] = NodeOf(Top.obj) /\ lowlinks'[d + 1] = d /\ found'[d + 1] = {}
           /\ \A p \in 1 .. d : /\ path'[p] = path[p] /\ lowlinks'[p] = lowlinks[p] /\ found'[p] = found[p]
                                /\ p \in accepting' <=> p \in accepting
           /\ accepting' \subseteq 1 .. d + 1
           /\ d + 1 \in accepting' <=> obj[Top.obj].ba \in sys.accepted
           /\ active' = active \cup {d + 1} /\ closed' = closed
           /\ DOMAIN frames' = 1 .. n /\ Len(frames') = n /\ frames'[n] = Frame(Top.obj, "loop", 0, 0)
           /\ Top' = frames'[n] /\ Node'.id = d /\ Node'.lowlink = d
           /\ \A k \in 1 .. n : k # n => frames'[k] = frames[k]
           /\ obj'[Top.obj].lowlink = d /\ \A x \in DOMAIN obj : x # Top.obj => obj'[x] = obj[x]
<1>0. PICK n \in Nat, d \in Nat, o \in DOMAIN obj : n = Len(frames) /\ d = Len(cstack) /\ o = Top.obj
  <2>1. Len(frames) \in Nat /\ Len(cstack) \in Nat
    BY DEF StacksInv, TypeInv, TypeOK
  <2>2. Top.obj \in DOMAIN obj
    BY TopType DEF StacksInv, Enter, EnterWith, Running
  <2> QED BY <2>1, <2>2
<1>1. /\ n > 0 /\ DOMAIN frames = 1 .. n /\ Top = frames[n]
      /\ DOMAIN cstack = 1 .. d /\ (\A p \in 1 .. d : cstack[p] \in DOMAIN obj)
      /\ cstack \in Seq(DOMAIN obj) /\ obj \in Seq(Objects) /\ frames \in Seq(Frames)
      /\ Top.pc = "enter" /\ Live /\ frames # <<>>
  BY <1>0 DEF StacksInv, TypeInv, TypeOK, Top, Last, Enter, EnterWith, Running, Live
<1>2. ~OnStack(obj[o].rg, obj[o].ba)
  BY <1>0, <1>1 DEF StacksInv, EnteringIsNew, Enter, EnterWith, Node
<1>3. d < CHASHSIZE
  BY <1>0, <1>2, RoomToPush
<1>4. cstack' = Append(cstack, o) /\ obj' = [obj EXCEPT ![o] = Object(obj[o].rg, obj[o].ba, d, d)]
      /\ frames' = [frames EXCEPT ![n] = Frame(o, "loop", 0, 0)]
      /\ UNCHANGED <<sys, rgnodevec, h>>
  BY <1>0, <1>3 DEF Enter, EnterWith, Continue, Node
<1>5. /\ DOMAIN cstack' = 1 .. d + 1 /\ cstack'[d + 1] = o
      /\ \A p \in 1 .. d : cstack'[p] = cstack[p] /\ cstack[p] # o
  <2>1. \A p \in 1 .. d : cstack[p] # o
    BY <1>1, <1>2 DEF OnStack, Same
  <2> QED BY <2>1, <1>0, <1>1, <1>4
<1>6. /\ DOMAIN obj' = DOMAIN obj /\ \A q \in DOMAIN obj : q # o => obj'[q] = obj[q]
      /\ obj'[o].rg = obj[o].rg /\ obj'[o].ba = obj[o].ba /\ obj'[o].id = d /\ obj'[o].lowlink = d
  BY <1>0, <1>1, <1>4 DEF Object
<1>7. /\ DOMAIN frames' = 1 .. n /\ Len(frames') = n /\ frames'[n] = Frame(o, "loop", 0, 0)
      /\ \A k \in 1 .. n : k # n => frames'[k] = frames[k]
  <2>1. Frame(o, "loop", 0, 0) \in Frames
    BY <1>1 DEF Frame, Frames
  <2> QED BY <2>1, <1>1, <1>4
<1>8. Top' = frames'[n] /\ Top'.obj = o /\ Top'.pc = "loop"
  BY <1>7 DEF Top, Last, Frame
<1>9. Node'.id = d /\ Node'.lowlink = d
  BY <1>6, <1>8 DEF Node
<1>10. \A x \in DOMAIN obj : NodeOf(x)' = NodeOf(x)
  BY NodesKept DEF StacksInv
<1>11. DOMAIN path' = 1 .. d + 1 /\ DOMAIN path = 1 .. d
  BY <1>1, <1>5 DEF path
<1>12. path'[d + 1] = NodeOf(o) /\ \A p \in 1 .. d : path'[p] = path[p]
  <2>1. \A p \in 1 .. d : p \in 1 .. d + 1 /\ d + 1 \in 1 .. d + 1
    OBVIOUS
  <2>2. NodeOf(cstack[d + 1])' = NodeOf(o)
    BY <1>5, <1>10 DEF NodeOf
  <2>3. \A p \in 1 .. d : NodeOf(cstack[p])' = NodeOf(cstack[p])
    BY <1>1, <1>5, <1>10 DEF NodeOf
  <2>4. d + 1 \in 1 .. d + 1
    OBVIOUS
  <2>5. path'[d + 1] = NodeOf(o)
    BY <2>2, <2>4, <1>5 DEF path
  <2>6. \A p \in 1 .. d : path'[p] = path[p]
    BY <2>1, <2>3, <1>1, <1>5 DEF path
  <2> QED BY <2>5, <2>6
<1>13. lowlinks'[d + 1] = d /\ \A p \in 1 .. d : lowlinks'[p] = lowlinks[p]
  <2>1. d + 1 \in 1 .. d + 1 /\ \A p \in 1 .. d : p \in 1 .. d + 1
    OBVIOUS
  <2> QED BY <2>1, <1>1, <1>5, <1>6 DEF lowlinks
<1>14. /\ accepting' \subseteq 1 .. d + 1
       /\ \A p \in 1 .. d : p \in accepting' <=> p \in accepting
       /\ d + 1 \in accepting' <=> obj[o].ba \in sys.accepted
  <2>1. d + 1 \in 1 .. d + 1 /\ \A p \in 1 .. d : p \in 1 .. d + 1
    OBVIOUS
  <2> QED BY <2>1, <1>1, <1>4, <1>5, <1>6 DEF accepting
<1>15. closed' = closed
  BY <1>4, ClosedKept
<1>16. \A k : Started(k)' <=> Started(k) \/ k = n
  BY <1>0, <1>1, <1>7, <1>8 DEF Started
<1>17. \A k : Started(k) => k # n /\ k \in 1 .. n /\ frames[k].obj # o /\ frames[k].obj \in DOMAIN obj
                            /\ frames'[k] = frames[k]
  <2>1. \A k : Started(k) => k # n /\ k \in 1 .. n
    BY <1>0, <1>1 DEF Started
  <2>2. \A k : Started(k) => \E p \in 1 .. d : cstack[p] = frames[k].obj
    BY <1>1 DEF StacksInv, CallersAreOpen, Started
  <2>3. \A k : Started(k) => frames[k].obj \in DOMAIN obj
    BY DEF Started, StacksInv, TypeInv, TypeOK
  <2> QED BY <2>1, <2>2, <2>3, <1>5, <1>7
<1>18. active' = active \cup {d + 1}
  <2>1. \A k : Started(k) => PositionOf(k)' = PositionOf(k)
    BY <1>6, <1>17 DEF PositionOf
  <2>2. PositionOf(n)' = d + 1
    <3>1. obj'[frames'[n].obj].id = d
      BY <1>6, <1>7 DEF Frame
    <3> QED BY <3>1, <1>0, <1>4, <1>7 DEF PositionOf
  <2>3. active = {PositionOf(k) : k \in {l \in DOMAIN frames : Started(l)}}
    BY DEF active
  <2>4. active' = {PositionOf(k)' : k \in {l \in DOMAIN frames' : Started(l)'}}
    BY DEF active
  <2>5. \A k : Started(k) => k \in DOMAIN frames
    BY DEF Started
  <2>6. \A k : Started(k)' => k \in DOMAIN frames'
    BY DEF Started
  <2> QED BY <2>1, <2>2, <2>3, <2>4, <2>5, <2>6, <1>16
<1>19. \A p \in 1 .. d : EdgesFollowed(p)' = EdgesFollowed(p)
  <2> TAKE p \in 1 .. d
  <2>1. p \in DOMAIN cstack /\ p \in DOMAIN cstack' /\ cstack'[p] = cstack[p] /\ cstack[p] # o
    BY <1>1, <1>5
  <2>2. frames'[n].obj = o
    BY <1>7 DEF Frame
  <2>3. \A k : Started(k) /\ frames[k].obj = cstack[p] =>
                Started(k)' /\ frames'[k].obj = cstack[p] /\ frames'[k].edge = frames[k].edge
    BY <1>16, <1>17
  <2>4. \A k : Started(k)' /\ frames'[k].obj = cstack[p] =>
                Started(k) /\ frames[k].obj = cstack[p] /\ frames'[k].edge = frames[k].edge
    BY <2>1, <2>2, <1>16, <1>17
  <2> QED BY <2>1, <2>3, <2>4, FollowedKept
<1>20. \A p \in 1 .. d : found'[p] = found[p]
  <2> TAKE p \in 1 .. d
  <2>1. p \in DOMAIN cstack /\ p \in DOMAIN cstack' /\ cstack'[p] = cstack[p] /\ cstack[p] \in DOMAIN obj
    BY <1>1, <1>5
  <2>2. NodeOf(cstack[p])' = NodeOf(cstack[p])
    BY <2>1, <1>10 DEF NodeOf
  <2>3. found[p] = {EdgeTo(NodeOf(cstack[p]), e) : e \in EdgesFollowed(p)} \cap sys.label
    BY <2>1 DEF found
  <2>4. found'[p] = {EdgeTo(NodeOf(cstack[p]), e)' : e \in EdgesFollowed(p)'} \cap sys.label
    BY <2>1, <1>4 DEF found
  <2>5. \A e : EdgeTo(NodeOf(cstack[p]), e)' = EdgeTo(NodeOf(cstack[p]), e)
    BY <2>2, <1>4 DEF EdgeTo, FanoutOf
  <2> QED BY <2>3, <2>4, <2>5, <1>19
<1>21. \E q : q = d + 1 /\ found'[q] = {}
  <2>1. PICK q : q = d + 1 /\ q \in 1 .. d + 1
    OBVIOUS
  <2>2. Started(n)' /\ frames'[n].obj = cstack'[q] /\ frames'[n].edge = 0 /\ n \in DOMAIN frames'
    BY <2>1, <1>1, <1>5, <1>7, <1>16 DEF Frame
  <2>3. \A e \in Nat : ~(e < 0)
    OBVIOUS
  <2>4. EdgesFollowed(q)' = {}
    BY <2>2, <2>3 DEF EdgesFollowed
  <2>5. found'[q] = {EdgeTo(NodeOf(cstack[q]), e)' : e \in EdgesFollowed(q)'} \cap sys.label
    BY <2>1, <1>4, <1>5 DEF found
  <2> QED BY <2>1, <2>4, <2>5
<1>22. found'[d + 1] = {}
  BY <1>21
<1>23. /\ n = Len(frames) /\ DOMAIN frames = 1 .. n /\ DOMAIN path = 1 .. d /\ d = Len(cstack)
       /\ Top = frames[n] /\ Top.pc = "enter" /\ Top.obj \in DOMAIN obj
       /\ \A p \in DOMAIN cstack : cstack[p] # Top.obj
       /\ cstack' = Append(cstack, Top.obj) /\ DOMAIN path' = 1 .. d + 1
       /\ path'[d + 1] = NodeOf(Top.obj) /\ lowlinks'[d + 1] = d /\ found'[d + 1] = {}
       /\ \A p \in 1 .. d : /\ path'[p] = path[p] /\ lowlinks'[p] = lowlinks[p] /\ found'[p] = found[p]
                            /\ p \in accepting' <=> p \in accepting
       /\ accepting' \subseteq 1 .. d + 1
       /\ d + 1 \in accepting' <=> obj[Top.obj].ba \in sys.accepted
       /\ active' = active \cup {d + 1} /\ closed' = closed
       /\ DOMAIN frames' = 1 .. n /\ Len(frames') = n /\ frames'[n] = Frame(Top.obj, "loop", 0, 0)
       /\ Top' = frames'[n] /\ Node'.id = d /\ Node'.lowlink = d
       /\ \A k \in 1 .. n : k # n => frames'[k] = frames[k]
       /\ obj'[Top.obj].lowlink = d /\ \A x \in DOMAIN obj : x # Top.obj => obj'[x] = obj[x]
  BY <1>0, <1>1, <1>4, <1>5, <1>6, <1>7, <1>8, <1>9, <1>11, <1>12, <1>13, <1>14, <1>15, <1>18, <1>20, <1>22
<1>24. n \in Nat \ {0}
  BY <1>1
<1> WITNESS n \in Nat \ {0}, d \in Nat
<1> QED BY <1>23

\* Closing takes the top node from the stack, and ends the activation with the last
\* node of the component.
LEMMA CloseViews ==
  ASSUME StacksInv, [Next]_vars, CloseOne
  PROVE  \E n \in Nat \ {0}, d \in Nat \ {0} :
           /\ n = Len(frames) /\ DOMAIN frames = 1 .. n /\ DOMAIN path = 1 .. d /\ d = Len(cstack)
           /\ Top = frames[n] /\ Top.pc = "loop" /\ frames # <<>>
           /\ DOMAIN path' = 1 .. d - 1 /\ Len(cstack') = d - 1
           /\ \A p \in 1 .. d - 1 : /\ cstack'[p] = cstack[p]
                                    /\ path'[p] = path[p] /\ lowlinks'[p] = lowlinks[p] /\ found'[p] = found[p]
           /\ accepting' = accepting \ {d} /\ closed' = closed \cup {path[d]}
           /\ \/ top # d /\ active' = active /\ frames' = frames /\ cstack[d] # Top.obj
              \/ top = d /\ active' = active \ {d} /\ cstack[d] = Top.obj
                 /\ DOMAIN frames' = 1 .. n - 1 /\ Len(frames') = n - 1
                 /\ (n = 1 => frames' = <<>>)
                 /\ \A k \in 1 .. n - 1 : frames'[k] = frames[k]
           /\ UNCHANGED <<sys, rgnodevec, obj, initial_status, next, phase, result, timeup>>
<1>0. PICK n \in Nat, d \in Nat, t \in Nat : n = Len(frames) /\ d = Len(cstack) /\ t = top
  <2>1. Len(frames) \in Nat /\ Len(cstack) \in Nat /\ cstack \in Seq(DOMAIN obj)
    BY DEF StacksInv, TypeInv, TypeOK
  <2>2. top \in DOMAIN cstack
    BY TopPosition DEF CloseOne, CloseRound, Explored, Running
  <2> QED BY <2>1, <2>2
<1>1. /\ n > 0 /\ DOMAIN frames = 1 .. n /\ Top = frames[n] /\ frames # <<>> /\ frames \in Seq(Frames)
      /\ d > 0 /\ DOMAIN cstack = 1 .. d /\ (\A p \in 1 .. d : cstack[p] \in DOMAIN obj)
      /\ cstack \in Seq(DOMAIN obj) /\ Top.pc = "loop"
  BY <1>0 DEF StacksInv, TypeInv, TypeOK, Top, Last, CloseOne, CloseRound, Explored, Running
<1>2. /\ cstack' = Front(cstack) /\ h' = h \cup {cstack[d]}
      /\ UNCHANGED <<sys, rgnodevec, obj, initial_status, next, phase, result, timeup>>
      /\ \/ cstack[d] = Top.obj /\ Return
         \/ cstack[d] # Top.obj /\ frames' = frames
  BY <1>0 DEF CloseOne, CloseRound, Last
<1>3. DOMAIN cstack' = 1 .. d - 1 /\ Len(cstack') = d - 1 /\ \A p \in 1 .. d - 1 : cstack'[p] = cstack[p]
  BY <1>0, <1>1, <1>2 DEF Front
<1>4. t \in 1 .. d /\ cstack[t] = Top.obj /\ Started(n) /\ PositionOf(n) = t
      /\ \A p \in 1 .. d : cstack[p] = Top.obj => p = t
  BY <1>0, <1>1, TopPosition
<1>5. \A p \in 1 .. d - 1 : p \in 1 .. d
  BY <1>1
<1>6. \A x : NodeOf(x)' = NodeOf(x)
  BY <1>2 DEF NodeOf
<1>7. DOMAIN path' = 1 .. d - 1 /\ DOMAIN path = 1 .. d /\ \A p \in 1 .. d - 1 : path'[p] = path[p]
  BY <1>1, <1>2, <1>3, <1>5 DEF path, NodeOf
<1>8. \A p \in 1 .. d - 1 : lowlinks'[p] = lowlinks[p]
  BY <1>1, <1>2, <1>3, <1>5 DEF lowlinks
<1>9. accepting' = accepting \ {d}
  <2>1. \A p : p \in 1 .. d - 1 <=> p \in 1 .. d /\ p # d
    BY <1>1
  <2> QED BY <2>1, <1>1, <1>2, <1>3 DEF accepting
<1>10. closed' = closed \cup {path[d]}
  <2>1. path[d] = NodeOf(cstack[d])
    BY <1>1 DEF path
  <2> QED BY <2>1, <1>2, <1>6 DEF closed
<1>11. \A k : Started(k) => k = n \/ (k \in 1 .. n - 1 /\ frames[k].obj # Top.obj /\ PositionOf(k) < t)
  <2>1. \A k : Started(k) => k = n \/ (k \in 1 .. n - 1 /\ k < n)
    BY <1>1 DEF Started
  <2>2. \A k : Started(k) /\ k < n => PositionOf(k) < t
    BY <1>4, Positions
  <2>3. PositionOf(n) = t /\ frames[n] = Top
    BY <1>1, <1>4
  <2>4. \A k : frames[k].obj = Top.obj => PositionOf(k) = t
    BY <2>3 DEF PositionOf
  <2> QED BY <2>1, <2>2, <2>4
<1>12. CASE cstack[d] # Top.obj /\ frames' = frames
  <2>1. t # d
    BY <1>4, <1>12
  <2>2. active' = active
    BY <1>2, <1>12 DEF active, PositionOf, Started
  <2>3. \A p \in 1 .. d - 1 : EdgesFollowed(p)' = EdgesFollowed(p)
    <3> TAKE p \in 1 .. d - 1
    <3>1. \A k : Started(k)' <=> Started(k)
      BY <1>12 DEF Started
    <3> QED BY <3>1, <1>1, <1>3, <1>5, <1>12, FollowedKept
  <2>4. \A p \in 1 .. d - 1 : found'[p] = found[p]
    BY <2>3, <1>1, <1>3, <1>5, FoundKept
  <2> QED BY <2>1, <2>2, <2>4, <1>0, <1>1, <1>2, <1>3, <1>7, <1>8, <1>9, <1>10, <1>12
<1>13. CASE cstack[d] = Top.obj /\ Return
  <2>1. t = d
    BY <1>1, <1>4, <1>13
  <2>2. DOMAIN frames' = 1 .. n - 1 /\ Len(frames') = n - 1 /\ \A k \in 1 .. n - 1 : frames'[k] = frames[k]
    BY <1>0, <1>1, <1>13 DEF Return, Front
  <2>3. n = 1 => frames' = <<>>
    BY <1>0, <1>1, <1>13 DEF Return, Front
  <2>4. \A k : Started(k)' <=> Started(k) /\ k # n
    BY <2>2, <1>1 DEF Started
  <2>5. \A k : Started(k)' => frames'[k] = frames[k] /\ k \in 1 .. n - 1
    BY <2>2 DEF Started
  <2>6. active' = active \ {t}
    <3>1. \A k : Started(k)' => PositionOf(k)' = PositionOf(k)
      BY <1>2, <2>5 DEF PositionOf
    <3>2. active = {PositionOf(k) : k \in {l \in DOMAIN frames : Started(l)}}
      BY DEF active
    <3>3. active' = {PositionOf(k)' : k \in {l \in DOMAIN frames' : Started(l)'}}
      BY DEF active
    <3>4. \A k : Started(k) => k \in DOMAIN frames
      BY DEF Started
    <3>5. \A k : Started(k)' => k \in DOMAIN frames'
      BY DEF Started
    <3>6. \A k : Started(k) /\ k # n => PositionOf(k) # t
      BY <1>11
    <3> QED BY <3>1, <3>2, <3>3, <3>4, <3>5, <3>6, <2>4, <1>4
  <2>7. \A p \in 1 .. d - 1 : EdgesFollowed(p)' = EdgesFollowed(p)
    <3> TAKE p \in 1 .. d - 1
    <3>1. cstack[p] # Top.obj
      BY <1>1, <1>4, <1>5, <2>1
    <3>2. \A k : Started(k) /\ frames[k].obj = cstack[p] => k # n
      BY <3>1, <1>1
    <3> QED BY <3>2, <2>4, <2>5, <1>1, <1>3, <1>5, FollowedKept
  <2>8. \A p \in 1 .. d - 1 : found'[p] = found[p]
    BY <2>7, <1>1, <1>3, <1>5, FoundKept
  <2> QED BY <2>1, <2>2, <2>3, <2>6, <2>8, <1>0, <1>1, <1>2, <1>3, <1>7, <1>8, <1>9, <1>10, <1>13
<1> QED BY <1>2, <1>12, <1>13

-----------------------------------------------------------------------------
(***************************************************************************)
(* A component that is about to be closed.                                 *)
(***************************************************************************)
\* When a component is about to be closed, its edges stay in it or lead to closed
\* nodes, and no accepting cycle runs through its nodes.
LEMMA ClosingStarts ==
  RoomForAll /\ StacksInv /\ Fresh /\ FoundKnown /\ Cut /\ LowlinksTold /\ NoneAccepting
  /\ (\A u \in closed : Post(u) \subseteq closed)
    => ComponentDone
<1> SUFFICES ASSUME RoomForAll, StacksInv, Fresh, FoundKnown, Cut, LowlinksTold, NoneAccepting,
                    \A u \in closed : Post(u) \subseteq closed, Closing
             PROVE  ComponentDone
  BY DEF ComponentDone, Component
<1>0. PICK t \in Nat, d \in Nat : t = top /\ d = Len(cstack)
  <2>1. Len(cstack) \in Nat /\ cstack \in Seq(DOMAIN obj)
    BY DEF StacksInv, TypeInv, TypeOK
  <2>2. top \in DOMAIN cstack
    BY TopPosition DEF Closing, Running
  <2> QED BY <2>1, <2>2
<1>1. /\ frames # <<>> /\ Top.pc = "loop" /\ Explored /\ Node.lowlink = Node.id /\ ~Running("call")
  BY DEF Closing, Running, Explored
<1>2. /\ DOMAIN path = 1 .. d /\ DOMAIN cstack = 1 .. d /\ \A p, q \in 1 .. d : path[p] = path[q] => p = q
  BY <1>0, SameNode DEF StacksInv, TypeInv, TypeOK
<1>3. t \in 1 .. d /\ t \in active /\ lowlinks[t] = Node.lowlink /\ Node.id + 1 = t
      /\ (\A a \in active : a <= t /\ a \in 1 .. d) /\ Node.id \in Nat
  <2>1. Node \in Objects
    BY <1>1, TopType DEF StacksInv
  <2> QED BY <2>1, <1>0, <1>1, <1>2, TopPosition, Positions DEF top, Objects
<1>4. lowlinks[t] + 1 = t
  BY <1>1, <1>3
<1>5. \A p \in 1 .. d : p >= t => found[p] = Post(path[p])
  <2>1. \A p \in 1 .. d : p > t => p \notin active
    BY <1>0, <1>3
  <2>2. \A p \in 1 .. d : p > t => found[p] = Post(path[p])
    BY <2>1, <1>2, FoundAll
  <2>3. found[t] = Post(path[t])
    BY <1>0, <1>1, FoundAtTop
  <2> QED BY <2>2, <2>3, <1>0
<1>6. Component = {path[p] : p \in {q \in 1 .. d : q >= t}}
  BY <1>0, <1>2 DEF Component
\* No edge leads back below the node of the activation: it would be told by a lowlink.
<1>7. \A p, q \in 1 .. d : p >= t /\ path[q] \in found[p] => q >= t
  <2> SUFFICES ASSUME NEW p \in 1 .. d, NEW q \in 1 .. d, p >= t, path[q] \in found[p], ~(q >= t) PROVE FALSE
    OBVIOUS
  <2>1. q < t /\ t <= p
    BY <1>0
  <2>2. \E b \in active : b >= t /\ lowlinks[b] < q
    BY <2>1, <1>1, <1>2, <1>3 DEF LowlinksTold
  <2>3. lowlinks[t] < q
    <3>1. PICK b \in active : b >= t /\ lowlinks[b] < q
      BY <2>2
    <3>2. b = t
      BY <3>1, <1>0, <1>3
    <3> QED BY <3>1, <3>2
  <2>4. lowlinks[t] \in Nat
    BY <1>1, <1>3
  <2> QED BY <2>1, <2>3, <2>4, <1>4
<1>8. \A p \in 1 .. d : p >= t => Post(path[p]) \subseteq closed \cup {path[q] : q \in {r \in 1 .. d : r >= t}}
  <2> SUFFICES ASSUME NEW p \in 1 .. d, p >= t, NEW u \in Post(path[p])
               PROVE  u \in closed \/ \E q \in 1 .. d : q >= t /\ path[q] = u
    OBVIOUS
  <2>1. u \in found[p]
    BY <1>5
  <2>2. u \in closed \/ \E q \in 1 .. d : path[q] = u
    BY <2>1, <1>2 DEF FoundKnown
  <2> QED BY <2>1, <2>2, <1>7
<1>9. ASSUME NEW p \in 1 .. d, p >= t PROVE ~AcceptingCycleAt(path[p])
  <2> SUFFICES ASSUME AcceptingCycleAt(path[p]) PROVE FALSE
    OBVIOUS
  <2>1. path[p][2] \in sys.accepted /\ path[p] \in Reachable(Post(path[p]))
    BY DEF AcceptingCycleAt
  <2>2. p \in accepting
    BY <2>1, <1>2 DEF accepting, path, NodeOf
  <2> DEFINE C == closed \cup {path[q] : q \in {r \in 1 .. d : r > p}}
  <2>3. \A q \in 1 .. d : q >= p => Post(path[q]) \subseteq C
    <3> SUFFICES ASSUME NEW q \in 1 .. d, q >= p, NEW u \in Post(path[q]), u \notin closed
                 PROVE  \E r \in 1 .. d : r > p /\ path[r] = u
      OBVIOUS
    <3>1. q >= t
      BY <1>0, <1>9
    <3>2. PICK r \in 1 .. d : path[r] = u
      BY <3>1, <1>8
    <3>3. path[r] \in found[q]
      BY <3>1, <3>2, <1>5
    <3>4. CASE r <= p
      <4>1. r <= q
        BY <3>4
      <4> QED BY <4>1, <3>3, <3>4, <2>2, <1>2 DEF Cut
    <3> QED BY <3>2, <3>4
  <2>4. Post(path[p]) \subseteq C
    BY <2>3
  <2>5. \A u \in C : Post(u) \subseteq C
    <3> SUFFICES ASSUME NEW u \in C PROVE Post(u) \subseteq C
      OBVIOUS
    <3>1. CASE u \in closed
      BY <3>1
    <3>2. CASE \E q \in 1 .. d : q > p /\ path[q] = u
      <4>1. PICK q \in 1 .. d : q > p /\ path[q] = u
        BY <3>2
      <4>2. q >= p
        BY <4>1
      <4> QED BY <4>1, <4>2, <2>3
    <3> QED BY <3>1, <3>2
  <2> HIDE DEF C
  <2>6. Reachable(Post(path[p])) \subseteq C
    <3>1. ProductIsFinite
      BY RoomIsFinite
    <3>2. TypeInv
      BY DEF StacksInv
    <3>3. \A S, D : S \subseteq D /\ (\A u \in D : Post(u) \subseteq D) => Reachable(S) \subseteq D
      BY <3>1, <3>2, ReachFacts
    <3> QED BY <3>3, <2>4, <2>5
  <2>7. path[p] \in C
    BY <2>1, <2>6
  <2>8. path[p] \in closed
    <3>1. \A q \in 1 .. d : path[q] = path[p] => ~(q > p)
      BY <1>2
    <3> QED BY <3>1, <2>7 DEF C
  <2> QED BY <2>8 DEF NoneAccepting
<1>10. \A u \in Component : \E p \in 1 .. d : p >= t /\ u = path[p]
  BY <1>6
<1> QED BY <1>6, <1>8, <1>9, <1>10 DEF ComponentDone

\* Outside of CloseOne and on the way to it no component is about to be closed.
LEMMA NothingClosing ==
  ASSUME StacksInv, [Next]_vars, ~CloseOne, ~UNCHANGED <<frames, obj, sys, rgnodevec>>
  PROVE  Component = {}
<1> SUFFICES ASSUME Closing PROVE FALSE
  BY DEF Component
<1>1. frames # <<>> /\ Top.pc = "loop" /\ Top.edge >= NumEdges /\ Node.lowlink = Node.id
  BY DEF Closing, Running
<1>2. ~(Top.edge < NumEdges)
  <2>1. Top \in Frames /\ Top.edge \in Nat
    BY <1>1, TopType DEF StacksInv, Frames
  <2>2. NumEdges \in Int
    <3>1. Node \in Objects /\ rgnodevec[Node.rg] \in Markings
      BY <1>1, TopType DEF StacksInv, TypeInv, TypeOK
    <3>2. sys.arcs[Node.ba] \in Seq(BAStates) /\ sys.succ[rgnodevec[Node.rg]] \in Seq(Markings)
      BY <3>1, SystemFields DEF StacksInv, TypeInv, TypeOK, Objects
    <3>3. Len(sys.arcs[Node.ba]) \in Nat /\ Fanout(Node.rg) \in Nat
      BY <3>2 DEF Fanout
    <3> QED BY <3>3 DEF NumEdges
  <2> QED BY <2>1, <2>2, <1>1
<1> QED BY <1>1, <1>2 DEF Next, Step, Done, vars, GetInitNode, StartSearch, SearchFrom, Finish, EnterTooLate,
         EnterDecided, Enter, EnterWith, LeaveDecided, SkipEdge, CloseCycle, CrossEdge, TreeEdge, AfterCall,
         LeaveOpen, Exploring, Explored, Running

-----------------------------------------------------------------------------
(***************************************************************************)
(* Activations and the calls they wait for.                                *)
(***************************************************************************)
\* But for TreeEdge and SearchFrom a step starts no activation, and no activation
\* below the running one goes on.
LEMMA FramesKept ==
  ASSUME StacksInv, [Next]_vars, ~TreeEdge, ~SearchFrom
  PROVE  /\ frames' \in Seq(Frames) /\ Len(frames') <= Len(frames)
         /\ \A k \in DOMAIN frames' : /\ k \in DOMAIN frames /\ frames'[k].obj = frames[k].obj
                                      /\ frames'[k].pc = "call" => frames'[k] = frames[k]
                                      /\ k < Len(frames') => k < Len(frames) /\ frames'[k] = frames[k]
         /\ Running("enter")' => Running("enter") /\ frames' = frames
<1>0. PICK n \in Nat : n = Len(frames)
  BY DEF StacksInv, TypeInv, TypeOK
<1>1. DOMAIN frames = 1 .. n /\ frames \in Seq(Frames)
  BY <1>0 DEF StacksInv, TypeInv, TypeOK
<1>2. CASE frames' = frames
  BY <1>2, <1>0, <1>1 DEF Running, Top, Last
<1>3. CASE frames # <<>> /\ Return
  <2>1. n > 0 /\ DOMAIN frames' = 1 .. n - 1 /\ Len(frames') = n - 1 /\ frames' \in Seq(Frames)
        /\ \A k \in 1 .. n - 1 : frames'[k] = frames[k]
    BY <1>0, <1>1, <1>3 DEF Return, Front
  <2>2. \A k \in 1 .. n - 1 : frames'[k].pc = "call"
    BY <2>1, <1>0, <1>1 DEF StacksInv, Suspended
  <2>3. frames' # <<>> => Top'.pc = "call"
    <3>1. frames' # <<>> => n - 1 \in 1 .. n - 1
      BY <2>1
    <3> QED BY <3>1, <2>1, <2>2 DEF Top, Last
  <2> QED BY <2>1, <2>3, <1>0, <1>1 DEF Running
<1>4. CASE frames # <<>> /\ \E f \in Frames : f.obj = Top.obj /\ f.pc = "loop" /\ Continue(f)
  <2>1. PICK f \in Frames : f.obj = Top.obj /\ f.pc = "loop" /\ Continue(f)
    BY <1>4
  <2>2. frames' \in Seq(Frames) /\ DOMAIN frames' = 1 .. n /\ frames'[n] = f /\ n \in 1 .. n
        /\ \A k \in 1 .. n : k # n => frames'[k] = frames[k]
    BY <2>1, <1>0, <1>1, <1>4, ContinueType DEF StacksInv
  <2>3. Len(frames') = n /\ Top = frames[n]
    BY <2>2, <1>0 DEF Top, Last
  <2>4. Top' = f
    BY <2>2, <2>3 DEF Top, Last
  <2>5. ~Running("enter")'
    BY <2>1, <2>4 DEF Running
  <2>6. \A k \in 1 .. n : frames'[k].obj = frames[k].obj /\ (frames'[k].pc = "call" => k # n)
    BY <2>1, <2>2, <2>3
  <2>7. \A k \in 1 .. n : k < n => k # n
    OBVIOUS
  <2>8. frames' \in Seq(Frames) /\ Len(frames') = n /\ Len(frames) = n
        /\ DOMAIN frames' = 1 .. n /\ DOMAIN frames = 1 .. n
    BY <2>2, <2>3, <1>0, <1>1
  <2>9. \A k \in 1 .. n : /\ frames'[k].obj = frames[k].obj
                          /\ frames'[k].pc = "call" => frames'[k] = frames[k]
                          /\ k < n => frames'[k] = frames[k]
    BY <2>2, <2>6, <2>7
  <2> QED BY <2>5, <2>8, <2>9
<1>5. ASSUME frames # <<>>, NextEdge
      PROVE  \E f \in Frames : f.obj = Top.obj /\ f.pc = "loop" /\ Continue(f)
  <2>1. Frame(Top.obj, "loop", Top.edge + 1, 0) \in Frames
    BY <1>5, TopType DEF StacksInv, Frame, Frames
  <2> QED BY <2>1, <1>5 DEF NextEdge, Frame
<1>6. ASSUME Enter
      PROVE  frames # <<>> /\ \E f \in Frames : f.obj = Top.obj /\ f.pc = "loop" /\ Continue(f)
  <2>1. frames # <<>> /\ Continue(Frame(Top.obj, "loop", 0, 0))
    BY <1>6 DEF Enter, EnterWith, Running
  <2>2. Frame(Top.obj, "loop", 0, 0) \in Frames
    BY <2>1, TopType DEF StacksInv, Frame, Frames
  <2> QED BY <2>1, <2>2 DEF Frame
<1>7. frames' = frames \/ (frames # <<>> /\ Return) \/ Enter \/ (frames # <<>> /\ NextEdge)
  BY DEF Next, Step, Done, vars, GetInitNode, StartSearch, Finish, EnterTooLate, EnterDecided,
         LeaveDecided, SkipEdge, CloseCycle, CrossEdge, AfterCall, LeaveOpen, CloseOne, CloseRound,
         Exploring, Explored, Running
<1> QED BY <1>2, <1>3, <1>4, <1>5, <1>6, <1>7

\* Every step keeps the waiting calls in order.
LEMMA CallsKept ==
  ASSUME StacksInv, Calls, TypeInv', [Next]_vars
  PROVE  Calls'
<1>a. \A k \in DOMAIN frames : frames[k].obj \in DOMAIN obj
                               /\ (frames[k].pc = "call" => frames[k].qs \in DOMAIN obj)
  BY DEF StacksInv, TypeInv, TypeOK, NoDangling
<1>b. sys' = sys /\ DOMAIN obj \subseteq DOMAIN obj' /\ \A o \in DOMAIN obj : NodeOf(o)' = NodeOf(o)
  BY NodesKept DEF StacksInv
<1> DEFINE Called(k) == /\ frames[k].edge \in 0 .. EdgesOf(NodeOf(frames[k].obj)) - 1
                        /\ NodeOf(frames[k].qs) = EdgeTo(NodeOf(frames[k].obj), frames[k].edge)
                        /\ NodeOf(frames[k].qs) \in sys.label
<1>c. \A k \in DOMAIN frames : frames[k].pc = "call" => Called(k)
  BY DEF Calls
<1>d. \A k \in DOMAIN frames : frames[k].pc = "call" /\ k < Len(frames) => frames[k + 1].obj = frames[k].qs
  BY DEF Calls
<1>e. ASSUME NEW k \in DOMAIN frames, frames[k].pc = "call", frames'[k] = frames[k]
      PROVE  Called(k)'
  <2>1. NodeOf(frames[k].obj)' = NodeOf(frames[k].obj) /\ NodeOf(frames[k].qs)' = NodeOf(frames[k].qs)
    BY <1>a, <1>b, <1>e DEF NodeOf
  <2>2. /\ EdgesOf(NodeOf(frames[k].obj))' = EdgesOf(NodeOf(frames[k].obj))
        /\ EdgeTo(NodeOf(frames[k].obj), frames[k].edge)' = EdgeTo(NodeOf(frames[k].obj), frames[k].edge)
    BY <2>1, <1>b, <1>e DEF EdgesOf, EdgeTo, FanoutOf
  <2>3. Called(k)
    BY <1>c, <1>e
  <2> QED BY <2>1, <2>2, <2>3, <1>b, <1>e
<1>1. CASE TreeEdge
  <2>0. PICK n \in Nat \ {0} : n = Len(frames)
    BY <1>1, TreeViews
  <2>1. /\ DOMAIN frames = 1 .. n /\ DOMAIN frames' = 1 .. n + 1 /\ Len(frames') = n + 1
        /\ frames'[n] = Frame(Top.obj, "call", Top.edge, Len(obj) + 1)
        /\ frames'[n + 1] = Frame(Len(obj) + 1, "enter", 0, 0)
        /\ \A k \in 1 .. n : k # n => frames'[k] = frames[k]
    BY <1>1, <2>0, TreeViews
  <2>2. frames # <<>> /\ Exploring /\ Top = frames[n] /\ Top.obj \in DOMAIN obj
    BY <1>1, <2>0, TopType DEF TreeEdge, Exploring, Running, StacksInv
  <2>3. PICK r \in 1 .. Len(rgnodevec) + 1 :
          FireTo(r) /\ obj' = Append(obj, Object(r, Dest, 0, 0))
    BY <1>1 DEF TreeEdge
  <2>y. PICK new : new = Len(obj) + 1
    OBVIOUS
  <2>z. PICK o \in DOMAIN obj : o = Top.obj
    BY <2>2
  <2>4. NodeOf(new)' = <<Target, Dest>>
    <3>1. rgnodevec \in Seq(Markings) /\ obj \in Seq(Objects)
      BY DEF StacksInv, TypeInv, TypeOK
    <3>2. rgnodevec'[r] = Target
      BY <2>3, <3>1 DEF FireTo
    <3>3. obj'[new] = Object(r, Dest, 0, 0)
      BY <2>3, <2>y, <3>1
    <3> QED BY <3>2, <3>3 DEF NodeOf, Object
  <2>5. ASSUME NEW k \in 1 .. n + 1, frames'[k].pc = "call"
        PROVE  Called(k)' /\ (k < n + 1 => frames'[k + 1].obj = frames'[k].qs)
    <3>1. CASE k = n + 1
      BY <3>1, <2>1, <2>5 DEF Frame
    <3>2. CASE k = n
      <4>1. /\ frames'[k].obj = o /\ frames'[k].edge = Top.edge /\ frames'[k].qs = new
            /\ frames'[k + 1].obj = new
        BY <3>2, <2>1, <2>y, <2>z DEF Frame
      <4>2. NodeOf(frames[k].obj)' = NodeOf(o) /\ NodeOf(frames[k].qs)' = <<Target, Dest>>
        BY <4>1, <2>4, <1>b DEF NodeOf
      <4>3. /\ Top.edge \in 0 .. EdgesOf(NodeOf(o)) - 1
            /\ EdgeTo(NodeOf(o), Top.edge) = <<Target, Dest>>
            /\ <<Target, Dest>> \in sys.label
        BY <2>2, <2>z, <1>1, EdgeLeads DEF StacksInv, TreeEdge, isLabel
      <4>4. /\ EdgesOf(NodeOf(frames[k].obj))' = EdgesOf(NodeOf(o))
            /\ EdgeTo(NodeOf(frames[k].obj), frames[k].edge)' = EdgeTo(NodeOf(o), Top.edge)
        BY <4>1, <4>2, <1>b DEF EdgesOf, EdgeTo, FanoutOf
      <4>5. Called(k)'
        BY <4>1, <4>2, <4>3, <4>4, <1>b
      <4> QED BY <4>1, <4>5
    <3>3. CASE k < n
      <4>1. k \in 1 .. n /\ frames'[k] = frames[k] /\ k + 1 \in 1 .. n /\ frames[k].pc = "call"
        BY <3>3, <2>0, <2>1, <2>5
      <4>2. frames'[k + 1].obj = frames[k + 1].obj
        BY <4>1, <2>1, <2>2 DEF Frame
      <4>3. Called(k)'
        BY <4>1, <2>1, <1>e
      <4>4. frames[k + 1].obj = frames[k].qs
        BY <4>1, <3>3, <2>0, <2>1, <1>d
      <4> QED BY <4>1, <4>2, <4>3, <4>4
    <3> QED BY <3>1, <3>2, <3>3
  <2> HIDE DEF Called
  <2>6. \A k \in DOMAIN frames' : frames'[k].pc = "call" => Called(k)' /\ (k < Len(frames') => frames'[k + 1].obj = frames'[k].qs)
    BY <2>1, <2>5
  <2> QED BY <2>6 DEF Calls, Called
<1>2. CASE SearchFrom
  <2>1. \A k \in DOMAIN frames' : frames'[k].pc # "call"
    BY <1>2 DEF SearchFrom, Frame
  <2> QED BY <2>1 DEF Calls
<1>3. CASE ~TreeEdge /\ ~SearchFrom
  <2>1. ASSUME NEW k \in DOMAIN frames', frames'[k].pc = "call"
        PROVE  Called(k)' /\ (k < Len(frames') => frames'[k + 1].obj = frames'[k].qs)
    <3>1. k \in DOMAIN frames /\ frames'[k] = frames[k]
      BY <1>3, <2>1, FramesKept
    <3>2. Called(k)'
      BY <3>1, <2>1, <1>e
    <3>3. ASSUME k < Len(frames') PROVE frames'[k + 1].obj = frames[k].qs
      <4>1. k < Len(frames) /\ k + 1 \in DOMAIN frames'
        BY <2>1, <3>3, <1>3, FramesKept DEF TypeInv, TypeOK
      <4>2. frames'[k + 1].obj = frames[k + 1].obj
        BY <4>1, <1>3, FramesKept
      <4> QED BY <4>1, <4>2, <3>1, <2>1, <1>d
    <3> QED BY <3>1, <3>2, <3>3
  <2> HIDE DEF Called
  <2>2. \A k \in DOMAIN frames' : frames'[k].pc = "call" => Called(k)' /\ (k < Len(frames') => frames'[k + 1].obj = frames'[k].qs)
    BY <2>1
  <2> QED BY <2>2 DEF Calls, Called
<1> QED BY <1>1, <1>2, <1>3

-----------------------------------------------------------------------------
(***************************************************************************)
(* What a step does when an edge is followed or a call returns.            *)
(***************************************************************************)
\* Looking up the node an edge leads to finds the object that stands for it.
LEMMA LookUp ==
  ASSUME StacksInv, NEW r \in 1 .. Len(rgnodevec) + 1, FireTo(r), NEW o \in DOMAIN obj
  PROVE  Same(o, r, Dest) <=> NodeOf(o) = <<Target, Dest>>
<1>1. obj[o].rg \in DOMAIN rgnodevec /\ rgnodevec \in Seq(Markings)
  BY DEF StacksInv, TypeInv, TypeOK, NoDangling
<1>2. CASE r \in DOMAIN rgnodevec /\ rgnodevec[r] = Target
  BY <1>1, <1>2 DEF StacksInv, RGNodesDiffer, Same, NodeOf
<1>3. CASE (\A i \in DOMAIN rgnodevec : rgnodevec[i] # Target) /\ r = Len(rgnodevec) + 1
  <2>1. r \notin DOMAIN rgnodevec
    BY <1>1, <1>3
  <2> QED BY <2>1, <1>1, <1>3 DEF Same, NodeOf
<1> QED BY <1>2, <1>3 DEF FireTo

\* The edge an exploring activation is at.
LEMMA ExploringFacts ==
  ASSUME StacksInv, Exploring
  PROVE  /\ frames # <<>> /\ Top.pc = "loop" /\ Top.obj \in DOMAIN obj /\ result
         /\ top \in DOMAIN path /\ path[top] = NodeOf(Top.obj)
         /\ Top.edge \in 0 .. EdgesOf(path[top]) - 1
         /\ EdgeTo(path[top], Top.edge) = <<Target, Dest>>
         /\ isLabel(Target, Dest) => <<Target, Dest>> \in Post(path[top])
<1>1. frames # <<>> /\ Top.pc = "loop" /\ result
  BY DEF Exploring, Running
<1>2. Top.obj \in DOMAIN obj
  BY <1>1, TopType DEF StacksInv
<1>3. top \in DOMAIN path /\ path[top] = NodeOf(Top.obj)
  BY <1>1, TopPosition, SameNode
<1> QED BY <1>1, <1>2, <1>3, EdgeLeads DEF StacksInv

\* CloseCycle: the node reached is open, and the highest open accepting node
\* decides whether the cycle is accepting.
LEMMA CycleFacts ==
  ASSUME StacksInv, AstackMatches, [Next]_vars, CloseCycle
  PROVE  /\ Exploring /\ ~Enter /\ cstack' = cstack /\ h' = h /\ timeup' = timeup
         /\ \E p \in DOMAIN path :
              /\ path[p] = EdgeTo(path[top], Top.edge) /\ path[p] \in Post(path[top])
              /\ lowlinks'[top] = Smaller(lowlinks[top], lowlinks[p])
              /\ \/ result' = FALSE /\ Return /\ \E a \in accepting : p <= a
                 \/ NextEdge /\ result' = result /\ \A a \in accepting : a < p
<1>1. Exploring /\ isLabel(Target, Dest) /\ cstack' = cstack /\ h' = h /\ timeup' = timeup
  BY DEF CloseCycle
<1>2. ~Enter
  BY <1>1 DEF Exploring, Running, Enter, EnterWith
<1>3. PICK r \in 1 .. Len(rgnodevec) + 1, p \in DOMAIN cstack :
        /\ FireTo(r) /\ Same(cstack[p], r, Dest)
        /\ obj' = [obj EXCEPT ![Top.obj].lowlink = Smaller(@, obj[cstack[p]].lowlink)]
        /\ \/ AcceptingAbove(obj[cstack[p]].id) /\ result' = FALSE /\ Return
           \/ ~AcceptingAbove(obj[cstack[p]].id) /\ NextEdge /\ result' = result
  BY DEF CloseCycle, OnStackAt
<1>4. PICK d \in Nat, e \in Nat : DOMAIN cstack = 1 .. d /\ e = Len(astack) /\ DOMAIN astack = 1 .. e
  BY DEF StacksInv, TypeInv, TypeOK
<1>5. /\ \A q \in DOMAIN cstack : cstack[q] \in DOMAIN obj /\ obj[cstack[q]].id = q - 1
      /\ obj \in Seq(Objects) /\ astack \in Seq(DOMAIN obj) /\ DOMAIN path = DOMAIN cstack
  BY DEF StacksInv, TypeInv, TypeOK, IdIsPosition, path
<1>6. path[p] = <<Target, Dest>>
  BY <1>3, <1>5, LookUp DEF path
<1>7. path[p] = EdgeTo(path[top], Top.edge) /\ path[p] \in Post(path[top])
  BY <1>1, <1>6, ExploringFacts
<1>8. lowlinks'[top] = Smaller(lowlinks[top], lowlinks[p])
  <2>1. top \in DOMAIN cstack /\ cstack[top] = Top.obj /\ Top.obj \in DOMAIN obj
    BY <1>1, ExploringFacts, TopPosition
  <2>2. obj[Top.obj] \in Objects
    BY <2>1, <1>5
  <2>3. obj'[Top.obj].lowlink = Smaller(obj[Top.obj].lowlink, obj[cstack[p]].lowlink)
    BY <2>1, <2>2, <1>3 DEF Objects
  <2> QED BY <2>1, <2>3, <1>1 DEF lowlinks
<1>9. \A a \in accepting : a \in 1 .. d /\ obj[cstack[a]].id = a - 1
  BY <1>4, <1>5 DEF accepting
<1>10. AcceptingAbove(obj[cstack[p]].id) <=> \E a \in accepting : p <= a
  <2>1. obj[cstack[p]].id = p - 1 /\ p \in 1 .. d
    BY <1>4, <1>5
  <2>2. CASE e = 0
    <3>1. accepting = {} /\ astack = <<>>
      BY <2>2, <1>4, <1>5 DEF AstackMatches
    <3> QED BY <3>1 DEF AcceptingAbove
  <2>3. CASE e > 0
    <3>1. e \in 1 .. e /\ astack # <<>> /\ Last(astack) = astack[e]
      BY <2>3, <1>4 DEF Last
    <3>2. PICK a \in accepting : cstack[a] = astack[e]
      BY <3>1, <1>4 DEF AstackMatches
    <3>3. AcceptingAbove(obj[cstack[p]].id) <=> a - 1 >= p - 1
      BY <3>1, <3>2, <2>1, <1>9 DEF AcceptingAbove
    <3>4. \A b \in accepting : b <= a
      <4> TAKE b \in accepting
      <4>1. PICK i \in 1 .. e : astack[i] = cstack[b]
        BY <1>4 DEF AstackMatches
      <4>2. i = e \/ i < e
        OBVIOUS
      <4>3. CASE i = e
        BY <4>1, <4>3, <3>2, <1>9
      <4>4. CASE i < e
        <5>1. obj[astack[i]].id < obj[astack[e]].id
          BY <4>4, <3>1, <1>4 DEF AstackMatches
        <5> QED BY <5>1, <4>1, <3>2, <1>9
      <4> QED BY <4>2, <4>3, <4>4
    <3> QED BY <3>3, <3>4, <2>1, <1>9
  <2> QED BY <2>2, <2>3, <1>4
<1>11. (\A a \in accepting : a < p) <=> ~\E a \in accepting : p <= a
  BY <1>4, <1>9
<1> QED BY <1>1, <1>2, <1>3, <1>5, <1>7, <1>8, <1>10, <1>11

\* AfterCall: the node called is the one the edge leads to.
LEMMA CallFacts ==
  ASSUME StacksInv, Calls, [Next]_vars, AfterCall
  PROVE  /\ frames # <<>> /\ Top.pc = "call" /\ NextEdge /\ ~Enter
         /\ UNCHANGED <<rgnodevec, cstack, h, result, timeup>>
         /\ top \in DOMAIN path /\ path[top] = NodeOf(Top.obj) /\ Top.qs \in DOMAIN obj
         /\ Top.edge \in 0 .. EdgesOf(path[top]) - 1
         /\ NodeOf(Top.qs) = EdgeTo(path[top], Top.edge)
         /\ NodeOf(Top.qs) \in sys.label /\ NodeOf(Top.qs) \in Post(path[top])
         /\ lowlinks'[top] = Smaller(lowlinks[top], obj[Top.qs].lowlink)
<1>1. /\ frames # <<>> /\ Top.pc = "call" /\ NextEdge /\ UNCHANGED <<rgnodevec, cstack, h, result, timeup>>
      /\ obj' = [obj EXCEPT ![Top.obj].lowlink = Smaller(@, obj[Top.qs].lowlink)]
  BY DEF AfterCall, Running
<1>2. ~Enter
  BY <1>1 DEF Running, Enter, EnterWith
<1>3. /\ top \in DOMAIN cstack /\ cstack[top] = Top.obj /\ path[top] = NodeOf(Top.obj) /\ top \in DOMAIN path
      /\ Len(frames) \in DOMAIN frames /\ Top = frames[Len(frames)] /\ Top.obj \in DOMAIN obj
  BY <1>1, TopPosition, TopType, SameNode DEF StacksInv
<1>4. Top.qs \in DOMAIN obj
  BY <1>1, <1>3 DEF StacksInv, TypeInv, NoDangling
<1>5. /\ Top.edge \in 0 .. EdgesOf(path[top]) - 1
      /\ NodeOf(Top.qs) = EdgeTo(path[top], Top.edge)
      /\ NodeOf(Top.qs) \in sys.label
  BY <1>1, <1>3 DEF Calls
<1>6. NodeOf(Top.qs) \in Post(path[top])
  <2>1. path[top] \in ProductNodes
    BY <1>3, NodesInProduct DEF StacksInv
  <2>2. Post(path[top]) = {EdgeTo(path[top], e) : e \in 0 .. EdgesOf(path[top]) - 1} \cap sys.label
    BY <2>1, PostIsEdges DEF StacksInv
  <2> QED BY <2>2, <1>5
<1>7. lowlinks'[top] = Smaller(lowlinks[top], obj[Top.qs].lowlink)
  <2>1. obj[Top.obj] \in Objects
    BY <1>3 DEF StacksInv, TypeInv, TypeOK
  <2>2. obj'[Top.obj].lowlink = Smaller(obj[Top.obj].lowlink, obj[Top.qs].lowlink)
    BY <2>1, <1>1, <1>3 DEF Objects
  <2> QED BY <2>2, <1>1, <1>3 DEF lowlinks
<1> QED BY <1>1, <1>2, <1>3, <1>4, <1>5, <1>6, <1>7

\* SkipEdge and CrossEdge: the edge leads to no node, or to a closed one.
LEMMA SkipCrossFacts ==
  ASSUME StacksInv, [Next]_vars, SkipEdge \/ CrossEdge
  PROVE  /\ Exploring /\ frames # <<>> /\ NextEdge /\ ~Enter /\ UNCHANGED <<obj, cstack, h, result, timeup>>
         /\ Top.edge \in 0 .. EdgesOf(path[top]) - 1
         /\ \/ EdgeTo(path[top], Top.edge) \notin sys.label
            \/ /\ EdgeTo(path[top], Top.edge) \in closed
               /\ \A q \in DOMAIN path : path[q] # EdgeTo(path[top], Top.edge)
<1>1. Exploring /\ NextEdge /\ UNCHANGED <<obj, cstack, h, result, timeup>>
  BY DEF SkipEdge, CrossEdge
<1>2. ~Enter
  BY <1>1 DEF Exploring, Running, Enter, EnterWith
<1>3. EdgeTo(path[top], Top.edge) = <<Target, Dest>>
  BY <1>1, ExploringFacts
<1>4. CASE SkipEdge
  BY <1>1, <1>2, <1>3, <1>4, ExploringFacts DEF SkipEdge, isLabel
<1>5. CASE CrossEdge
  <2>1. PICK r \in 1 .. Len(rgnodevec) + 1 : FireTo(r) /\ ~OnStack(r, Dest) /\ Closed(r, Dest)
    BY <1>5 DEF CrossEdge
  <2>2. \A q \in DOMAIN cstack : cstack[q] \in DOMAIN obj
    BY DEF StacksInv, TypeInv, TypeOK
  <2>3. h \subseteq DOMAIN obj
    BY DEF StacksInv, TypeInv, TypeOK
  <2>4. <<Target, Dest>> \in closed
    BY <2>1, <2>3, LookUp DEF Closed, closed
  <2>5. \A q \in DOMAIN path : path[q] # <<Target, Dest>>
    BY <2>1, <2>2, LookUp DEF OnStack, path
  <2> QED BY <2>4, <2>5, <1>1, <1>2, <1>3, ExploringFacts
<1> QED BY <1>4, <1>5

\* TreeEdge: the node called is neither open nor closed.
LEMMA TreeFacts ==
  ASSUME StacksInv, [Next]_vars, TreeEdge
  PROVE  /\ Exploring /\ UNCHANGED <<cstack, astack, h, initial_status, next, phase, result, timeup>>
         /\ \E new, u :
              /\ new = Len(obj) + 1 /\ NodeOf(new)' = u /\ DOMAIN obj' = DOMAIN obj \cup {new}
              /\ \A o \in DOMAIN obj : obj'[o] = obj[o]
              /\ u \in Post(path[top]) /\ u \notin closed /\ \A q \in DOMAIN path : path[q] # u
<1>1. Exploring /\ isLabel(Target, Dest) /\ UNCHANGED <<cstack, astack, h, initial_status, next, phase, result, timeup>>
  BY DEF TreeEdge
<1>2. PICK r \in 1 .. Len(rgnodevec) + 1 :
        FireTo(r) /\ ~OnStack(r, Dest) /\ ~Closed(r, Dest) /\ obj' = Append(obj, Object(r, Dest, 0, 0))
  BY DEF TreeEdge
<1>3. rgnodevec \in Seq(Markings) /\ obj \in Seq(Objects) /\ h \subseteq DOMAIN obj
      /\ \A q \in DOMAIN cstack : cstack[q] \in DOMAIN obj
  BY DEF StacksInv, TypeInv, TypeOK
<1>4. PICK new : new = Len(obj) + 1
  OBVIOUS
<1>5. DOMAIN obj' = DOMAIN obj \cup {new} /\ obj'[new] = Object(r, Dest, 0, 0)
      /\ \A o \in DOMAIN obj : obj'[o] = obj[o]
  BY <1>2, <1>3, <1>4
<1>6. NodeOf(new)' = <<Target, Dest>>
  <2>1. rgnodevec'[r] = Target
    BY <1>2, <1>3 DEF FireTo
  <2> QED BY <2>1, <1>5 DEF NodeOf, Object
<1>7. <<Target, Dest>> \in Post(path[top])
  BY <1>1, ExploringFacts
<1>8. <<Target, Dest>> \notin closed
  BY <1>2, <1>3, LookUp DEF Closed, closed
<1>9. \A q \in DOMAIN path : path[q] # <<Target, Dest>>
  BY <1>2, <1>3, LookUp DEF OnStack, path
<1> QED BY <1>1, <1>4, <1>5, <1>6, <1>7, <1>8, <1>9

-----------------------------------------------------------------------------
(***************************************************************************)
(* The accepting nodes on the stack.                                       *)
(***************************************************************************)
\* The positions of the nodes on astack.
LEMMA AstackPositions ==
  ASSUME StacksInv, AstackMatches
  PROVE  /\ astack \in Seq(DOMAIN obj) /\ cstack \in Seq(DOMAIN obj) /\ obj \in Seq(Objects)
         /\ \A p \in DOMAIN cstack : cstack[p] \in DOMAIN obj /\ obj[cstack[p]].id + 1 = p
                                     /\ obj[cstack[p]].id \in Nat
         /\ \A i \in DOMAIN astack : obj[astack[i]].id + 1 \in accepting
                                     /\ cstack[obj[astack[i]].id + 1] = astack[i]
         /\ accepting \subseteq DOMAIN cstack
<1>1. astack \in Seq(DOMAIN obj) /\ cstack \in Seq(DOMAIN obj) /\ obj \in Seq(Objects)
  BY DEF StacksInv, TypeInv, TypeOK
<1>2. \A p \in DOMAIN cstack : cstack[p] \in DOMAIN obj /\ obj[cstack[p]].id + 1 = p
                                /\ obj[cstack[p]].id \in Nat
  <2>1. \A p \in DOMAIN cstack : cstack[p] \in DOMAIN obj
    BY <1>1
  <2>2. \A p \in DOMAIN cstack : obj[cstack[p]] \in Objects
    BY <1>1, <2>1
  <2> QED BY <2>1, <2>2, Positions DEF Objects
<1>3. accepting \subseteq DOMAIN cstack
  BY DEF accepting
<1>4. \A i \in DOMAIN astack : obj[astack[i]].id + 1 \in accepting
                                /\ cstack[obj[astack[i]].id + 1] = astack[i]
  <2> SUFFICES ASSUME NEW i \in DOMAIN astack
               PROVE  obj[astack[i]].id + 1 \in accepting /\ cstack[obj[astack[i]].id + 1] = astack[i]
      OBVIOUS
  <2>1. PICK p \in accepting : cstack[p] = astack[i]
    BY DEF AstackMatches
  <2>2. obj[astack[i]].id + 1 = p
    BY <2>1, <1>2, <1>3
  <2> QED BY <2>1, <2>2
<1> QED BY <1>1, <1>2, <1>3, <1>4

\* CloseOne pops astack exactly when the node it closes is accepting.
LEMMA AstackClosed ==
  ASSUME StacksInv, AstackMatches, [Next]_vars, CloseOne
  PROVE  AstackMatches'
<1>1. PICK n \in Nat \ {0}, d \in Nat \ {0} :
        /\ DOMAIN path = 1 .. d /\ d = Len(cstack)
        /\ \A p \in 1 .. d - 1 : cstack'[p] = cstack[p]
        /\ accepting' = accepting \ {d} /\ obj' = obj
  BY CloseViews
<1>2. /\ DOMAIN cstack = 1 .. d /\ d \in 1 .. d
      /\ Last(cstack) = cstack[d]
      /\ astack' = IF astack # <<>> /\ astack[Len(astack)] = cstack[d] THEN Front(astack) ELSE astack
  BY <1>1, SameNode DEF CloseOne, CloseRound, AcceptingOnTop, Last
<1>3. PICK m \in Nat : m = Len(astack) /\ DOMAIN astack = 1 .. m /\ (astack = <<>> <=> m = 0)
  BY AstackPositions
<1>4. astack # <<>> => DOMAIN Front(astack) = 1 .. m - 1 /\ \A i \in 1 .. m - 1 : Front(astack)[i] = astack[i]
  BY <1>3, AstackPositions DEF Front
<1>5. accepting \subseteq 1 .. d
  BY <1>2, AstackPositions
<1>6. \A i, j \in 1 .. m : i < j => obj[astack[i]].id < obj[astack[j]].id
  BY <1>3 DEF AstackMatches
<1>7. \A i \in 1 .. m : obj[astack[i]].id + 1 \in accepting /\ cstack[obj[astack[i]].id + 1] = astack[i]
                         /\ obj[astack[i]].id \in Nat
  <2>1. \A i \in 1 .. m : astack[i] \in DOMAIN obj
    BY <1>3, AstackPositions
  <2> QED BY <2>1, <1>3, AstackPositions DEF Objects
<1>8. \A p \in accepting : \E i \in 1 .. m : astack[i] = cstack[p]
  BY <1>3 DEF AstackMatches
<1>9. \A p \in 1 .. d : obj[cstack[p]].id + 1 = p /\ obj[cstack[p]].id \in Nat
  BY <1>2, AstackPositions
<1>10. CASE d \in accepting
  <2>1. PICK i \in 1 .. m : astack[i] = cstack[d]
    BY <1>8, <1>10
  <2>2. obj[astack[i]].id + 1 = d
    BY <2>1, <1>9, <1>2
  <2>3. ~(i < m)
    <3> SUFFICES ASSUME i < m PROVE FALSE
        OBVIOUS
    <3>1. m \in 1 .. m /\ obj[astack[i]].id < obj[astack[m]].id
      BY <1>6, <1>3, <2>1
    <3>2. obj[astack[m]].id + 1 \in 1 .. d /\ obj[astack[m]].id \in Nat /\ obj[astack[i]].id \in Nat
      BY <3>1, <1>5, <1>7
    <3> QED BY <3>1, <3>2, <2>2
  <2>4. i = m /\ astack # <<>> /\ m \in 1 .. m
    BY <2>3, <2>1, <1>3
  <2>5. DOMAIN astack' = 1 .. m - 1 /\ \A k \in 1 .. m - 1 : astack'[k] = astack[k] /\ k \in 1 .. m
    BY <2>1, <2>4, <1>2, <1>3, <1>4
  <2>6. \A k \in 1 .. m - 1 : obj[astack[k]].id < obj[astack[m]].id
    BY <1>6, <2>4, <2>5
  <2>7. \A k \in DOMAIN astack' : \E p \in accepting' : cstack'[p] = astack'[k]
    <3> SUFFICES ASSUME NEW k \in 1 .. m - 1
                 PROVE  \E p \in accepting' : cstack'[p] = astack'[k]
      BY <2>5
    <3>1. PICK q \in Nat : q = obj[astack[k]].id /\ q + 1 \in accepting /\ cstack[q + 1] = astack[k]
      BY <2>5, <1>7
    <3>2. q + 1 < d
      <4>1. q < obj[astack[m]].id /\ obj[astack[m]].id + 1 = d /\ obj[astack[m]].id \in Nat
        BY <3>1, <2>2, <2>4, <2>6, <1>7
      <4> QED BY <4>1
    <3>3. q + 1 \in 1 .. d - 1
      BY <3>2
    <3> QED BY <3>1, <3>2, <3>3, <2>5, <1>1
  <2>8. \A k, l \in DOMAIN astack' : k < l => obj'[astack'[k]].id < obj'[astack'[l]].id
    BY <2>5, <1>1, <1>6
  <2>9. \A p \in accepting' : \E k \in DOMAIN astack' : astack'[k] = cstack'[p]
    <3> SUFFICES ASSUME NEW p \in accepting, p # d
                 PROVE  \E k \in DOMAIN astack' : astack'[k] = cstack'[p]
      BY <1>1
    <3>1. PICK k \in 1 .. m : astack[k] = cstack[p]
      BY <1>8
    <3>2. p \in 1 .. d - 1 /\ p \in 1 .. d
      BY <1>5
    <3>3. obj[astack[k]].id + 1 = p
      BY <3>1, <3>2, <1>9
    <3>4. k # m
      BY <3>3, <2>2, <2>4
    <3>5. k \in 1 .. m - 1
      BY <3>4
    <3> QED BY <3>1, <3>2, <3>5, <2>5, <1>1
  <2> QED BY <2>7, <2>8, <2>9 DEF AstackMatches
<1>11. CASE d \notin accepting
  <2>1. astack # <<>> => astack[m] # cstack[d]
    <3> SUFFICES ASSUME astack # <<>>, astack[m] = cstack[d] PROVE FALSE
        OBVIOUS
    <3>1. m \in 1 .. m
      BY <1>3
    <3>2. obj[astack[m]].id + 1 \in accepting
      BY <3>1, <1>7
    <3> QED BY <3>2, <1>9, <1>2, <1>11
  <2>2. astack' = astack
    BY <2>1, <1>2, <1>3
  <2>3. accepting' = accepting /\ \A p \in accepting : cstack'[p] = cstack[p]
    <3>1. \A p \in accepting : p \in 1 .. d - 1
      BY <1>5, <1>11
    <3> QED BY <3>1, <1>1, <1>11
  <2> QED BY <2>2, <2>3, <1>1 DEF AstackMatches
<1> QED BY <1>10, <1>11

\* An accepting node goes on both stacks.
LEMMA AstackEntered ==
  ASSUME RoomForAll, StacksInv, AstackMatches, [Next]_vars, Enter
  PROVE  AstackMatches'
<1>1. PICK n \in Nat \ {0}, d \in Nat :
        /\ DOMAIN path = 1 .. d
        /\ Top.obj \in DOMAIN obj
        /\ \A p \in DOMAIN cstack : cstack[p] # Top.obj
        /\ cstack' = Append(cstack, Top.obj) /\ d = Len(cstack)
        /\ \A p \in 1 .. d : p \in accepting' <=> p \in accepting
        /\ accepting' \subseteq 1 .. d + 1
        /\ d + 1 \in accepting' <=> obj[Top.obj].ba \in sys.accepted
        /\ Top' = frames'[n] /\ frames'[n] = Frame(Top.obj, "loop", 0, 0) /\ Node'.id = d
        /\ \A x \in DOMAIN obj : x # Top.obj => obj'[x] = obj[x]
  BY EnterViews
<1>2. PICK o \in DOMAIN obj : o = Top.obj
  BY <1>1
<1>3. obj'[o].id = d
  BY <1>1, <1>2 DEF Node, Frame
<1>4. /\ DOMAIN cstack = 1 .. d /\ cstack'[d + 1] = o
      /\ \A p \in 1 .. d : cstack'[p] = cstack[p] /\ cstack[p] # o /\ cstack[p] \in DOMAIN obj
  <2>1. cstack \in Seq(DOMAIN obj) /\ DOMAIN cstack = 1 .. d /\ cstack' = Append(cstack, o)
    BY <1>1, <1>2, AstackPositions
  <2> DEFINE c == cstack
  <2>2. Append(c, o)[d + 1] = o /\ \A p \in 1 .. d : Append(c, o)[p] = c[p]
    <3>1. c \in Seq(DOMAIN obj) /\ d = Len(c) /\ d \in Nat
      BY <2>1, <1>1
    <3> HIDE DEF c
    <3> QED BY <3>1
  <2> QED BY <2>1, <2>2, <1>1, <1>2
<1>5. astack' = IF obj[o].ba \in sys.accepted THEN Append(astack, o) ELSE astack
  BY <1>2 DEF Enter, EnterWith, Node
<1>6. PICK m \in Nat : m = Len(astack) /\ DOMAIN astack = 1 .. m
  BY AstackPositions
<1>7. DOMAIN Append(astack, o) = 1 .. m + 1 /\ Append(astack, o)[m + 1] = o
      /\ \A i \in 1 .. m : Append(astack, o)[i] = astack[i]
  BY <1>6, AstackPositions
<1>8. \A i \in 1 .. m : \E p \in accepting : cstack[p] = astack[i]
  BY <1>6 DEF AstackMatches
<1>9. accepting \subseteq 1 .. d
  BY <1>4, AstackPositions
<1>10. \A i \in 1 .. m : /\ \E p \in accepting' : cstack'[p] = astack[i]
                         /\ obj'[astack[i]].id = obj[astack[i]].id
                         /\ obj[astack[i]].id \in Nat /\ obj[astack[i]].id < d
  <2> SUFFICES ASSUME NEW i \in 1 .. m
               PROVE  /\ \E p \in accepting' : cstack'[p] = astack[i]
                      /\ obj'[astack[i]].id = obj[astack[i]].id
                      /\ obj[astack[i]].id \in Nat /\ obj[astack[i]].id < d
      OBVIOUS
  <2>1. PICK p \in accepting : cstack[p] = astack[i]
    BY <1>8
  <2>2. p \in 1 .. d
    BY <1>9
  <2>3. p \in accepting' /\ cstack'[p] = astack[i]
    BY <2>1, <2>2, <1>1, <1>4
  <2>4. obj'[astack[i]] = obj[astack[i]]
    BY <2>1, <2>2, <1>1, <1>2, <1>4
  <2>5. obj[astack[i]].id + 1 = p /\ obj[astack[i]].id \in Nat
    BY <2>1, <2>2, <1>4, AstackPositions
  <2> QED BY <2>2, <2>3, <2>4, <2>5
<1>11. \A i, j \in 1 .. m : i < j => obj'[astack[i]].id < obj'[astack[j]].id
  BY <1>6, <1>10 DEF AstackMatches
<1>12. \A p \in accepting : \E i \in 1 .. m : astack[i] = cstack'[p]
  BY <1>4, <1>6, <1>9 DEF AstackMatches
<1>13. CASE obj[o].ba \in sys.accepted
  <2>1. DOMAIN astack' = 1 .. m + 1 /\ astack'[m + 1] = o /\ \A i \in 1 .. m : astack'[i] = astack[i]
    BY <1>5, <1>7, <1>13
  <2>2. d + 1 \in accepting'
    BY <1>1, <1>2, <1>13
  <2>3. \A i \in 1 .. m + 1 : i \in 1 .. m \/ i = m + 1
    OBVIOUS
  <2>4. \A i \in DOMAIN astack' : \E p \in accepting' : cstack'[p] = astack'[i]
    BY <2>1, <2>2, <2>3, <1>4, <1>10
  <2>5. \A i, j \in DOMAIN astack' : i < j => obj'[astack'[i]].id < obj'[astack'[j]].id
    <3> SUFFICES ASSUME NEW i \in 1 .. m + 1, NEW j \in 1 .. m + 1, i < j
                 PROVE  obj'[astack'[i]].id < obj'[astack'[j]].id
      BY <2>1
    <3>1. i \in 1 .. m
      OBVIOUS
    <3>2. CASE j \in 1 .. m
      BY <3>1, <3>2, <2>1, <1>11
    <3>3. CASE j = m + 1
      BY <3>1, <3>3, <2>1, <1>3, <1>10
    <3> QED BY <3>2, <3>3
  <2>6. \A p \in accepting' : \E i \in DOMAIN astack' : astack'[i] = cstack'[p]
    <3> SUFFICES ASSUME NEW p \in accepting' PROVE \E i \in DOMAIN astack' : astack'[i] = cstack'[p]
        OBVIOUS
    <3>1. p \in 1 .. d \/ p = d + 1
      BY <1>1
    <3>2. CASE p \in 1 .. d
      <4>1. PICK i \in 1 .. m : astack[i] = cstack'[p]
        BY <3>2, <1>1, <1>12
      <4>2. i \in 1 .. m + 1
        OBVIOUS
      <4> QED BY <4>1, <4>2, <2>1
    <3>3. CASE p = d + 1
      BY <3>3, <2>1, <1>4
    <3> QED BY <3>1, <3>2, <3>3
  <2> QED BY <2>4, <2>5, <2>6 DEF AstackMatches
<1>14. CASE obj[o].ba \notin sys.accepted
  <2>1. astack' = astack
    BY <1>5, <1>14
  <2>2. \A p \in accepting' : p \in accepting
    <3>1. \A p \in 1 .. d + 1 : p \in 1 .. d \/ p = d + 1
      OBVIOUS
    <3> QED BY <3>1, <1>1, <1>2, <1>14
  <2> QED BY <2>1, <2>2, <1>6, <1>10, <1>11, <1>12 DEF AstackMatches
<1> QED BY <1>13, <1>14

\* Every step keeps astack the accepting part of cstack.
LEMMA AstackKept ==
  ASSUME RoomForAll, StacksInv, AstackMatches, [Next]_vars
  PROVE  AstackMatches'
<1>1. CASE Enter
  BY <1>1, AstackEntered
<1>2. CASE CloseOne
  BY <1>2, AstackClosed
<1>3. CASE ~Enter /\ ~CloseOne
  <2>1. cstack' = cstack /\ astack' = astack
    BY <1>3 DEF Next, Step, vars, GetInitNode, StartSearch, SearchFrom, Finish, EnterTooLate,
         EnterDecided, LeaveDecided, SkipEdge, CloseCycle, CrossEdge, TreeEdge, AfterCall,
         LeaveOpen, Done
  <2>2. accepting' = accepting
    BY <2>1, PathKept
  <2>3. \A o \in DOMAIN obj : obj'[o].id = obj[o].id
    BY <1>3, ObjectsKept
  <2>4. \A i \in DOMAIN astack : astack[i] \in DOMAIN obj
    BY AstackPositions
  <2> QED BY <2>1, <2>2, <2>3, <2>4 DEF AstackMatches
<1> QED BY <1>1, <1>2, <1>3

-----------------------------------------------------------------------------
(***************************************************************************)
(* The clock, the verdict and the call that has just returned.             *)
(***************************************************************************)
\* The time once up stays up, and only CloseCycle decides.
LEMMA DecidedOnce ==
  ASSUME [Next]_vars
  PROVE  (timeup => timeup') /\ (~CloseCycle => result' = result) /\ (TypeInv => (Live' => Live))
<1>1. timeup => timeup'
  BY DEF Next, Step, vars, GetInitNode, StartSearch, SearchFrom, Finish, EnterTooLate,
         EnterDecided, Enter, EnterWith, LeaveDecided, SkipEdge, CloseCycle, CrossEdge, TreeEdge,
         AfterCall, LeaveOpen, CloseOne, CloseRound, Done
<1>2. ~CloseCycle => result' = result
  BY DEF Next, Step, vars, GetInitNode, StartSearch, SearchFrom, Finish, EnterTooLate,
         EnterDecided, Enter, EnterWith, LeaveDecided, SkipEdge, CrossEdge, TreeEdge,
         AfterCall, LeaveOpen, CloseOne, CloseRound, Done
<1>3. CloseCycle => result
  BY DEF CloseCycle, Exploring
<1> QED BY <1>1, <1>2, <1>3 DEF Live, TypeInv, TypeOK

\* The activation that is returned to waits for the one that returns.
LEMMA ReturnsTo ==
  ASSUME StacksInv, Calls, frames # <<>>, Return, frames' # <<>>
  PROVE  \E n \in Nat : /\ n = Len(frames) /\ n > 1 /\ Len(frames') = n - 1
                        /\ Top' = frames[n - 1] /\ frames'[n - 1] = frames[n - 1]
                        /\ n - 1 \in DOMAIN frames
                        /\ frames[n - 1].pc = "call" /\ frames[n - 1].qs = Top.obj
<1>1. PICK n \in Nat : n = Len(frames) /\ n > 0 /\ DOMAIN frames = 1 .. n /\ frames \in Seq(Frames)
                       /\ Top = frames[n]
  BY DEF StacksInv, TypeInv, TypeOK, Top, Last
<1>2. DOMAIN frames' = 1 .. n - 1 /\ Len(frames') = n - 1
      /\ \A k \in 1 .. n - 1 : frames'[k] = frames[k]
  BY <1>1 DEF Return, Front
<1>3. n > 1
  <2>1. n = 1 => frames' = <<>>
    BY <1>1 DEF Return, Front
  <2> QED BY <2>1, <1>1
<1>4. n - 1 \in 1 .. n - 1 /\ n - 1 \in DOMAIN frames /\ n - 1 < n /\ (n - 1) + 1 = n
  BY <1>1, <1>3
<1>5. Top' = frames[n - 1]
  BY <1>2, <1>4 DEF Top, Last
<1>6. frames[n - 1].pc = "call"
  BY <1>1, <1>4 DEF StacksInv, Suspended
<1>7. frames[n].obj = frames[n - 1].qs
  BY <1>1, <1>4, <1>6 DEF Calls
<1> QED BY <1>1, <1>2, <1>3, <1>4, <1>5, <1>6, <1>7

\* Tarjan is not called on a node once a cycle has been found in time.
LEMMA EnteredKept ==
  ASSUME StacksInv, EnteredInTime, [Next]_vars
  PROVE  EnteredInTime'
<1>1. CASE TreeEdge
  BY <1>1 DEF TreeEdge, Exploring, EnteredInTime
<1>2. CASE SearchFrom
  <2>1. Len(frames') = 1
    BY <1>2 DEF SearchFrom
  <2> QED BY <2>1 DEF EnteredInTime
<1>3. CASE ~TreeEdge /\ ~SearchFrom
  <2>1. Running("enter")' => Running("enter") /\ frames' = frames
    BY <1>3, FramesKept
  <2>2. CloseCycle => ~Running("enter")
    BY DEF CloseCycle, Exploring, Running
  <2> QED BY <2>1, <2>2, DecidedOnce DEF EnteredInTime
<1> QED BY <1>1, <1>2, <1>3

\* A call returns a node that is still open, or a lowlink that tells nothing.
LEMMA ReturnedKept ==
  ASSUME StacksInv, Calls, EnteredInTime, Returned, [Next]_vars
  PROVE  Returned'
<1>a. frames \in Seq(Frames)
  BY DEF StacksInv, TypeInv, TypeOK
<1>1. CASE UNCHANGED <<frames, obj, cstack, timeup>>
  BY <1>1 DEF Returned, Running, Top, Last
<1>2. CASE SearchFrom
  <2>1. Top'.pc = "enter"
    BY <1>2 DEF SearchFrom, Top, Last, Frame
  <2> QED BY <2>1 DEF Returned, Running
<1>3. CASE TreeEdge
  <2>1. Top'.pc = "enter"
    BY <1>3, TreeViews DEF Frame
  <2> QED BY <2>1 DEF Returned, Running
<1>4. CASE frames # <<>> /\ NextEdge
  <2>1. Top'.pc = "loop"
    <3> DEFINE f == Frame(Top.obj, "loop", Top.edge + 1, 0)
    <3>1. frames' \in Seq(Frames) /\ DOMAIN frames' = DOMAIN frames /\ frames'[Len(frames)] = f /\ f.pc = "loop"
      <4>1. f \in Frames /\ f.pc = "loop" /\ Continue(f)
        BY <1>4, TopType DEF StacksInv, NextEdge, Frame, Frames
      <4> HIDE DEF f
      <4> QED BY <4>1, <1>4, ContinueType DEF StacksInv
    <3>2. Len(frames') = Len(frames)
      BY <3>1, <1>a
    <3> HIDE DEF f
    <3> QED BY <3>1, <3>2 DEF Top, Last
  <2> QED BY <2>1 DEF Returned, Running
<1>5. CASE Enter
  <2>1. Top'.pc = "loop"
    <3>1. frames # <<>> /\ Continue(Frame(Top.obj, "loop", 0, 0))
      BY <1>5 DEF Enter, EnterWith, Running
    <3> DEFINE f == Frame(Top.obj, "loop", 0, 0)
    <3>2. f \in Frames /\ f.pc = "loop" /\ Continue(f)
      BY <3>1, TopType DEF StacksInv, Frame, Frames
    <3> HIDE DEF f
    <3>3. frames' \in Seq(Frames) /\ DOMAIN frames' = DOMAIN frames /\ frames'[Len(frames)] = f
      BY <3>1, <3>2, ContinueType DEF StacksInv
    <3>4. Len(frames') = Len(frames)
      BY <3>3, <1>a
    <3> QED BY <3>2, <3>3, <3>4 DEF Top, Last
  <2> QED BY <2>1 DEF Returned, Running
<1>6. CASE EnterTooLate
  BY <1>6 DEF EnterTooLate, Returned
<1>7. CASE EnterDecided
  <2>1. ~(Len(frames) > 1)
    BY <1>7 DEF EnterDecided, EnteredInTime
  <2>2. frames # <<>> /\ Return
    BY <1>7 DEF EnterDecided, Running
  <2>3. frames' = <<>>
    BY <2>1, <2>2, ReturnsTo
  <2> QED BY <2>3 DEF Returned, Running
<1>8. CASE frames # <<>> /\ Top.pc = "loop" /\ Return /\ cstack' = cstack
  <2> SUFFICES ASSUME frames' # <<>> PROVE Returned'
    BY DEF Returned, Running
  <2>1. Top'.qs = Top.obj
    BY <1>8, ReturnsTo
  <2>2. top \in DOMAIN cstack /\ cstack[top] = Top.obj
    BY <1>8, TopPosition
  <2> QED BY <2>1, <2>2, <1>8 DEF Returned
<1>9. CASE CloseOne
  <2>1. PICK n \in Nat \ {0}, d \in Nat \ {0} :
        /\ Top.pc = "loop" /\ frames # <<>> /\ Len(cstack') = d - 1 /\ DOMAIN path = 1 .. d
        /\ \/ frames' = frames
           \/ top = d /\ cstack[d] = Top.obj
        /\ obj' = obj
    BY <1>9, CloseViews
  <2>2. CASE frames' = frames
    <3>1. Top'.pc = "loop"
      BY <2>1, <2>2 DEF Top, Last
    <3> QED BY <3>1 DEF Returned, Running
  <2>3. CASE frames' # frames
    <3> SUFFICES ASSUME frames' # <<>> PROVE Returned'
      BY DEF Returned, Running
    <3>1. Return
      BY <1>9, <2>3 DEF CloseOne, CloseRound
    <3>2. Top'.qs = Top.obj
      BY <2>1, <3>1, ReturnsTo
    <3>3. Node.lowlink = Node.id /\ top = d
      BY <1>9, <2>1, <2>3 DEF CloseOne, CloseRound
    <3>4. Node.id \in Nat /\ Node.id + 1 = d
      BY <2>1, <3>3, TopType DEF StacksInv, top, Objects
    <3>5. obj'[Top'.qs].lowlink = Node.id /\ Node.id >= Len(cstack')
      <4>1. obj'[Top'.qs].lowlink = Node.id
        BY <2>1, <3>2, <3>3 DEF Node
      <4>2. Node.id >= d - 1
        BY <3>4
      <4> QED BY <4>1, <4>2, <2>1
    <3>6. obj'[Top'.qs].lowlink >= Len(cstack')
      BY <3>5
    <3> QED BY <3>6 DEF Returned
  <2> QED BY <2>2, <2>3
<1> QED
  BY <1>1, <1>2, <1>3, <1>4, <1>5, <1>6, <1>7, <1>8, <1>9
     DEF Next, Step, vars, GetInitNode, StartSearch, Finish, Done, LeaveDecided, SkipEdge,
         CloseCycle, CrossEdge, AfterCall, LeaveOpen, Exploring, Explored, Running

-----------------------------------------------------------------------------
(***************************************************************************)
(* Lowlinks.                                                               *)
(***************************************************************************)
\* The entries of path and lowlinks.
LEMMA PathEntries ==
  \A p \in DOMAIN cstack : path[p] = NodeOf(cstack[p]) /\ lowlinks[p] = obj[cstack[p]].lowlink
BY DEF path, lowlinks

\* A lowlink is a number, and not above its own node.
LEMMA LowlinkNumbers ==
  ASSUME StacksInv
  PROVE  /\ DOMAIN path = 1 .. Len(cstack) /\ Len(cstack) \in Nat
         /\ DOMAIN lowlinks = DOMAIN path /\ DOMAIN path = DOMAIN cstack
         /\ \A p \in DOMAIN path : lowlinks[p] \in Nat /\ lowlinks[p] < p
<1>1. /\ cstack \in Seq(DOMAIN obj) /\ obj \in Seq(Objects)
  BY DEF StacksInv, TypeInv, TypeOK
<1>2. \A p \in DOMAIN cstack : cstack[p] \in DOMAIN obj /\ obj[cstack[p]] \in Objects
  <2>1. \A p \in DOMAIN cstack : cstack[p] \in DOMAIN obj
    BY <1>1
  <2> QED BY <2>1, <1>1
<1>3. DOMAIN path = DOMAIN cstack
  BY SameNode
<1>4. ASSUME NEW p \in DOMAIN cstack PROVE lowlinks[p] \in Nat /\ lowlinks[p] < p
  <2>1. lowlinks[p] = obj[cstack[p]].lowlink
    BY <1>4 DEF lowlinks
  <2>2. obj[cstack[p]].lowlink \in Nat /\ obj[cstack[p]].id \in Nat
    BY <1>2, <1>4 DEF Objects
  <2>3. obj[cstack[p]].lowlink <= obj[cstack[p]].id
    BY <1>2, <1>4 DEF StacksInv, LowlinkBelow
  <2>4. obj[cstack[p]].id + 1 = p
    BY <1>4, Positions
  <2> QED BY <2>1, <2>2, <2>3, <2>4
<1> QED BY <1>1, <1>3, <1>4 DEF lowlinks

\* Only the running activation's lowlink is lowered.
LEMMA LowlinksKept ==
  ASSUME StacksInv, [Next]_vars, CloseCycle \/ AfterCall
  PROVE  /\ path' = path /\ DOMAIN lowlinks' = DOMAIN path /\ DOMAIN lowlinks = DOMAIN path
         /\ top \in DOMAIN path
         /\ \A p \in DOMAIN path : p # top => lowlinks'[p] = lowlinks[p]
<1>1. /\ frames # <<>> /\ Top.pc # "enter" /\ cstack' = cstack
  BY DEF CloseCycle, AfterCall, Exploring, Running
<1>2. path' = path /\ DOMAIN path = DOMAIN cstack
  BY <1>1, PathKept, SameNode
<1>3. DOMAIN lowlinks' = DOMAIN path /\ DOMAIN lowlinks = DOMAIN path
  BY <1>1, <1>2 DEF lowlinks
<1>4. top \in DOMAIN path
  BY <1>1, <1>2, TopPosition
<1>5. \E x : obj' = [obj EXCEPT ![Top.obj].lowlink = x]
  BY DEF CloseCycle, AfterCall
<1>6. \A o \in DOMAIN obj : o # Top.obj => obj'[o] = obj[o]
  BY <1>5
<1>7. \A p \in DOMAIN cstack : cstack[p] \in DOMAIN obj
  BY DEF StacksInv, TypeInv, TypeOK
<1>8. \A p \in DOMAIN cstack : p # top => cstack[p] # Top.obj
  BY <1>1, TopPosition
<1>9. \A p \in DOMAIN path : p # top => lowlinks'[p] = lowlinks[p]
  BY <1>1, <1>2, <1>6, <1>7, <1>8 DEF lowlinks
<1> QED BY <1>2, <1>3, <1>4, <1>9

\* Every step keeps the lowlinks those of nodes that can be reached.
LEMMA LowlinksReachKept ==
  ASSUME RoomForAll, StacksInv, AstackMatches, Calls, Returned, LowlinksReach, [Next]_vars
  PROVE  LowlinksReach'
<1> SUFFICES ASSUME ~timeup'
             PROVE  \A p \in DOMAIN path' : \E l \in Nat :
                      l = lowlinks'[p] /\ l + 1 \in DOMAIN path' /\ path'[l + 1] \in Reachable({path'[p]})
  <2>1. \A S : Reachable(S)' = Reachable(S)
    BY GraphKept DEF StacksInv
  <2>2. ASSUME NEW p \in DOMAIN path', NEW l \in Nat, l = lowlinks'[p],
               l + 1 \in DOMAIN path', path'[l + 1] \in Reachable({path'[p]})
        PROVE  (lowlinks[p] + 1 \in DOMAIN path /\ path[lowlinks[p] + 1] \in Reachable({path[p]}))'
    <3>1. PICK u : u = path'[p]
      OBVIOUS
    <3>2. path'[l + 1] \in Reachable({u})'
      BY <2>1, <2>2, <3>1
    <3>3. Reachable({path[p]})' = Reachable({u})'
      BY <3>1
    <3> QED BY <2>2, <3>2, <3>3
  <2> QED BY <2>2 DEF LowlinksReach
<1>1. TypeInv /\ ProductIsFinite /\ ~timeup
  BY RoomIsFinite, DecidedOnce DEF StacksInv
<1>3. \A p \in DOMAIN path : \E l \in Nat : /\ l = lowlinks[p] /\ l < p /\ l + 1 \in DOMAIN path
                                            /\ path[l + 1] \in Reachable({path[p]})
  BY <1>1, LowlinkNumbers DEF LowlinksReach
<1>4. CASE Enter
  <2>1. PICK n \in Nat \ {0}, d \in Nat :
          /\ DOMAIN path = 1 .. d /\ DOMAIN path' = 1 .. d + 1
          /\ lowlinks'[d + 1] = d
          /\ \A p \in 1 .. d : path'[p] = path[p] /\ lowlinks'[p] = lowlinks[p]
    BY <1>4, EnterViews
  <2>2. \A u : u \in Reachable({u})
    BY <1>1, ReachFacts
  <2>3. ASSUME NEW p \in 1 .. d + 1
        PROVE  \E l \in Nat :
                 l = lowlinks'[p] /\ l + 1 \in 1 .. d + 1 /\ path'[l + 1] \in Reachable({path'[p]})
    <3>1. CASE p = d + 1
      BY <3>1, <2>1, <2>2
    <3>2. CASE p \in 1 .. d
      <4>1. PICK l \in Nat : l = lowlinks[p] /\ l + 1 \in 1 .. d /\ path[l + 1] \in Reachable({path[p]})
        BY <3>2, <2>1, <1>3
      <4>2. path'[l + 1] = path[l + 1] /\ path'[p] = path[p] /\ l = lowlinks'[p] /\ l + 1 \in 1 .. d + 1
        BY <4>1, <3>2, <2>1
      <4> QED BY <4>1, <4>2
    <3> QED BY <3>1, <3>2
  <2> QED BY <2>1, <2>3
<1>5. CASE CloseOne
  <2>1. PICK n \in Nat \ {0}, d \in Nat \ {0} :
          /\ DOMAIN path = 1 .. d /\ DOMAIN path' = 1 .. d - 1
          /\ \A p \in 1 .. d - 1 : path'[p] = path[p] /\ lowlinks'[p] = lowlinks[p]
    BY <1>5, CloseViews
  <2>2. ASSUME NEW p \in 1 .. d - 1
        PROVE  \E l \in Nat :
                 l = lowlinks'[p] /\ l + 1 \in 1 .. d - 1 /\ path'[l + 1] \in Reachable({path'[p]})
    <3>1. p \in 1 .. d
      BY <2>2
    <3>2. PICK l \in Nat : l = lowlinks[p] /\ l < p /\ path[l + 1] \in Reachable({path[p]})
      BY <3>1, <2>1, <1>3
    <3>3. l + 1 \in 1 .. d - 1
      BY <3>2, <2>2
    <3>4. path'[l + 1] = path[l + 1] /\ path'[p] = path[p] /\ l = lowlinks'[p]
      BY <3>2, <3>3, <2>1, <2>2
    <3> QED BY <3>2, <3>3, <3>4
  <2> QED BY <2>1, <2>2
<1>6. CASE CloseCycle \/ AfterCall
  <2>1. /\ path' = path /\ top \in DOMAIN path
        /\ \A p \in DOMAIN path : p # top => lowlinks'[p] = lowlinks[p]
    BY <1>6, LowlinksKept
  <2>2. \/ lowlinks'[top] = lowlinks[top]
        \/ \E p \in DOMAIN path : path[p] \in Post(path[top]) /\ lowlinks'[top] = lowlinks[p]
    <3>1. CASE CloseCycle
      <4>1. PICK p \in DOMAIN path : path[p] \in Post(path[top]) /\ lowlinks'[top] = Smaller(lowlinks[top], lowlinks[p])
        BY <3>1, CycleFacts
      <4> QED BY <4>1 DEF Smaller
    <3>2. CASE AfterCall
      <4>1. /\ Running("call")
            /\ NodeOf(Top.qs) \in Post(path[top])
            /\ lowlinks'[top] = Smaller(lowlinks[top], obj[Top.qs].lowlink)
        BY <3>2, CallFacts DEF AfterCall
      <4>2. CASE \E p \in DOMAIN cstack : cstack[p] = Top.qs
        <5>1. PICK p \in DOMAIN cstack : cstack[p] = Top.qs
          BY <4>2
        <5>2. p \in DOMAIN path /\ path[p] = NodeOf(Top.qs) /\ lowlinks[p] = obj[Top.qs].lowlink
          BY <5>1, SameNode, PathEntries
        <5> QED BY <5>2, <4>1 DEF Smaller
      <4>3. CASE obj[Top.qs].lowlink >= Len(cstack)
        <5>1. obj[Top.qs].lowlink \in Nat
          <6>1. Top.qs \in DOMAIN obj /\ obj \in Seq(Objects)
            BY <3>2, CallFacts DEF StacksInv, TypeInv, TypeOK
          <6>2. obj[Top.qs] \in Objects
            BY <6>1
          <6> QED BY <6>2 DEF Objects
        <5>2. PICK d \in Nat : d = Len(cstack) /\ DOMAIN path = 1 .. d
          BY LowlinkNumbers
        <5>3. PICK l \in Nat : l = lowlinks[top] /\ l < top
          BY <2>1, <1>3
        <5>4. l < d
          BY <5>2, <5>3, <2>1
        <5>5. l < obj[Top.qs].lowlink
          BY <5>1, <5>2, <5>4, <4>3
        <5>6. Smaller(l, obj[Top.qs].lowlink) = l
          BY <5>1, <5>5 DEF Smaller
        <5> QED BY <5>3, <5>6, <4>1
      <4> QED BY <4>1, <4>2, <4>3, <1>1 DEF Returned
    <3> QED BY <3>1, <3>2, <1>6
  <2>3. ASSUME NEW p \in DOMAIN path
        PROVE  \E l \in Nat :
                 l = lowlinks'[p] /\ l + 1 \in DOMAIN path /\ path[l + 1] \in Reachable({path[p]})
    <3>1. CASE p # top \/ lowlinks'[top] = lowlinks[top]
      <4>1. lowlinks'[p] = lowlinks[p]
        BY <3>1, <2>1
      <4> QED BY <4>1, <1>3
    <3>2. CASE p = top /\ lowlinks'[top] # lowlinks[top]
      <4>1. PICK q \in DOMAIN path : path[q] \in Post(path[top]) /\ lowlinks'[top] = lowlinks[q]
        BY <3>2, <2>2
      <4>2. path[top] \in ProductNodes /\ path[q] \in ProductNodes
        <5>1. path \in Seq(ProductNodes)
          BY SameNode
        <5> QED BY <5>1, <2>1
      <4>3. path[q] \in Reachable({path[top]})
        BY <4>1, <4>2, <1>1, ReachFacts
      <4>4. PICK l \in Nat : l = lowlinks[q] /\ path[l + 1] \in Reachable({path[q]}) /\ l + 1 \in DOMAIN path
        BY <1>3
      <4>5. path[l + 1] \in Reachable({path[top]})
        BY <4>2, <4>3, <4>4, <1>1, ReachFacts
      <4> QED BY <4>1, <4>4, <4>5, <3>2
    <3> QED BY <3>1, <3>2
  <2> QED BY <2>1, <2>3
<1>7. CASE ~Enter /\ ~CloseOne /\ ~CloseCycle /\ ~AfterCall
  <2>1. cstack' = cstack
    BY <1>7 DEF Next, Step, vars, GetInitNode, StartSearch, SearchFrom, Finish, EnterTooLate,
         EnterDecided, LeaveDecided, SkipEdge, CrossEdge, TreeEdge, LeaveOpen, Done
  <2>2. path' = path /\ lowlinks' = lowlinks
    BY <2>1, <1>7, PathKept
  <2> QED BY <2>2, <1>3
<1> QED BY <1>4, <1>5, <1>6, <1>7

-----------------------------------------------------------------------------
(***************************************************************************)
(* What the search has reached, and where it starts.                       *)
(***************************************************************************)
\* Every step makes objects of reachable nodes only.
LEMMA AllReachedKept ==
  ASSUME RoomForAll, StacksInv, AllReached, InitialsListed, TypeInv', [Next]_vars
  PROVE  AllReached'
<1>1. TypeInv /\ ProductIsFinite
  BY RoomIsFinite DEF StacksInv
<1>2. /\ DOMAIN obj \subseteq DOMAIN obj' /\ \A o \in DOMAIN obj : NodeOf(o)' = NodeOf(o)
      /\ Reachable(InitialNodes)' = Reachable(InitialNodes)
  <2>1. PICK S : S = InitialNodes
    OBVIOUS
  <2>2. InitialNodes' = S
    BY <2>1, <1>1, GraphKept
  <2>3. Reachable(S)' = Reachable(S)
    BY <1>1, GraphKept
  <2>4. Reachable(InitialNodes)' = Reachable(S)'
    BY <2>2
  <2> QED BY <2>1, <2>3, <2>4, <1>1, NodesKept
<1>3. \A o \in DOMAIN obj : NodeOf(o)' \in Reachable(InitialNodes)'
  BY <1>2 DEF AllReached
<1>4. CASE SearchFrom
  <2>1. PICK new : new = Len(obj) + 1
    OBVIOUS
  <2>2. /\ obj \in Seq(Objects)
        /\ obj' = Append(obj, Object(1, initial_status[next], 0, 0))
        /\ next \in DOMAIN initial_status /\ rgnodevec' = rgnodevec
    BY <1>1, <1>4 DEF TypeInv, TypeOK, SearchFrom
  <2>3. DOMAIN obj' = DOMAIN obj \cup {new} /\ obj'[new] = Object(1, initial_status[next], 0, 0)
    BY <2>1, <2>2
  <2>4. NodeOf(new)' = <<sys.init, initial_status[next]>>
    <3>1. NodeOf(new)' = <<rgnodevec'[obj'[new].rg], obj'[new].ba>>
      BY DEF NodeOf
    <3> QED BY <3>1, <2>2, <2>3 DEF Object, InitialsListed
  <2>5. NodeOf(new)' \in Reachable(InitialNodes)'
    BY <2>2, <2>4, <1>1, <1>2, ReachFacts DEF InitialsListed
  <2>6. ASSUME NEW o \in DOMAIN obj' PROVE NodeOf(o)' \in Reachable(InitialNodes)'
    BY <2>3, <2>5, <2>6, <1>3
  <2> QED BY <2>6 DEF AllReached
<1>5. CASE TreeEdge
  <2>1. PICK new, u : /\ NodeOf(new)' = u /\ DOMAIN obj' = DOMAIN obj \cup {new}
                      /\ u \in Post(path[top]) /\ Exploring
    BY <1>5, TreeFacts
  <2>2. path[top] \in Reachable(InitialNodes)
    <3>1. top \in DOMAIN path /\ path[top] = NodeOf(Top.obj) /\ Top.obj \in DOMAIN obj
      BY <2>1, ExploringFacts
    <3> QED BY <3>1 DEF AllReached
  <2>3. u \in Reachable(InitialNodes)
    BY <2>1, <2>2, <1>1, ReachFacts
  <2>4. ASSUME NEW o \in DOMAIN obj' PROVE NodeOf(o)' \in Reachable(InitialNodes)'
    BY <2>1, <2>3, <2>4, <1>2, <1>3
  <2> QED BY <2>4 DEF AllReached
<1>6. CASE ~SearchFrom /\ ~TreeEdge
  <2>1. DOMAIN obj' = DOMAIN obj
    BY <1>6 DEF Next, Step, vars, GetInitNode, StartSearch, Finish, EnterTooLate,
         EnterDecided, Enter, EnterWith, LeaveDecided, SkipEdge, CloseCycle, CrossEdge,
         AfterCall, LeaveOpen, CloseOne, CloseRound, Done
  <2>2. ASSUME NEW o \in DOMAIN obj' PROVE NodeOf(o)' \in Reachable(InitialNodes)'
    BY <2>1, <2>2, <1>3
  <2> QED BY <2>2 DEF AllReached
<1> QED BY <1>4, <1>5, <1>6

\* GetInitNode leaves no initial node out.
LEMMA InitialsListedKept ==
  ASSUME StacksInv, InitialsListed, [Next]_vars
  PROVE  InitialsListed'
<1>1. TypeInv
  BY DEF StacksInv
<1>2. /\ sys' = sys /\ rgnodevec'[1] = sys.init /\ InitialNodes' = InitialNodes
      /\ initial_status \in Seq(BAStates) /\ next \in Nat \ {0} /\ rgnodevec[1] = sys.init
  <2>1. 1 \in DOMAIN rgnodevec
    BY <1>1 DEF TypeInv, TypeOK, NoDangling
  <2> QED BY <2>1, <1>1, NodesKept, GraphKept DEF InitialsListed, TypeInv, TypeOK
<1>3. \A k \in DOMAIN initial_status : <<sys.init, initial_status[k]>> \in InitialNodes
  BY DEF InitialsListed
<1>4. \A b \in sys.initial : isLabel(sys.init, b) =>
        \/ \E k \in DOMAIN initial_status : initial_status[k] = b
        \/ phase = "init" /\ \E k \in DOMAIN sys.vertics : k >= next /\ sys.vertics[k] = b
  BY DEF InitialsListed
<1>5. ASSUME \A k \in DOMAIN initial_status' : <<sys.init, initial_status'[k]>> \in InitialNodes,
             \A b \in sys.initial : isLabel(sys.init, b) =>
               \/ \E k \in DOMAIN initial_status' : initial_status'[k] = b
               \/ phase' = "init" /\ \E k \in DOMAIN sys.vertics : k >= next' /\ sys.vertics[k] = b
      PROVE  InitialsListed'
  BY <1>2, <1>5 DEF InitialsListed, isLabel
<1>6. sys.vertics \in Seq(BAStates)
  BY <1>1, SystemFields DEF TypeInv, TypeOK
<1>7. CASE GetInitNode
  <2> DEFINE b == sys.vertics[next]
  <2>1. /\ phase = "init" /\ phase' = "init" /\ next' = next + 1
        /\ b \in BAStates
        /\ initial_status' = IF b \in sys.initial /\ isLabel(sys.init, b)
                               THEN Append(initial_status, b) ELSE initial_status
    BY <1>2, <1>6, <1>7 DEF GetInitNode
  <2>2. PICK m \in Nat : m = Len(initial_status) /\ DOMAIN initial_status = 1 .. m
    BY <1>2
  <2>3. CASE b \in sys.initial /\ isLabel(sys.init, b)
    <3>1. DOMAIN initial_status' = 1 .. m + 1 /\ initial_status'[m + 1] = b
          /\ \A k \in 1 .. m : initial_status'[k] = initial_status[k]
      BY <2>1, <2>2, <2>3, <1>2
    <3>2. <<sys.init, b>> \in InitialNodes
      BY <2>3 DEF InitialNodes
    <3> HIDE DEF b
    <3>3. \A k \in 1 .. m + 1 : k \in 1 .. m \/ k = m + 1
      OBVIOUS
    <3>4. \A k \in DOMAIN initial_status' : <<sys.init, initial_status'[k]>> \in InitialNodes
      BY <3>1, <3>2, <3>3, <2>2, <1>3
    <3>5. ASSUME NEW c \in sys.initial, isLabel(sys.init, c)
          PROVE  \/ \E k \in DOMAIN initial_status' : initial_status'[k] = c
                 \/ phase' = "init" /\ \E k \in DOMAIN sys.vertics : k >= next' /\ sys.vertics[k] = c
      <4>1. CASE \E k \in DOMAIN initial_status : initial_status[k] = c
        <5>1. PICK k \in 1 .. m : initial_status[k] = c
          BY <4>1, <2>2
        <5>2. k \in 1 .. m + 1
          OBVIOUS
        <5> QED BY <5>1, <5>2, <3>1
      <4>2. CASE \E k \in DOMAIN sys.vertics : k >= next /\ sys.vertics[k] = c
        <5>1. PICK k \in DOMAIN sys.vertics : k >= next /\ sys.vertics[k] = c
          BY <4>2
        <5>2. k \in Nat
          BY <1>6
        <5>3. CASE k = next
          <6>1. b = c /\ m + 1 \in 1 .. m + 1
            BY <5>1, <5>3 DEF b
          <6> QED BY <6>1, <3>1
        <5>4. CASE k # next
          <6>1. k >= next'
            BY <5>1, <5>2, <5>4, <2>1, <1>2
          <6> QED BY <6>1, <5>1, <2>1
        <5> QED BY <5>3, <5>4
      <4> QED BY <4>1, <4>2, <3>5, <1>4
    <3> QED BY <3>4, <3>5, <1>5
  <2>4. CASE ~(b \in sys.initial /\ isLabel(sys.init, b))
    <3>1. initial_status' = initial_status
      BY <2>1, <2>4
    <3>2. ASSUME NEW c \in sys.initial, isLabel(sys.init, c)
          PROVE  \/ \E k \in DOMAIN initial_status' : initial_status'[k] = c
                 \/ phase' = "init" /\ \E k \in DOMAIN sys.vertics : k >= next' /\ sys.vertics[k] = c
      <4>1. CASE \E k \in DOMAIN initial_status : initial_status[k] = c
        BY <4>1, <3>1
      <4>2. CASE \E k \in DOMAIN sys.vertics : k >= next /\ sys.vertics[k] = c
        <5>1. PICK k \in DOMAIN sys.vertics : k >= next /\ sys.vertics[k] = c
          BY <4>2
        <5>2. k \in Nat
          BY <1>6
        <5>3. k # next
          BY <5>1, <2>4, <3>2
        <5>4. k >= next'
          BY <5>1, <5>2, <5>3, <2>1, <1>2
        <5> QED BY <5>1, <5>4, <2>1
      <4> QED BY <4>1, <4>2, <3>2, <1>4
    <3>3. \A k \in DOMAIN initial_status' : <<sys.init, initial_status'[k]>> \in InitialNodes
      BY <3>1, <1>3
    <3> QED BY <3>2, <3>3, <1>5
  <2> QED BY <2>3, <2>4
<1>8. CASE StartSearch
  <2>1. initial_status' = initial_status /\ phase = "init" /\ next \notin DOMAIN sys.vertics
    BY <1>8 DEF StartSearch
  <2>2. \A k \in DOMAIN sys.vertics : ~(k >= next)
    <3> SUFFICES ASSUME NEW k \in DOMAIN sys.vertics, k >= next PROVE FALSE
        OBVIOUS
    <3>1. PICK n \in Nat : DOMAIN sys.vertics = 1 .. n
      BY <1>6
    <3>2. next \in 1 .. n
      BY <3>1, <1>2
    <3> QED BY <3>1, <3>2, <2>1
  <2> QED BY <2>1, <2>2, <1>3, <1>4, <1>5
<1>9. CASE SearchFrom \/ Finish
  <2>1. initial_status' = initial_status /\ phase # "init"
    BY <1>9 DEF SearchFrom, Finish
  <2> QED BY <2>1, <1>3, <1>4, <1>5
<1>10. CASE ~GetInitNode /\ ~StartSearch /\ ~SearchFrom /\ ~Finish
  <2>1. UNCHANGED <<initial_status, next, phase>>
    BY <1>10 DEF Next, Step, vars, EnterTooLate,
         EnterDecided, Enter, EnterWith, LeaveDecided, SkipEdge, CloseCycle, CrossEdge, TreeEdge,
         AfterCall, LeaveOpen, CloseOne, CloseRound, Done
  <2> QED BY <2>1, <1>3, <1>4, <1>5
<1> QED BY <1>7, <1>8, <1>9, <1>10

\* Tarjan runs between GetInitNode and the end of GetProduct only.
LEMMA RunsInSearchKept ==
  ASSUME RunsInSearch, [Next]_vars
  PROVE  RunsInSearch'
<1>1. CASE UNCHANGED <<initial_status, next, phase, frames>>
  BY <1>1 DEF RunsInSearch
<1>2. CASE GetInitNode
  BY <1>2 DEF GetInitNode, RunsInSearch
<1>3. CASE StartSearch
  BY <1>3 DEF StartSearch, RunsInSearch
<1>4. CASE SearchFrom
  BY <1>4 DEF SearchFrom, RunsInSearch
<1>5. CASE Finish
  BY <1>5 DEF Finish, RunsInSearch
<1>6. CASE frames # <<>> /\ phase' = phase
  BY <1>6 DEF RunsInSearch
<1> QED
  BY <1>1, <1>2, <1>3, <1>4, <1>5, <1>6
     DEF Next, Step, vars, EnterTooLate,
         EnterDecided, Enter, EnterWith, LeaveDecided, SkipEdge, CloseCycle, CrossEdge, TreeEdge,
         AfterCall, LeaveOpen, CloseOne, CloseRound, Done, Running, Exploring, Explored

\* A step that decides has found an accepting cycle on the stack.
LEMMA RefutedKept ==
  ASSUME RoomForAll, StacksInv, AstackMatches, AllReached, RefutedRightly, Live => Upward /\ ToActive,
         [Next]_vars
  PROVE  RefutedRightly'
<1>1. TypeInv /\ ProductIsFinite
  BY RoomIsFinite DEF StacksInv
<1> SUFFICES ASSUME ~timeup', ~result' PROVE AcceptingLassoFrom(InitialNodes)
  BY <1>1, GraphKept DEF RefutedRightly
<1>2. ~timeup
  BY DecidedOnce
<1>3. CASE ~result
  BY <1>2, <1>3 DEF RefutedRightly
<1>4. CASE result
  <2>1. CloseCycle /\ Upward /\ ToActive
    BY <1>2, <1>4, DecidedOnce DEF Live
  <2>2. Exploring /\ \E p \in DOMAIN path :
          path[p] \in Post(path[top]) /\ \E a \in accepting : p <= a
    BY <2>1, <1>4, CycleFacts
  <2>3. PICK p \in DOMAIN path : path[p] \in Post(path[top]) /\ \E a \in accepting : p <= a
    BY <2>2
  <2>4. PICK a \in accepting : p <= a
    BY <2>3
  <2>5. /\ DOMAIN path = DOMAIN cstack /\ path \in Seq(ProductNodes) /\ a \in DOMAIN path
        /\ top \in DOMAIN path
    BY <2>2, SameNode, ExploringFacts DEF accepting
  <2>6. PICK u, v, y : u = path[a] /\ v = path[p] /\ y = path[top]
    OBVIOUS
  <2>7. u \in ProductNodes /\ v \in ProductNodes /\ y \in ProductNodes
    BY <2>5, <2>6
  <2>8. PICK q \in active : q <= a /\ path[q] \in Reachable({u})
    BY <2>1, <2>5, <2>6 DEF ToActive
  <2>9. q <= top /\ q \in DOMAIN path
    <3>1. frames # <<>> /\ Top.pc # "enter"
      BY <2>2, ExploringFacts
    <3> QED BY <3>1, <2>5, TopPosition, Positions
  <2>10. y \in Reachable({path[q]})
    BY <2>1, <2>5, <2>6, <2>9 DEF Upward
  <2>11. y \in Reachable({u})
    BY <2>7, <2>8, <2>10, <1>1, ReachFacts
  <2>12. u \in Reachable({v})
    BY <2>1, <2>4, <2>5, <2>6 DEF Upward
  <2>13. u \in Reachable(Post(u))
    BY <2>3, <2>6, <2>7, <2>11, <2>12, <1>1, ReachFacts
  <2>14. u = NodeOf(cstack[a]) /\ cstack[a] \in DOMAIN obj /\ u[2] \in sys.accepted
    <3>1. cstack \in Seq(DOMAIN obj)
      BY <1>1 DEF TypeInv, TypeOK
    <3>2. u = NodeOf(cstack[a]) /\ obj[cstack[a]].ba \in sys.accepted
      BY <2>5, <2>6, PathEntries DEF accepting
    <3> QED BY <3>1, <3>2, <2>5 DEF NodeOf
  <2>15. u \in Reachable(InitialNodes)
    BY <2>14 DEF AllReached
  <2> QED BY <2>13, <2>14, <2>15 DEF AcceptingLassoFrom, AcceptingCycleAt
<1> QED BY <1>1, <1>3, <1>4 DEF TypeInv, TypeOK

-----------------------------------------------------------------------------
(***************************************************************************)
(* The part of the invariant that holds until the time is up.              *)
(***************************************************************************)
\* A step keeps what holds until the time is up.
LEMMA TimelyKept ==
  ASSUME RoomForAll, TimelyInv, Live => LiveInv, [Next]_vars
  PROVE  TimelyInv'
<1>1. /\ StacksInv /\ AstackMatches /\ Calls /\ EnteredInTime /\ Returned /\ LowlinksReach
      /\ AllReached /\ InitialsListed /\ RunsInSearch /\ RefutedRightly /\ TypeInv
  BY DEF TimelyInv, StacksInv
<1>2. TypeInv'
  BY <1>1, StepType
<1>3. StacksInv'
  BY <1>1, <1>2, NextStacks
<1>4. AstackMatches' /\ LowlinksReach'
  BY <1>1, AstackKept, LowlinksReachKept
<1>5. Calls' /\ EnteredInTime' /\ Returned'
  BY <1>1, <1>2, CallsKept, EnteredKept, ReturnedKept
<1>6. AllReached' /\ InitialsListed' /\ RunsInSearch'
  BY <1>1, <1>2, AllReachedKept, InitialsListedKept, RunsInSearchKept
<1>7. RefutedRightly'
  <2>1. Live => Upward /\ ToActive
    BY DEF LiveInv, OpenPart
  <2> QED BY <2>1, <1>1, RefutedKept
<1> QED BY <1>3, <1>4, <1>5, <1>6, <1>7 DEF TimelyInv

\* Steps that leave the frames and the objects leave the search alone.
LEMMA IdleSteps ==
  ASSUME RoomForAll, StacksInv, [Next]_vars, ~CloseOne, UNCHANGED <<frames, obj>>
  PROVE  UNCHANGED <<sys, cstack, h, frames, obj, rgnodevec>>
<1>1. CASE Enter
  <2>1. PICK n \in Nat \ {0}, d \in Nat :
          /\ Top = frames[n] /\ Top.pc = "enter" /\ frames'[n] = Frame(Top.obj, "loop", 0, 0)
    BY <1>1, EnterViews
  <2> QED BY <2>1 DEF Frame
<1>2. ~TreeEdge
  <2>1. TreeEdge => Len(frames) \in Nat /\ Len(frames') = Len(frames) + 1
    BY TreeViews
  <2> QED BY <2>1
<1>3. CASE frames # <<>> /\ Return
  <2>1. PICK n \in Nat : n = Len(frames) /\ n > 0 /\ frames \in Seq(Frames)
    BY <1>3 DEF StacksInv, TypeInv, TypeOK
  <2>2. Len(frames') = n - 1
    BY <1>3, <2>1 DEF Return, Front
  <2> QED BY <2>1, <2>2
<1>4. CASE frames # <<>> /\ Top.pc # "enter" /\ NextEdge
  <2> DEFINE f == Frame(Top.obj, "loop", Top.edge + 1, 0)
  <2>1. Top \in Frames /\ Top = frames[Len(frames)]
    BY <1>4, TopType DEF StacksInv
  <2>2. f \in Frames /\ f.edge = Top.edge + 1 /\ Continue(f) /\ Top.edge \in Nat
    BY <1>4, <2>1 DEF NextEdge, Frame, Frames
  <2> HIDE DEF f
  <2>3. frames'[Len(frames)] = f
    BY <1>4, <2>2, ContinueType DEF StacksInv
  <2>4. f.edge = Top.edge
    BY <2>1, <2>3
  <2>5. PICK e : e = Top.edge
    OBVIOUS
  <2>6. e \in Nat /\ e = e + 1
    BY <2>2, <2>4, <2>5
  <2> QED BY <2>6
<1> QED
  BY <1>1, <1>2, <1>3, <1>4
     DEF Next, Step, vars, GetInitNode, StartSearch, SearchFrom, Finish, EnterTooLate,
         EnterDecided, LeaveDecided, SkipEdge, CloseCycle, CrossEdge,
         AfterCall, LeaveOpen, Done, Running, Exploring, Explored

\* Nor do they change what the search has found.
LEMMA IdleViews ==
  ASSUME UNCHANGED <<sys, cstack, h, frames, obj, rgnodevec>>
  PROVE  /\ path' = path /\ lowlinks' = lowlinks /\ accepting' = accepting /\ closed' = closed
         /\ active' = active /\ top' = top /\ found' = found /\ Component' = Component
         /\ Top' = Top
<1>1. \A o : NodeOf(o)' = NodeOf(o)
  BY DEF NodeOf
<1>2. Top' = Top
  BY DEF Top, Last
<1>3. Node' = Node /\ top' = top
  BY <1>2 DEF Node, top
<1>4. path' = path
  BY DEF path, NodeOf
<1>5. lowlinks' = lowlinks /\ accepting' = accepting
  BY DEF lowlinks, accepting
<1>6. closed' = closed
  BY DEF closed, NodeOf
<1>7. active' = active
  BY DEF active, PositionOf, Started
<1>8. found' = found
  BY DEF found, EdgesFollowed, EdgesOf, EdgeTo, FanoutOf, NodeOf, Started
<1>9. Closing' = Closing
  BY <1>2, <1>3 DEF Closing, Running, NumEdges, Fanout, Deadlock
<1>10. Component' = Component
  BY <1>3, <1>4, <1>9 DEF Component
<1> QED BY <1>2, <1>3, <1>4, <1>5, <1>6, <1>7, <1>8, <1>10

\* Closing moves nodes from the component to the closed ones.
LEMMA CloseComponent ==
  ASSUME StacksInv, [Next]_vars, CloseOne
  PROVE  /\ closed \cup Component = closed' \cup Component' /\ Component' \subseteq Component
         /\ closed' \subseteq closed \cup Component
<1>1. PICK n \in Nat \ {0}, d \in Nat \ {0} :
        /\ n = Len(frames) /\ DOMAIN path = 1 .. d
        /\ frames # <<>> /\ Top.pc = "loop" /\ Top = frames[n]
        /\ DOMAIN path' = 1 .. d - 1
        /\ \A p \in 1 .. d - 1 : path'[p] = path[p]
        /\ closed' = closed \cup {path[d]}
        /\ \/ top # d /\ frames' = frames
           \/ top = d /\ DOMAIN frames' = 1 .. n - 1 /\ Len(frames') = n - 1
              /\ (n = 1 => frames' = <<>>) /\ \A k \in 1 .. n - 1 : frames'[k] = frames[k]
        /\ UNCHANGED <<sys, rgnodevec, obj>>
  BY CloseViews
<1>2. Closing
  BY DEF CloseOne, CloseRound, Explored, Running, Closing
<1>3. top \in 1 .. d
  BY <1>1, TopPosition, SameNode
<1>4. Component = {path[p] : p \in {q \in 1 .. d : q >= top}}
  BY <1>1, <1>2 DEF Component
<1>5. path[d] \in Component
  <2>1. d \in {q \in 1 .. d : q >= top}
    BY <1>3
  <2> QED BY <2>1, <1>4
<1>6. CASE top # d /\ frames' = frames
  <2>1. Top' = Top
    BY <1>6 DEF Top, Last
  <2>2. Node' = Node /\ top' = top
    BY <2>1, <1>1 DEF Node, top
  <2>3. Closing'
    BY <2>1, <2>2, <1>1, <1>2, <1>6 DEF Closing, Running, NumEdges, Fanout, Deadlock
  <2>4. Component' = {path'[p] : p \in {q \in 1 .. d - 1 : q >= top}}
    BY <2>2, <2>3, <1>1 DEF Component
  <2>5. {path'[p] : p \in {q \in 1 .. d - 1 : q >= top}} = {path[p] : p \in {q \in 1 .. d - 1 : q >= top}}
    BY <1>1
  <2>6. Component = Component' \cup {path[d]}
    <3>1. \A p : p \in {q \in 1 .. d : q >= top} <=> p \in {q \in 1 .. d - 1 : q >= top} \/ p = d
      BY <1>3
    <3> QED BY <3>1, <2>4, <2>5, <1>4
  <2> QED BY <2>6, <1>1
<1>7. CASE top = d /\ Len(frames') = n - 1 /\ frames' # frames
  <2>1. {q \in 1 .. d : q >= top} = {d}
    BY <1>3, <1>7
  <2>2. Component = {path[d]}
    BY <2>1, <1>4
  <2>3. ~Closing'
    <3>1. CASE n = 1
      BY <3>1, <1>1, <1>7 DEF Closing, Running
    <3>2. CASE n > 1
      <4>1. Top' = frames[n - 1] /\ n - 1 < n /\ n - 1 \in DOMAIN frames
        <5>1. frames \in Seq(Frames)
          BY DEF StacksInv, TypeInv, TypeOK
        <5>2. n - 1 \in 1 .. n - 1 /\ n - 1 \in DOMAIN frames /\ n - 1 < n
          BY <5>1, <3>2, <1>1
        <5>3. frames'[n - 1] = frames[n - 1] /\ Len(frames') = n - 1
          BY <5>2, <1>1, <1>7
        <5> QED BY <5>2, <5>3 DEF Top, Last
      <4>2. Top'.pc = "call"
        BY <4>1, <1>1 DEF StacksInv, Suspended
      <4> QED BY <4>2 DEF Closing, Running
    <3> QED BY <3>1, <3>2
  <2>4. Component' = {}
    BY <2>3 DEF Component
  <2> QED BY <2>2, <2>4, <1>1
<1>8. frames' = frames => top # d
  <2> SUFFICES ASSUME frames' = frames, top = d PROVE FALSE
      OBVIOUS
  <2>1. Len(frames') = n - 1 /\ Len(frames') = n
    BY <1>1
  <2> QED BY <2>1
<1> QED BY <1>1, <1>6, <1>7, <1>8

-----------------------------------------------------------------------------
(***************************************************************************)
(* Closed components.                                                      *)
(***************************************************************************)
\* The same in the next state.
LEMMA ClosingStartsNext ==
  RoomForAll' /\ StacksInv' /\ Fresh' /\ FoundKnown' /\ Cut' /\ LowlinksTold' /\ NoneAccepting'
  /\ (\A u \in closed : Post(u) \subseteq closed)'
    => ComponentDone'
BY ClosingStarts, PTL

\* Every step keeps what is known of the closed nodes.
LEMMA ClosedPartsKept ==
  ASSUME RoomForAll, StacksInv, StacksInv', [Next]_vars,
         ClosedFollowed, NoneAccepting, ComponentDone,
         Fresh', FoundKnown', Cut', LowlinksTold'
  PROVE  ClosedFollowed' /\ NoneAccepting' /\ ComponentDone'
<1>1. TypeInv
  BY DEF StacksInv
<1>2. \A u : Post(u)' = Post(u) /\ AcceptingCycleAt(u)' = AcceptingCycleAt(u)
  BY <1>1, GraphKept
<1>3. ASSUME \A u \in closed' : Post(u) \subseteq closed' \cup Component' /\ ~AcceptingCycleAt(u)
      PROVE  ClosedFollowed' /\ NoneAccepting'
  <2>1. ASSUME NEW u \in closed' PROVE Post(u)' \subseteq closed' \cup Component' /\ ~AcceptingCycleAt(u)'
    BY <2>1, <1>2, <1>3
  <2> QED BY <2>1 DEF ClosedFollowed, NoneAccepting
<1>4. ASSUME \A u \in Component' : Post(u) \subseteq closed' \cup Component' /\ ~AcceptingCycleAt(u)
      PROVE  ComponentDone'
  <2>1. ASSUME NEW u \in Component' PROVE Post(u)' \subseteq closed' \cup Component' /\ ~AcceptingCycleAt(u)'
    BY <2>1, <1>2, <1>4
  <2> QED BY <2>1 DEF ComponentDone
<1>5. CASE CloseOne
  <2>1. /\ closed \cup Component = closed' \cup Component' /\ Component' \subseteq Component
        /\ closed' \subseteq closed \cup Component
    BY <1>5, CloseComponent
  <2>2. \A u \in closed \cup Component : Post(u) \subseteq closed \cup Component /\ ~AcceptingCycleAt(u)
    BY DEF ClosedFollowed, NoneAccepting, ComponentDone
  <2> QED BY <2>1, <2>2, <1>3, <1>4
<1>6. CASE ~CloseOne /\ UNCHANGED <<frames, obj>>
  <2>1. closed' = closed /\ Component' = Component
    BY <1>6, IdleSteps, IdleViews
  <2>2. \A u \in closed \cup Component : Post(u) \subseteq closed \cup Component /\ ~AcceptingCycleAt(u)
    BY DEF ClosedFollowed, NoneAccepting, ComponentDone
  <2> QED BY <2>1, <2>2, <1>3, <1>4
<1>7. CASE ~CloseOne /\ ~UNCHANGED <<frames, obj>>
  <2>1. Component = {}
    BY <1>7, NothingClosing
  <2>2. h' = h
    BY <1>7 DEF Next, Step, vars, GetInitNode, StartSearch, SearchFrom, Finish, EnterTooLate,
         EnterDecided, Enter, EnterWith, LeaveDecided, SkipEdge, CloseCycle, CrossEdge, TreeEdge,
         AfterCall, LeaveOpen, Done
  <2>3. closed' = closed
    BY <2>2, ClosedKept
  <2>4. \A u \in closed' : Post(u) \subseteq closed' /\ ~AcceptingCycleAt(u)
    BY <2>1, <2>3 DEF ClosedFollowed, NoneAccepting
  <2>5. ClosedFollowed' /\ NoneAccepting'
    BY <2>4, <1>3
  <2>6. (\A u \in closed : Post(u) \subseteq closed)'
    <3>1. ASSUME NEW u \in closed' PROVE Post(u)' \subseteq closed'
      BY <3>1, <2>4, <1>2
    <3> QED BY <3>1
  <2>7. RoomForAll'
    BY DEF RoomForAll
  <2> QED BY <2>5, <2>6, <2>7, ClosingStartsNext
<1> QED BY <1>5, <1>6, <1>7

\* The searches from the initial nodes before the last one are over.
LEMMA InitialsSearchedKept ==
  ASSUME RoomForAll, StacksInv, RunsInSearch, InitialsListed, InitialsSearched, Live, Live', [Next]_vars
  PROVE  InitialsSearched'
<1>1. TypeInv /\ sys' = sys /\ next \in Nat /\ frames \in Seq(Frames)
      /\ \A o \in DOMAIN obj : NodeOf(o)' = NodeOf(o)
  BY NodesKept DEF StacksInv, TypeInv, TypeOK
<1>2. closed \subseteq closed'
  <2>1. CASE CloseOne
    BY <2>1, CloseViews
  <2>2. CASE ~CloseOne
    <3>1. h' = h
      BY <2>2 DEF Next, Step, vars, GetInitNode, StartSearch, SearchFrom, Finish, EnterTooLate,
         EnterDecided, Enter, EnterWith, LeaveDecided, SkipEdge, CloseCycle, CrossEdge, TreeEdge,
         AfterCall, LeaveOpen, Done
    <3> QED BY <3>1, ClosedKept
  <2> QED BY <2>1, <2>2
<1>3. CASE GetInitNode
  BY <1>3 DEF GetInitNode, InitialsSearched
<1>4. CASE StartSearch
  <2>1. phase = "init" /\ next' = 1 /\ initial_status' = initial_status /\ initial_status \in Seq(BAStates)
    BY <1>1, <1>4 DEF StartSearch, TypeInv, TypeOK
  <2>2. \A k \in DOMAIN initial_status : ~(k < 1)
    BY <2>1
  <2> QED BY <2>1, <2>2 DEF InitialsSearched
<1>5. CASE SearchFrom
  <2>1. /\ phase = "search" /\ frames = <<>> /\ next \in DOMAIN initial_status
        /\ next' = next + 1 /\ initial_status' = initial_status /\ rgnodevec' = rgnodevec
        /\ obj' = Append(obj, Object(1, initial_status[next], 0, 0))
        /\ frames' = <<Frame(Len(obj) + 1, "enter", 0, 0)>>
        /\ initial_status \in Seq(BAStates) /\ obj \in Seq(Objects)
    BY <1>1, <1>5 DEF SearchFrom, TypeInv, TypeOK
  <2>2. \A k \in DOMAIN initial_status : k < next => <<sys.init, initial_status[k]>> \in closed
    BY <2>1 DEF InitialsSearched
  <2>3. PICK new : new = Len(obj) + 1
    OBVIOUS
  <2>4. obj'[new] = Object(1, initial_status[next], 0, 0)
    BY <2>1, <2>3
  <2>5. NodeOf(new)' = <<sys.init, initial_status[next]>>
    <3>1. NodeOf(new)' = <<rgnodevec'[obj'[new].rg], obj'[new].ba>>
      BY DEF NodeOf
    <3>2. obj'[new].rg = 1 /\ obj'[new].ba = initial_status[next]
      BY <2>4 DEF Object
    <3>3. rgnodevec'[1] = sys.init
      BY <2>1 DEF InitialsListed
    <3> QED BY <3>1, <3>2, <3>3
  <2>6. frames' # <<>> /\ frames'[1].obj = new
    BY <2>1, <2>3 DEF Frame
  <2>7. NodeOf(frames[1].obj)' = NodeOf(new)'
    BY <2>6
  <2>8. \A k \in DOMAIN initial_status : k < next' => k < next \/ k = next
    <3>1. \A k \in DOMAIN initial_status : k \in Nat
      BY <2>1
    <3> QED BY <3>1, <2>1, <1>1
  <2> QED BY <2>1, <2>2, <2>5, <2>6, <2>7, <2>8, <1>1, <1>2 DEF InitialsSearched
<1>6. CASE Finish \/ Done \/ UNCHANGED vars
  <2>1. UNCHANGED <<sys, frames, initial_status, next>> /\ (phase = "init" => phase' = "init")
        /\ (frames # <<>> => UNCHANGED <<obj, rgnodevec>>)
    BY <1>6 DEF Finish, Done, vars
  <2>2. NodeOf(frames[1].obj)' = NodeOf(frames[1].obj)
    <3>1. UNCHANGED <<obj, rgnodevec>>
      BY <1>6 DEF Finish, Done, vars
    <3> QED BY <3>1, <2>1 DEF NodeOf
  <2> QED BY <2>1, <2>2, <1>2 DEF InitialsSearched
<1>7. CASE frames # <<>> /\ UNCHANGED <<initial_status, next, phase>>
  <2>1. phase # "init" => \A k \in DOMAIN initial_status :
          k < next => \/ <<sys.init, initial_status[k]>> \in closed'
                      \/ NodeOf(frames[1].obj) = <<sys.init, initial_status[k]>>
    BY <1>2 DEF InitialsSearched
  <2>2. 1 \in DOMAIN frames /\ frames[1].obj \in DOMAIN obj
    <3>1. 1 \in DOMAIN frames
      BY <1>1, <1>7
    <3> QED BY <3>1 DEF StacksInv, TypeInv, TypeOK
  <2>3. ASSUME frames' # <<>>, frames'[1].obj = frames[1].obj PROVE InitialsSearched'
    <3>1. PICK o \in DOMAIN obj : o = frames[1].obj
      BY <2>2
    <3>2. NodeOf(o)' = NodeOf(frames[1].obj)
      BY <3>1, <1>1
    <3>3. NodeOf(frames[1].obj)' = NodeOf(o)'
      BY <3>1, <2>3
    <3> QED BY <3>2, <3>3, <2>1, <2>3, <1>1, <1>7 DEF InitialsSearched
  <2>4. CASE TreeEdge
    <3>1. PICK n \in Nat \ {0} : /\ n = Len(frames) /\ DOMAIN frames = 1 .. n
                                 /\ frames'[n] = Frame(Top.obj, "call", Top.edge, Len(obj) + 1)
                                 /\ \A k \in DOMAIN frames : k # n => frames'[k] = frames[k]
                                 /\ frames' # <<>>
      BY <2>4, TreeViews
    <3>2. frames'[1].obj = frames[1].obj
      <4>1. CASE n = 1
        <5>1. frames'[n].obj = Top.obj
          BY <3>1 DEF Frame
        <5>2. Top = frames[n]
          BY <3>1 DEF Top, Last
        <5> QED BY <4>1, <5>1, <5>2
      <4>2. CASE n # 1
        BY <4>2, <3>1
      <4> QED BY <4>1, <4>2
    <3> QED BY <3>1, <3>2, <2>3
  <2>5. CASE ~TreeEdge /\ frames' # <<>>
    <3>1. ~SearchFrom
      BY <1>7 DEF SearchFrom
    <3>2. frames' \in Seq(Frames) /\ \A k \in DOMAIN frames' : frames'[k].obj = frames[k].obj
      BY <3>1, <2>5, FramesKept
    <3>3. 1 \in DOMAIN frames'
      BY <3>2, <2>5
    <3> QED BY <3>2, <3>3, <2>3, <2>5
  <2>6. CASE frames' = <<>> /\ ~TreeEdge
    \* The activation of the initial node returns: it was the last node to be closed.
    <3>1. Return
      <4>1. Top.pc # "enter" /\ NextEdge => Len(frames') = Len(frames)
        BY <1>7, <1>1 DEF NextEdge, Continue
      <4>2. Enter => Len(frames') = Len(frames)
        BY <1>1 DEF Enter, EnterWith, Continue
      <4>3. Len(frames) # Len(frames')
        BY <2>6, <1>1, <1>7
      <4> QED
        BY <4>1, <4>2, <4>3, <2>6, <1>7
           DEF Next, Step, vars, GetInitNode, StartSearch, SearchFrom, Finish, EnterTooLate,
               EnterDecided, LeaveDecided, SkipEdge, CloseCycle, CrossEdge,
               AfterCall, LeaveOpen, CloseOne, CloseRound, Done, Running, Exploring, Explored
    <3>2. PICK n \in Nat \ {0} : n = Len(frames) /\ frames \in Seq(Frames)
      BY <1>1, <1>7
    <3>3. n = 1
      <4>1. Len(SubSeq(frames, 1, n - 1)) = n - 1
        BY <3>2
      <4>2. frames' = SubSeq(frames, 1, n - 1)
        BY <3>1, <3>2 DEF Return, Front
      <4>3. Len(frames') = 0
        BY <2>6
      <4>4. n - 1 = 0
        BY <4>1, <4>2, <4>3
      <4> QED BY <4>4, <3>2
    <3>4. Top = frames[1] /\ top = obj[frames[1].obj].id + 1
      BY <3>2, <3>3 DEF Top, Last, top, Node
    <3>5. Top.pc # "enter"
      <4>1. ~EnterTooLate /\ ~EnterDecided
        BY DEF EnterTooLate, EnterDecided, Live
      <4>2. ~Enter
        <5>1. Enter => Len(frames') = Len(frames)
          BY <1>1 DEF Enter, EnterWith, Continue
        <5> QED BY <5>1, <2>6, <1>1, <1>7
      <4>3. ~GetInitNode /\ ~StartSearch /\ ~Finish /\ ~Done /\ ~SearchFrom /\ ~UNCHANGED vars
        <5>1. phase = "search"
          BY <1>7 DEF RunsInSearch
        <5> QED BY <5>1, <1>7, <2>6 DEF GetInitNode, StartSearch, Finish, Done, SearchFrom, vars
      <4> QED BY <4>1, <4>2, <4>3, <2>6
              DEF Next, Step, LeaveDecided, SkipEdge, CloseCycle, CrossEdge, TreeEdge,
                  AfterCall, LeaveOpen, CloseOne, CloseRound, Exploring, Explored, Running
    <3>6. top = 1
      BY <3>4, <3>5, <1>7 DEF StacksInv, RootAtBottom
    <3>7. CloseOne
      <4>1. ~LeaveOpen
        <5>1. Node.lowlink <= Node.id /\ Node.lowlink \in Nat /\ Node.id \in Nat
          <6>1. Top.obj \in DOMAIN obj /\ Node \in Objects
            BY <1>7, TopType DEF StacksInv
          <6> QED BY <6>1 DEF StacksInv, LowlinkBelow, Node, Objects
        <5>2. Node.id = 0
          BY <5>1, <3>6 DEF top
        <5> QED BY <5>1, <5>2 DEF LeaveOpen
      <4>2. Top.pc # "enter" /\ NextEdge => Len(frames') = Len(frames)
        BY <1>7, <1>1 DEF NextEdge, Continue
      <4>3. Len(frames) # Len(frames')
        BY <2>6, <1>1, <1>7
      <4>4. ~Enter /\ ~GetInitNode /\ ~StartSearch /\ ~Finish /\ ~Done /\ ~SearchFrom /\ ~UNCHANGED vars
        <5>1. phase = "search"
          BY <1>7 DEF RunsInSearch
        <5> QED BY <5>1, <3>5, <1>7, <2>6 DEF Enter, EnterWith, Running, GetInitNode, StartSearch, Finish, Done, SearchFrom, vars
      <4> QED
        BY <4>1, <4>2, <4>3, <4>4, <3>5, <2>6
           DEF Next, Step, EnterTooLate, EnterDecided, LeaveDecided, SkipEdge, CloseCycle, CrossEdge,
               AfterCall, Exploring, Explored, Running, Live
    <3>8. PICK d \in Nat \ {0} :
            /\ DOMAIN path = 1 .. d /\ closed' = closed \cup {path[d]}
            /\ top = d /\ cstack[d] = Top.obj
      <4>1. \E m \in Nat \ {0}, d \in Nat \ {0} :
            /\ DOMAIN path = 1 .. d /\ closed' = closed \cup {path[d]}
            /\ (frames' = frames \/ (top = d /\ cstack[d] = Top.obj))
        BY <3>7, CloseViews
      <4> QED BY <4>1, <2>6, <1>7
    <3>9. path[d] = NodeOf(frames[1].obj)
      <4>1. d \in DOMAIN cstack
        BY <3>8, SameNode
      <4> QED BY <4>1, <3>4, <3>8, PathEntries
    <3>10. \A k \in DOMAIN initial_status : phase # "init" /\ k < next => <<sys.init, initial_status[k]>> \in closed'
      BY <3>8, <3>9, <2>1
    <3> QED BY <3>10, <2>6, <1>1, <1>7 DEF InitialsSearched
  <2> QED BY <2>4, <2>5, <2>6
<1> QED
  BY <1>3, <1>4, <1>5, <1>6, <1>7
     DEF Next, Step, vars, EnterTooLate,
         EnterDecided, Enter, EnterWith, LeaveDecided, SkipEdge, CloseCycle, CrossEdge, TreeEdge,
         AfterCall, LeaveOpen, CloseOne, CloseRound, Done, Running, Exploring, Explored

-----------------------------------------------------------------------------
(***************************************************************************)
(* Open components, kept by the steps that leave the stack alone.          *)
(***************************************************************************)
\* What is reached from where, said of the next state.
LEMMA UpwardNext ==
  ASSUME StacksInv, [Next]_vars,
         \A p, q \in DOMAIN path' : p <= q => path'[q] \in Reachable({path'[p]})
  PROVE  Upward'
<1>1. \A S : Reachable(S)' = Reachable(S)
  BY GraphKept DEF StacksInv
<1>2. ASSUME NEW p \in DOMAIN path', NEW q \in DOMAIN path', p <= q
      PROVE  (path[q] \in Reachable({path[p]}))'
  <2>1. PICK u : u = path'[p]
    OBVIOUS
  <2>2. path'[q] \in Reachable({u})'
    BY <1>1, <1>2, <2>1
  <2>3. Reachable({path[p]})' = Reachable({u})'
    BY <2>1
  <2> QED BY <2>2, <2>3
<1> QED BY <1>2 DEF Upward

\* Each node reaches an active one in the next state if it does so in the graph as it is.
LEMMA ToActiveNext ==
  ASSUME StacksInv, [Next]_vars,
         \A p \in DOMAIN path' : \E q \in active' : q <= p /\ path'[q] \in Reachable({path'[p]})
  PROVE  ToActive'
<1>1. \A S : Reachable(S)' = Reachable(S)
  BY GraphKept DEF StacksInv
<1>2. ASSUME NEW p \in DOMAIN path'
      PROVE  (\E q \in active : q <= p /\ path[q] \in Reachable({path[p]}))'
  <2>1. PICK u : u = path'[p]
    OBVIOUS
  <2>2. PICK q \in active' : q <= p /\ path'[q] \in Reachable({u})'
    BY <1>1, <1>2, <2>1
  <2>3. Reachable({path[p]})' = Reachable({u})'
    BY <2>1
  <2> QED BY <2>2, <2>3
<1> QED BY <1>2 DEF ToActive

\* A step outside the stack keeps what is known of the open nodes.
LEMMA IdleOpen ==
  ASSUME StacksInv, OpenPart, [Next]_vars, UNCHANGED <<sys, cstack, h, frames, obj, rgnodevec>>
  PROVE  OpenPart'
<1>1. /\ path' = path /\ lowlinks' = lowlinks /\ accepting' = accepting /\ closed' = closed
      /\ active' = active /\ top' = top /\ found' = found /\ Top' = Top
  BY IdleViews
<1>2. Upward'
  BY <1>1, UpwardNext DEF OpenPart, Upward
<1>3. ToActive'
  BY <1>1, ToActiveNext DEF OpenPart, ToActive
<1>4. Running("enter")' = Running("enter") /\ Running("call")' = Running("call")
  BY <1>1 DEF Running
<1>5. \A o : NodeOf(o)' = NodeOf(o)
  BY DEF NodeOf
<1>6. NodeOf(Top.obj)' = NodeOf(Top.obj) /\ NodeOf(Top.qs)' = NodeOf(Top.qs)
  BY <1>1 DEF NodeOf
<1>7. Fresh' /\ CalledKnown'
  <2>1. Fresh'
    BY <1>1, <1>4, <1>6 DEF OpenPart, Fresh
  <2>2. CalledKnown'
    BY <1>1, <1>4, <1>6 DEF OpenPart, CalledKnown
  <2> QED BY <2>1, <2>2
<1>8. FoundKnown' /\ Cut'
  BY <1>1 DEF OpenPart, FoundKnown, Cut
<1>9. LowlinksTold'
  BY <1>1, <1>4 DEF OpenPart, LowlinksTold
<1> QED BY <1>2, <1>3, <1>7, <1>8, <1>9 DEF OpenPart

\* A search starts with an empty stack.
LEMMA SearchFromOpen ==
  ASSUME StacksInv, Live, [Next]_vars, SearchFrom
  PROVE  OpenPart'
<1>1. cstack = <<>> /\ cstack' = cstack
  BY DEF StacksInv, RootAtBottom, SearchFrom
<1>2. path' = path
  BY <1>1, PathKept
<1>3. DOMAIN path' = {} /\ DOMAIN cstack' = {}
  BY <1>1, <1>2, SameNode
<1>4. Len(frames') = 1 /\ Top'.pc = "enter"
  <2>1. frames' = <<Frame(Len(obj) + 1, "enter", 0, 0)>>
    BY DEF SearchFrom
  <2>2. Len(frames') = 1 /\ frames'[1] = Frame(Len(obj) + 1, "enter", 0, 0)
    BY <2>1
  <2> QED BY <2>2 DEF Top, Last, Frame
<1>5. ~Running("call")' /\ ~(Len(frames') > 1)
  BY <1>4 DEF Running
<1>6. Upward'
  BY <1>3 DEF Upward
<1>7. ToActive'
  BY <1>3 DEF ToActive
<1>8. Fresh'
  BY <1>3, <1>5 DEF Fresh
<1>9. FoundKnown' /\ CalledKnown' /\ Cut' /\ LowlinksTold'
  BY <1>3, <1>5 DEF FoundKnown, CalledKnown, Cut, LowlinksTold
<1> QED BY <1>6, <1>7, <1>8, <1>9 DEF OpenPart

\* TreeEdge: the node called is new, so its caller is not closed either.
LEMMA TreeOpen ==
  ASSUME StacksInv, OpenPart, ClosedFollowed, [Next]_vars, TreeEdge
  PROVE  OpenPart'
<1>1. /\ path' = path /\ accepting' = accepting /\ closed' = closed /\ active' = active
      /\ lowlinks' = lowlinks /\ found' = found /\ cstack' = cstack
      /\ Top' = Frame(Len(obj) + 1, "enter", 0, 0)
      /\ Len(frames) \in Nat /\ Len(frames') = Len(frames) + 1
  BY TreeViews, TreeFacts
<1>2. Top'.pc = "enter" /\ Top'.obj = Len(obj) + 1 /\ ~Running("call")'
  BY <1>1 DEF Running, Frame
<1>3. PICK new, u : /\ new = Len(obj) + 1 /\ NodeOf(new)' = u
                    /\ u \in Post(path[top]) /\ u \notin closed
  BY TreeFacts
<1>4. Exploring /\ top \in DOMAIN path /\ Top.pc = "loop"
  BY TreeFacts, ExploringFacts
<1>5. Component = {}
  <2>1. frames' # frames
    BY <1>1
  <2>2. ~CloseOne
    <3>1. CloseOne => \E d \in Nat : d = Len(cstack) /\ Len(cstack') = d - 1
      BY CloseViews
    <3> QED BY <3>1, <1>1
  <2> QED BY <2>1, <2>2, NothingClosing
<1>6. path[top] \notin closed
  BY <1>3, <1>5 DEF ClosedFollowed
<1>7. \A p \in DOMAIN path : path[p] \notin closed
  <2> SUFFICES ASSUME NEW p \in DOMAIN path, path[p] \in closed PROVE FALSE
      OBVIOUS
  <2>1. Len(cstack) = 1
    BY DEF OpenPart, Fresh
  <2>2. DOMAIN path = 1 .. 1
    BY <2>1, LowlinkNumbers
  <2>3. p = top
    BY <2>2, <1>4
  <2> QED BY <2>3, <1>6
<1>8. NodeOf(Top.obj)' = u
  <2>1. NodeOf(Top.obj)' = NodeOf(new)'
    BY <1>2, <1>3
  <2> QED BY <2>1, <1>3
<1>9. Fresh'
  BY <1>1, <1>3, <1>7, <1>8 DEF Fresh
<1>10. Upward'
  BY <1>1, UpwardNext DEF OpenPart, Upward
<1>11. ToActive'
  BY <1>1, ToActiveNext DEF OpenPart, ToActive
<1>12. FoundKnown' /\ Cut'
  BY <1>1 DEF OpenPart, FoundKnown, Cut
<1>13. CalledKnown'
  BY <1>2 DEF CalledKnown
<1>14. LowlinksTold'
  <2>1. ~Running("call")
    BY <1>4 DEF Running
  <2> QED BY <2>1, <1>1 DEF OpenPart, LowlinksTold
<1> QED BY <1>9, <1>10, <1>11, <1>12, <1>13, <1>14 DEF OpenPart

-----------------------------------------------------------------------------
(***************************************************************************)
(* A node is entered.                                                      *)
(***************************************************************************)
\* The node that is entered is a successor of the highest active node.
LEMMA CalledByActive ==
  ASSUME StacksInv, Calls, frames # <<>>, Top.pc = "enter", Len(frames) > 1
  PROVE  \E c \in active : /\ \A a \in active : a <= c
                           /\ NodeOf(Top.obj) \in Post(path[c])
<1>1. PICK c \in active :
        /\ \A a \in active : a <= c
        /\ path[c] = NodeOf(frames[Len(frames) - 1].obj)
  BY CallerPosition
<1>2. PICK n \in Nat : n = Len(frames) /\ DOMAIN frames = 1 .. n /\ n > 1
  BY DEF StacksInv, TypeInv, TypeOK
<1>3. n - 1 \in DOMAIN frames /\ n - 1 < n /\ (n - 1) + 1 = n
  BY <1>2
<1>4. frames[n - 1].pc = "call" /\ Top = frames[n]
  BY <1>2, <1>3 DEF StacksInv, Suspended, Top, Last
<1>5. PICK f : f = frames[n - 1]
  OBVIOUS
<1>6. /\ f.edge \in 0 .. EdgesOf(NodeOf(f.obj)) - 1
      /\ NodeOf(f.qs) = EdgeTo(NodeOf(f.obj), f.edge) /\ NodeOf(f.qs) \in sys.label
      /\ Top.obj = f.qs
  BY <1>2, <1>3, <1>4, <1>5 DEF Calls
<1>7. NodeOf(f.obj) \in ProductNodes
  <2>1. f.obj \in DOMAIN obj
    BY <1>3, <1>5 DEF StacksInv, TypeInv, TypeOK
  <2> QED BY <2>1, NodesInProduct DEF StacksInv
<1>8. NodeOf(Top.obj) \in Post(NodeOf(f.obj))
  <2>1. Post(NodeOf(f.obj)) = {EdgeTo(NodeOf(f.obj), e) : e \in 0 .. EdgesOf(NodeOf(f.obj)) - 1} \cap sys.label
    BY <1>7, PostIsEdges DEF StacksInv
  <2> QED BY <2>1, <1>6
<1> QED BY <1>1, <1>2, <1>5, <1>8

\* A node entered is reached from its caller, the topmost active one, and from below it.
LEMMA EnterOpen ==
  ASSUME RoomForAll, StacksInv, Calls, OpenPart, Live, [Next]_vars, Enter
  PROVE  OpenPart'
<1>1. PICK n \in Nat \ {0}, d \in Nat :
        /\ n = Len(frames) /\ DOMAIN frames = 1 .. n /\ DOMAIN path = 1 .. d /\ d = Len(cstack)
        /\ Top = frames[n] /\ Top.pc = "enter" /\ Top.obj \in DOMAIN obj
        /\ DOMAIN path' = 1 .. d + 1
        /\ path'[d + 1] = NodeOf(Top.obj) /\ lowlinks'[d + 1] = d /\ found'[d + 1] = {}
        /\ \A p \in 1 .. d : /\ path'[p] = path[p] /\ lowlinks'[p] = lowlinks[p] /\ found'[p] = found[p]
                             /\ p \in accepting' <=> p \in accepting
        /\ active' = active \cup {d + 1} /\ closed' = closed
        /\ Len(frames') = n /\ frames'[n] = Frame(Top.obj, "loop", 0, 0)
        /\ Top' = frames'[n]
        /\ cstack' = Append(cstack, Top.obj)
  BY EnterViews
<1>2. /\ ProductIsFinite /\ TypeInv /\ frames # <<>>
      /\ \A p \in 1 .. d + 1 : p \in 1 .. d \/ p = d + 1
      /\ Top'.pc = "loop" /\ ~Running("enter")' /\ ~Running("call")' /\ ~Running("call")
      /\ active \subseteq 1 .. d
  <2>1. Top'.pc = "loop"
    BY <1>1 DEF Frame
  <2>2. active \subseteq 1 .. d
    BY <1>1, Positions, SameNode
  <2> QED BY <2>1, <2>2, <1>1, RoomIsFinite DEF StacksInv, Running, Enter, EnterWith
<1>3. n = 1 => d = 0
  <2>1. n = 1 => cstack = <<>>
    BY <1>1 DEF StacksInv, RootAtBottom
  <2> QED BY <2>1, <1>1
<1>4. path \in Seq(ProductNodes)
  BY SameNode
<1>5. \A p \in 1 .. d : NodeOf(Top.obj) \in Reachable({path[p]})
  <2> SUFFICES ASSUME NEW p \in 1 .. d PROVE NodeOf(Top.obj) \in Reachable({path[p]})
      OBVIOUS
  <2>1. n > 1
    BY <1>3
  <2>2. PICK c \in active : (\A a \in active : a <= c) /\ NodeOf(Top.obj) \in Post(path[c])
    BY <2>1, <1>1, <1>2, CalledByActive
  <2>3. PICK a \in active : a <= p /\ path[a] \in Reachable({path[p]})
    BY <1>1 DEF OpenPart, ToActive
  <2>4. path[c] \in Reachable({path[a]})
    BY <2>2, <2>3, <1>1, <1>2 DEF OpenPart, Upward
  <2>5. path[p] \in ProductNodes /\ path[a] \in ProductNodes /\ path[c] \in ProductNodes
    BY <2>2, <2>3, <1>1, <1>2, <1>4
  <2>6. path[c] \in Reachable({path[p]})
    BY <2>3, <2>4, <2>5, <1>2, ReachFacts
  <2> QED BY <2>2, <2>5, <2>6, <1>2, ReachFacts
<1>6. \A u : u \in Reachable({u})
  BY <1>2, ReachFacts
<1>7. Upward'
  <2>1. ASSUME NEW p \in 1 .. d + 1, NEW q \in 1 .. d + 1, p <= q
        PROVE  path'[q] \in Reachable({path'[p]})
    <3>1. CASE q \in 1 .. d
      <4>1. p \in 1 .. d
        BY <3>1, <2>1
      <4> QED BY <3>1, <4>1, <2>1, <1>1 DEF OpenPart, Upward
    <3>2. CASE q = d + 1 /\ p \in 1 .. d
      BY <3>2, <1>1, <1>5
    <3>3. CASE q = d + 1 /\ p = d + 1
      BY <3>3, <1>6
    <3> QED BY <3>1, <3>2, <3>3, <1>2
  <2> QED BY <2>1, <1>1, UpwardNext
<1>8. ToActive'
  <2>1. ASSUME NEW p \in 1 .. d + 1
        PROVE  \E q \in active' : q <= p /\ path'[q] \in Reachable({path'[p]})
    <3>1. CASE p \in 1 .. d
      <4>1. PICK q \in active : q <= p /\ path[q] \in Reachable({path[p]})
        BY <3>1, <1>1 DEF OpenPart, ToActive
      <4>2. q \in 1 .. d /\ q \in active'
        BY <1>1, <1>2
      <4> QED BY <3>1, <4>1, <4>2, <1>1
    <3>2. CASE p = d + 1
      BY <3>2, <1>1, <1>6
    <3> QED BY <3>1, <3>2, <1>2
  <2> QED BY <2>1, <1>1, ToActiveNext
<1>9. Fresh'
  <2>1. ASSUME NEW p \in 1 .. d + 1, path'[p] \in closed'
        PROVE  Len(cstack') = 1 /\ Len(frames') = 1 /\ frames'[1].pc # "call"
    <3>1. p \notin 1 .. d
      <4> SUFFICES ASSUME p \in 1 .. d PROVE FALSE
          OBVIOUS
      <4>1. path[p] \in closed
        BY <2>1, <1>1
      <4>2. d = 1 /\ n = 1
        BY <4>1, <1>1 DEF OpenPart, Fresh
      <4> QED BY <4>2, <1>3
    <3>2. NodeOf(Top.obj) \in closed
      BY <3>1, <2>1, <1>1, <1>2
    <3>3. n = 1
      BY <3>2, <1>1, <1>2 DEF OpenPart, Fresh, Running
    <3>4. d = 0 /\ Len(cstack') = 1
      <4>1. cstack \in Seq(DOMAIN obj)
        BY <1>2 DEF TypeInv, TypeOK
      <4>2. Len(Append(cstack, Top.obj)) = Len(cstack) + 1
        BY <4>1
      <4> QED BY <4>2, <3>3, <1>1, <1>3
    <3> QED BY <3>3, <3>4, <1>1, <1>2
  <2> QED BY <2>1, <1>1, <1>2 DEF Fresh
<1>10. FoundKnown'
  <2>1. ASSUME NEW p \in 1 .. d + 1, NEW u \in found'[p]
        PROVE  u \in closed' \/ \E q \in 1 .. d + 1 : path'[q] = u
    <3>1. p \in 1 .. d /\ u \in found[p]
      BY <1>1, <1>2, <2>1
    <3>2. u \in closed \/ \E q \in 1 .. d : path[q] = u
      BY <3>1, <1>1 DEF OpenPart, FoundKnown
    <3> QED BY <3>2, <1>1
  <2> QED BY <2>1, <1>1 DEF FoundKnown
<1>11. CalledKnown'
  BY <1>2 DEF CalledKnown
<1>12. Cut'
  <2>1. ASSUME NEW p \in 1 .. d + 1, NEW q \in 1 .. d + 1, q <= p, path'[q] \in found'[p],
               NEW a \in accepting', q <= a, a <= p
        PROVE  FALSE
    <3>1. p \in 1 .. d
      BY <1>1, <1>2, <2>1
    <3>2. q \in 1 .. d
      BY <3>1, <2>1
    <3>3. a \in 1 .. d
      <4>1. a \in Nat
        <5>1. accepting' \subseteq DOMAIN cstack'
          BY DEF accepting
        <5>2. cstack \in Seq(DOMAIN obj)
          BY <1>2 DEF TypeInv, TypeOK
        <5>3. DOMAIN cstack' \subseteq Nat
          BY <5>2, <1>1
        <5> QED BY <5>1, <5>3
      <4> QED BY <4>1, <3>1, <3>2, <2>1
    <3>4. a \in accepting /\ path[q] \in found[p]
      BY <3>1, <3>2, <3>3, <2>1, <1>1
    <3> QED BY <3>1, <3>2, <3>4, <2>1, <1>1 DEF OpenPart, Cut
  <2> QED BY <2>1, <1>1 DEF Cut
<1>13. LowlinksTold'
  <2>1. ASSUME NEW p \in 1 .. d + 1, NEW q \in 1 .. d + 1, NEW a \in active',
               path'[q] \in found'[p], q < a, a <= p
        PROVE  \E b \in active' : b >= a /\ lowlinks'[b] < q
    <3>1. p \in 1 .. d
      BY <1>1, <1>2, <2>1
    <3>2. a \in active
      <4>1. a # d + 1
        BY <3>1, <2>1
      <4> QED BY <4>1, <1>1
    <3>3. q \in 1 .. d
      BY <3>1, <3>2, <2>1, <1>2
    <3>4. path[q] \in found[p]
      BY <3>1, <3>3, <2>1, <1>1
    <3>5. PICK b \in active : b >= a /\ lowlinks[b] < q
      BY <3>1, <3>2, <3>3, <3>4, <2>1, <1>1, <1>2 DEF OpenPart, LowlinksTold
    <3>6. b \in 1 .. d /\ b \in active'
      BY <1>1, <1>2
    <3>7. lowlinks'[b] = lowlinks[b]
      BY <3>6, <1>1
    <3> QED BY <3>5, <3>6, <3>7
  <2> QED BY <2>1, <1>1 DEF LowlinksTold
<1> QED BY <1>7, <1>8, <1>9, <1>10, <1>11, <1>12, <1>13 DEF OpenPart

-----------------------------------------------------------------------------
(***************************************************************************)
(* An edge is followed, or a call returns.                                 *)
(***************************************************************************)
\* The running activation goes on: what its edge adds is known, cuts no accepting
\* node off, and is told by its lowlink.
LEMMA AdvanceOpen ==
  ASSUME StacksInv, OpenPart, [Next]_vars, ~Enter, frames # <<>>, Top.pc # "enter", NextEdge,
         UNCHANGED <<cstack, h>>, Top.edge \in 0 .. EdgesOf(path[top]) - 1,
         NEW E, E = EdgeTo(path[top], Top.edge),
         E \in sys.label => E \in closed \/ \E q \in DOMAIN path : path[q] = E,
         \A q \in DOMAIN path : E \in sys.label /\ path[q] = E /\ q <= top =>
           \A a \in accepting : ~(q <= a /\ a <= top),
         \A q \in DOMAIN path : E \in sys.label /\ path[q] = E /\ q < top => lowlinks'[top] < q,
         \A q \in DOMAIN path : lowlinks[top] < q => lowlinks'[top] < q,
         \A q \in DOMAIN path : Running("call") /\ obj[Top.qs].lowlink < q => lowlinks'[top] < q
  PROVE  OpenPart'
<1>1. /\ path' = path /\ accepting' = accepting /\ closed' = closed /\ active' = active
      /\ frames' # <<>> /\ Len(frames') = Len(frames)
      /\ Top'.pc = "loop"
      /\ found'[top] = found[top] \cup ({E} \cap sys.label)
      /\ \A p \in DOMAIN path : p # top => found'[p] = found[p] /\ lowlinks'[p] = lowlinks[p]
  BY AdvanceViews
<1>2. ~Running("enter")' /\ ~Running("call")'
  BY <1>1 DEF Running
<1>3. top \in active /\ active \subseteq DOMAIN path /\ \A a \in active : a <= top
  BY TopPosition, Positions, SameNode
<1>4. Upward'
  BY <1>1, UpwardNext DEF OpenPart, Upward
<1>5. ToActive'
  BY <1>1, ToActiveNext DEF OpenPart, ToActive
<1>6. Fresh'
  <2>1. ASSUME NEW p \in DOMAIN path, path[p] \in closed
        PROVE  Len(cstack') = 1 /\ Len(frames') = 1 /\ frames'[1].pc # "call"
    <3>1. Len(cstack) = 1 /\ Len(frames) = 1
      BY <2>1 DEF OpenPart, Fresh
    <3>2. Top' = frames'[1]
      BY <3>1, <1>1 DEF Top, Last
    <3> QED BY <3>1, <3>2, <1>1
  <2> QED BY <2>1, <1>1, <1>2 DEF Fresh
<1>7. FoundKnown'
  <2>1. ASSUME NEW p \in DOMAIN path, NEW u \in found'[p]
        PROVE  u \in closed \/ \E q \in DOMAIN path : path[q] = u
    <3>1. CASE u \in found[p]
      BY <3>1 DEF OpenPart, FoundKnown
    <3>2. CASE u \notin found[p]
      <4>1. u = E /\ E \in sys.label
        BY <3>2, <2>1, <1>1
      <4> QED BY <4>1
    <3> QED BY <3>1, <3>2
  <2> QED BY <2>1, <1>1 DEF FoundKnown
<1>8. CalledKnown'
  BY <1>2 DEF CalledKnown
<1>9. \A p \in DOMAIN path : \A u \in found'[p] : u \in found[p] \/ (p = top /\ u = E /\ E \in sys.label)
  <2> SUFFICES ASSUME NEW p \in DOMAIN path, NEW u \in found'[p]
               PROVE  u \in found[p] \/ (p = top /\ u = E /\ E \in sys.label)
      OBVIOUS
  <2>1. CASE p = top
    <3>1. u \in found[top] \cup ({E} \cap sys.label)
      BY <2>1, <1>1
    <3> QED BY <2>1, <3>1
  <2>2. CASE p # top
    BY <2>2, <1>1
  <2> QED BY <2>1, <2>2
<1>10. Cut'
  <2>1. ASSUME NEW p \in DOMAIN path, NEW q \in DOMAIN path, q <= p, path[q] \in found'[p]
        PROVE  \A a \in accepting : ~(q <= a /\ a <= p)
    <3>1. CASE path[q] \in found[p]
      BY <3>1, <2>1 DEF OpenPart, Cut
    <3>2. CASE p = top /\ path[q] = E /\ E \in sys.label
      BY <3>2, <2>1
    <3> QED BY <3>1, <3>2, <2>1, <1>9
  <2> QED BY <2>1, <1>1 DEF Cut
<1>11. LowlinksTold'
  <2>1. ASSUME NEW p \in DOMAIN path, NEW q \in DOMAIN path, NEW a \in active,
               path[q] \in found'[p], q < a, a <= p
        PROVE  \E b \in active : b >= a /\ lowlinks'[b] < q
    <3>1. CASE path[q] \in found[p]
      <4>1. \/ \E b \in active : b >= a /\ lowlinks[b] < q
            \/ Running("call") /\ obj[Top.qs].lowlink < q
        BY <3>1, <2>1 DEF OpenPart, LowlinksTold
      <4>2. CASE \E b \in active : b >= a /\ lowlinks[b] < q
        <5>1. PICK b \in active : b >= a /\ lowlinks[b] < q
          BY <4>2
        <5>2. lowlinks'[b] < q
          BY <5>1, <1>1, <1>3
        <5> QED BY <5>1, <5>2
      <4>3. CASE Running("call") /\ obj[Top.qs].lowlink < q
        <5>1. lowlinks'[top] < q /\ top >= a
          BY <4>3, <1>3
        <5> QED BY <5>1, <1>3
      <4> QED BY <4>1, <4>2, <4>3
    <3>2. CASE p = top /\ path[q] = E /\ E \in sys.label
      <4>1. q < top
        <5>1. q \in Nat /\ a \in Nat /\ top \in Nat
          <6>1. DOMAIN path \subseteq Nat
            BY LowlinkNumbers
          <6> QED BY <6>1, <1>3
        <5> QED BY <5>1, <3>2, <2>1
      <4>2. lowlinks'[top] < q /\ top >= a
        BY <4>1, <3>2, <1>3
      <4> QED BY <4>2, <1>3
    <3> QED BY <3>1, <3>2, <2>1, <1>9
  <2> QED BY <2>1, <1>1 DEF LowlinksTold
<1> QED BY <1>4, <1>5, <1>6, <1>7, <1>8, <1>10, <1>11 DEF OpenPart

\* Lowering a lowlink lowers it.
LEMMA SmallerLess ==
  ASSUME NEW x \in Nat, NEW y \in Nat, NEW q \in Nat, x < q \/ y < q
  PROVE  Smaller(x, y) < q
BY DEF Smaller

\* An edge to no node, or to a closed one, tells no lowlink anything.
LEMMA SkipCrossOpen ==
  ASSUME StacksInv, OpenPart, [Next]_vars, SkipEdge \/ CrossEdge
  PROVE  OpenPart'
<1> DEFINE E == EdgeTo(path[top], Top.edge)
<1>1. /\ Exploring /\ frames # <<>> /\ NextEdge /\ ~Enter /\ UNCHANGED <<obj, cstack, h>>
      /\ Top.edge \in 0 .. EdgesOf(path[top]) - 1
      /\ E \in sys.label => E \in closed /\ \A q \in DOMAIN path : path[q] # E
  BY SkipCrossFacts
<1>2. Top.pc = "loop" /\ ~Running("call") /\ top \in DOMAIN path
  BY <1>1, ExploringFacts DEF Running
<1>3. lowlinks' = lowlinks
  BY <1>1 DEF lowlinks
<1> HIDE DEF E
<1>4. E = EdgeTo(path[top], Top.edge)
  BY DEF E
<1> QED BY <1>1, <1>2, <1>3, <1>4, AdvanceOpen

\* An edge to an open node, with no accepting one between.
LEMMA CycleOpen ==
  ASSUME StacksInv, AstackMatches, OpenPart, Live', [Next]_vars, CloseCycle
  PROVE  OpenPart'
<1> DEFINE E == EdgeTo(path[top], Top.edge)
<1>1. /\ Exploring /\ ~Enter /\ UNCHANGED <<cstack, h>>
      /\ \E p \in DOMAIN path :
           /\ path[p] = E /\ lowlinks'[top] = Smaller(lowlinks[top], lowlinks[p])
           /\ NextEdge /\ \A a \in accepting : a < p
  BY CycleFacts DEF Live
<1>2. PICK p \in DOMAIN path :
        /\ path[p] = E /\ lowlinks'[top] = Smaller(lowlinks[top], lowlinks[p])
        /\ NextEdge /\ \A a \in accepting : a < p
  BY <1>1
<1>3. /\ frames # <<>> /\ Top.pc = "loop" /\ top \in DOMAIN path
      /\ Top.edge \in 0 .. EdgesOf(path[top]) - 1 /\ ~Running("call")
  BY <1>1, ExploringFacts DEF Running
<1> HIDE DEF E
<1>4. \A q \in DOMAIN path : path[q] = E => q = p
  BY <1>2, SameNode
<1>5. /\ DOMAIN path \subseteq Nat /\ accepting \subseteq Nat
      /\ lowlinks[p] \in Nat /\ lowlinks[p] < p /\ lowlinks[top] \in Nat
  BY <1>2, <1>3, LowlinkNumbers DEF accepting
<1>6. \A q \in DOMAIN path : path[q] = E => \A a \in accepting : ~(q <= a /\ a <= top)
  <2> SUFFICES ASSUME NEW a \in accepting PROVE ~(p <= a /\ a <= top)
    BY <1>4
  <2>1. a < p /\ a \in Nat /\ p \in Nat
    BY <1>2, <1>5
  <2> QED BY <2>1
<1>7. \A q \in DOMAIN path : path[q] = E => lowlinks'[top] < q
  BY <1>2, <1>4, <1>5, SmallerLess
<1>8. \A q \in DOMAIN path : lowlinks[top] < q => lowlinks'[top] < q
  <2> SUFFICES ASSUME NEW q \in DOMAIN path, lowlinks[top] < q PROVE lowlinks'[top] < q
      OBVIOUS
  <2>1. q \in Nat
    BY <1>5
  <2> QED BY <2>1, <1>2, <1>5, SmallerLess
<1>9. E = EdgeTo(path[top], Top.edge)
  BY DEF E
<1>10. E \in sys.label => E \in closed \/ \E q \in DOMAIN path : path[q] = E
  BY <1>2
<1> QED BY <1>1, <1>2, <1>3, <1>6, <1>7, <1>8, <1>9, <1>10, AdvanceOpen

\* The call that returns hands its lowlink to its caller.
LEMMA CallOpen ==
  ASSUME StacksInv, Calls, OpenPart, [Next]_vars, AfterCall
  PROVE  OpenPart'
<1> DEFINE E == EdgeTo(path[top], Top.edge)
<1>1. /\ frames # <<>> /\ Top.pc = "call" /\ NextEdge /\ ~Enter /\ UNCHANGED <<cstack, h>>
      /\ top \in DOMAIN path /\ Top.qs \in DOMAIN obj
      /\ Top.edge \in 0 .. EdgesOf(path[top]) - 1
      /\ NodeOf(Top.qs) = E
      /\ lowlinks'[top] = Smaller(lowlinks[top], obj[Top.qs].lowlink)
  BY CallFacts
<1>2. Running("call")
  BY <1>1 DEF Running
<1> HIDE DEF E
<1>3. E \in closed \/ \E q \in DOMAIN path : q > top /\ path[q] = E
  <2>1. CASE E \in closed
    BY <2>1
  <2>2. CASE \E q \in DOMAIN cstack : q > top /\ cstack[q] = Top.qs
    <3>1. PICK q \in DOMAIN cstack : q > top /\ cstack[q] = Top.qs
      BY <2>2
    <3>2. q \in DOMAIN path /\ path[q] = E
      BY <3>1, <1>1, SameNode, PathEntries
    <3> QED BY <3>1, <3>2
  <2> QED BY <2>1, <2>2, <1>1, <1>2 DEF OpenPart, CalledKnown
<1>4. DOMAIN path \subseteq Nat /\ lowlinks[top] \in Nat /\ obj[Top.qs].lowlink \in Nat
  <2>1. obj \in Seq(Objects)
    BY DEF StacksInv, TypeInv, TypeOK
  <2>2. obj[Top.qs] \in Objects
    BY <2>1, <1>1
  <2> QED BY <2>2, <1>1, LowlinkNumbers DEF Objects
<1>5. \A q \in DOMAIN path : path[q] = E => q > top
  <2> SUFFICES ASSUME NEW q \in DOMAIN path, path[q] = E PROVE q > top
      OBVIOUS
  <2>1. CASE E \in closed
    <3>1. Len(frames) = 1 /\ frames[1].pc # "call"
      BY <2>1 DEF OpenPart, Fresh
    <3> QED BY <3>1, <1>1 DEF Top, Last
  <2>2. CASE \E p \in DOMAIN path : p > top /\ path[p] = E
    BY <2>2, SameNode
  <2> QED BY <2>1, <2>2, <1>3
<1>6. \A q \in DOMAIN path : path[q] = E => ~(q <= top) /\ ~(q < top)
  <2> SUFFICES ASSUME NEW q \in DOMAIN path, path[q] = E PROVE ~(q <= top) /\ ~(q < top)
      OBVIOUS
  <2>1. q > top /\ q \in Nat /\ top \in Nat
    BY <1>1, <1>4, <1>5
  <2> QED BY <2>1
<1>7. \A q \in DOMAIN path : lowlinks[top] < q \/ obj[Top.qs].lowlink < q => lowlinks'[top] < q
  <2> SUFFICES ASSUME NEW q \in DOMAIN path, lowlinks[top] < q \/ obj[Top.qs].lowlink < q
               PROVE  lowlinks'[top] < q
      OBVIOUS
  <2>1. q \in Nat
    BY <1>4
  <2> QED BY <2>1, <1>1, <1>4, SmallerLess
<1>8. E = EdgeTo(path[top], Top.edge)
  BY DEF E
<1>9. E \in sys.label => E \in closed \/ \E q \in DOMAIN path : path[q] = E
  BY <1>3
<1>10. Top.pc # "enter"
  BY <1>1
<1>11. \A q \in DOMAIN path : E \in sys.label /\ path[q] = E /\ q <= top =>
         \A a \in accepting : ~(q <= a /\ a <= top)
  BY <1>6
<1>12. \A q \in DOMAIN path : E \in sys.label /\ path[q] = E /\ q < top => lowlinks'[top] < q
  BY <1>6
<1> QED BY <1>1, <1>7, <1>8, <1>9, <1>10, <1>11, <1>12, AdvanceOpen

-----------------------------------------------------------------------------
(***************************************************************************)
(* A node is left open, or its component is closed.                        *)
(***************************************************************************)
\* A node that stays open has its lowlink told to the caller, and an active node
\* below it that it reaches.
LEMMA LeaveOpens ==
  ASSUME RoomForAll, StacksInv, Calls, LowlinksReach, OpenPart, Live, [Next]_vars, LeaveOpen
  PROVE  OpenPart'
<1>1. /\ path' = path /\ accepting' = accepting /\ closed' = closed
      /\ active' = active \ {top} /\ lowlinks' = lowlinks /\ found' = found
  BY LeaveViews
<1>2. /\ frames # <<>> /\ Top.pc = "loop" /\ Return /\ Node.lowlink # Node.id
      /\ UNCHANGED <<obj, cstack, h, result, timeup>> /\ ~Running("call")
      /\ ProductIsFinite /\ TypeInv
  BY RoomIsFinite DEF LeaveOpen, Explored, Running, StacksInv
<1>3. /\ top \in active /\ active \subseteq DOMAIN path /\ \A a \in active : a <= top
      /\ cstack[top] = Top.obj /\ lowlinks[top] = Node.lowlink /\ DOMAIN path = DOMAIN cstack
      /\ Started(Len(frames)) /\ top = PositionOf(Len(frames))
  BY <1>2, TopPosition, Positions, SameNode
<1>4. PICK l \in Nat : l = lowlinks[top] /\ l + 1 < top /\ top \in Nat
  <2>1. Node.lowlink <= Node.id /\ Node.lowlink \in Nat /\ Node.id \in Nat
    <3>1. Top.obj \in DOMAIN obj /\ Node \in Objects
      BY <1>2, TopType DEF StacksInv
    <3> QED BY <3>1 DEF StacksInv, LowlinkBelow, Node, Objects
  <2>2. Node.lowlink + 1 < Node.id + 1
    BY <2>1, <1>2
  <2> QED BY <2>1, <2>2, <1>3 DEF top
<1>5. frames' # <<>>
  <2>1. PICK n \in Nat : n = Len(frames) /\ n > 0
    BY <1>2 DEF TypeInv, TypeOK
  <2>2. CASE n = 1
    <3>1. Node.id = 0
      BY <2>1, <2>2, <1>2 DEF StacksInv, RootAtBottom, Node, Top, Last
    <3> QED BY <3>1, <1>4 DEF top
  <2>3. CASE n > 1
    BY <2>1, <2>3, <1>2, ReturnStacks
  <2> QED BY <2>1, <2>2, <2>3
<1>6. PICK n \in Nat : /\ n = Len(frames) /\ n > 1 /\ Top' = frames[n - 1] /\ n - 1 \in DOMAIN frames
                       /\ frames[n - 1].pc = "call" /\ frames[n - 1].qs = Top.obj
  BY <1>2, <1>5, ReturnsTo
<1>7. Running("call")' /\ ~Running("enter")' /\ Top'.qs = Top.obj
  BY <1>5, <1>6 DEF Running
<1>8. top' < top
  <2>1. top' = PositionOf(n - 1)
    <3>1. top' = obj[frames[n - 1].obj].id + 1
      BY <1>2, <1>6 DEF top, Node
    <3> QED BY <3>1 DEF PositionOf
  <2>2. Started(n - 1) /\ n - 1 < n
    BY <1>6 DEF Started
  <2> QED BY <2>1, <2>2, <1>3, <1>6, Positions
<1>9. Upward'
  BY <1>1, UpwardNext DEF OpenPart, Upward
<1>10. ToActive'
  <2>1. ASSUME NEW p \in DOMAIN path
        PROVE  \E q \in active' : q <= p /\ path[q] \in Reachable({path[p]})
    <3>1. PICK a \in active : a <= p /\ path[a] \in Reachable({path[p]})
      BY DEF OpenPart, ToActive
    <3>2. CASE a # top
      BY <3>1, <3>2, <1>1
    <3>3. CASE a = top
      <4>1. l + 1 \in DOMAIN path /\ path[l + 1] \in Reachable({path[top]})
        BY <1>3, <1>4 DEF LowlinksReach, Live
      <4>2. PICK b \in active : b <= l + 1 /\ path[b] \in Reachable({path[l + 1]})
        BY <4>1 DEF OpenPart, ToActive
      <4>3. b \in Nat /\ p \in Nat /\ a \in Nat
        <5>1. DOMAIN path \subseteq Nat
          BY LowlinkNumbers
        <5> QED BY <5>1, <1>3
      <4>4. b # top /\ b <= p
        BY <4>2, <4>3, <3>1, <3>3, <1>4
      <4>5. path[p] \in ProductNodes /\ path[top] \in ProductNodes /\ path[l + 1] \in ProductNodes
        <5>1. path \in Seq(ProductNodes)
          BY SameNode
        <5> QED BY <5>1, <4>1, <1>3
      <4>6. path[l + 1] \in Reachable({path[p]})
        BY <4>1, <4>5, <3>1, <3>3, <1>2, ReachFacts
      <4>7. path[b] \in Reachable({path[p]})
        BY <4>2, <4>5, <4>6, <1>2, ReachFacts
      <4> QED BY <4>4, <4>7, <1>1
    <3> QED BY <3>2, <3>3
  <2> QED BY <2>1, <1>1, ToActiveNext
<1>11. Fresh'
  <2>1. \A p \in DOMAIN path : path[p] \notin closed
    <3>1. Len(frames) # 1
      BY <1>6
    <3> QED BY <3>1 DEF OpenPart, Fresh
  <2> QED BY <2>1, <1>1, <1>7 DEF Fresh
<1>12. FoundKnown' /\ Cut'
  BY <1>1 DEF OpenPart, FoundKnown, Cut
<1>13. CalledKnown'
  <2>1. top > top' /\ top \in DOMAIN cstack' /\ cstack'[top] = Top'.qs
    <3>1. top' \in Nat
      <4>1. Top'.obj \in DOMAIN obj
        BY <1>2, <1>6 DEF TypeInv, TypeOK
      <4>2. obj \in Seq(Objects)
        BY <1>2 DEF TypeInv, TypeOK
      <4>3. obj[Top'.obj] \in Objects
        BY <4>1, <4>2
      <4> QED BY <4>3, <1>2 DEF top, Node, Objects
    <3> QED BY <3>1, <1>2, <1>3, <1>4, <1>7, <1>8
  <2> QED BY <2>1 DEF CalledKnown
<1>14. LowlinksTold'
  <2>1. ASSUME NEW p \in DOMAIN path, NEW q \in DOMAIN path, NEW a \in active',
               path[q] \in found[p], q < a, a <= p
        PROVE  \/ \E b \in active' : b >= a /\ lowlinks'[b] < q
               \/ Running("call")' /\ obj'[Top'.qs].lowlink < q
    <3>1. PICK b \in active : b >= a /\ lowlinks[b] < q
      BY <2>1, <1>1, <1>2 DEF OpenPart, LowlinksTold
    <3>2. CASE b # top
      BY <3>1, <3>2, <1>1
    <3>3. CASE b = top
      <4>1. obj'[Top'.qs].lowlink < q
        BY <3>1, <3>3, <1>2, <1>3, <1>7 DEF Node
      <4> QED BY <4>1, <1>7
    <3> QED BY <3>2, <3>3
  <2> QED BY <2>1, <1>1 DEF LowlinksTold
<1> QED BY <1>9, <1>10, <1>11, <1>12, <1>13, <1>14 DEF OpenPart

\* A node is closed: the top of the stack.
LEMMA CloseOpen ==
  ASSUME RoomForAll, StacksInv, Calls, OpenPart, [Next]_vars, CloseOne
  PROVE  OpenPart'
<1>1. PICK n \in Nat \ {0}, d \in Nat \ {0} :
        /\ n = Len(frames) /\ DOMAIN path = 1 .. d /\ d = Len(cstack)
        /\ Top = frames[n] /\ Top.pc = "loop" /\ frames # <<>>
        /\ DOMAIN path' = 1 .. d - 1 /\ Len(cstack') = d - 1
        /\ \A p \in 1 .. d - 1 : /\ cstack'[p] = cstack[p]
                                 /\ path'[p] = path[p] /\ lowlinks'[p] = lowlinks[p] /\ found'[p] = found[p]
        /\ accepting' = accepting \ {d} /\ closed' = closed \cup {path[d]}
        /\ \/ top # d /\ active' = active /\ frames' = frames
           \/ top = d /\ active' = active \ {d} /\ cstack[d] = Top.obj
        /\ UNCHANGED <<sys, rgnodevec, obj>>
  BY CloseViews
<1>2. \A p \in 1 .. d - 1 : p \in 1 .. d /\ p # d
  OBVIOUS
<1>3. /\ top \in 1 .. d /\ lowlinks[top] = Node.lowlink /\ cstack[top] = Top.obj
      /\ active \subseteq 1 .. d /\ (\A a \in active : a <= top)
      /\ DOMAIN path = DOMAIN cstack
  BY <1>1, TopPosition, Positions, SameNode
<1>4. Upward'
  <2>1. \A p, q \in 1 .. d - 1 : p <= q => path'[q] \in Reachable({path'[p]})
    BY <1>1, <1>2 DEF OpenPart, Upward
  <2> QED BY <2>1, <1>1, UpwardNext
<1>5. ToActive'
  <2>1. ASSUME NEW p \in 1 .. d - 1
        PROVE  \E q \in active' : q <= p /\ path'[q] \in Reachable({path'[p]})
    <3>1. PICK q \in active : q <= p /\ path[q] \in Reachable({path[p]})
      BY <1>1, <1>2 DEF OpenPart, ToActive
    <3>2. q \in 1 .. d - 1
      BY <3>1, <1>3
    <3>3. q \in active'
      BY <3>2, <1>1
    <3> QED BY <3>1, <3>2, <3>3, <1>1
  <2> QED BY <2>1, <1>1, ToActiveNext
<1>6. ~Running("enter")'
  <2>1. CASE frames' = frames
    <3>1. Top' = Top
      BY <2>1 DEF Top, Last
    <3> QED BY <3>1, <1>1 DEF Running
  <2>2. CASE frames' # frames /\ frames' # <<>>
    <3>1. Return
      BY <2>2 DEF CloseOne, CloseRound
    <3>2. PICK m \in Nat : Top' = frames[m - 1] /\ frames[m - 1].pc = "call"
      BY <3>1, <2>2, <1>1, ReturnsTo
    <3> QED BY <3>2 DEF Running
  <2>3. CASE frames' = <<>>
    BY <2>3 DEF Running
  <2> QED BY <2>1, <2>2, <2>3
<1>7. Fresh'
  <2>1. ASSUME NEW p \in 1 .. d - 1 PROVE path'[p] \notin closed'
    <3>1. path[p] # path[d]
      <4>1. p \in 1 .. d /\ d \in 1 .. d /\ p # d
        BY <1>2
      <4> QED BY <4>1, <1>1, SameNode
    <3>2. path[p] \notin closed
      <4> SUFFICES ASSUME path[p] \in closed PROVE FALSE
          OBVIOUS
      <4>1. d = 1
        BY <1>1, <1>2 DEF OpenPart, Fresh
      <4> QED BY <4>1
    <3> QED BY <3>1, <3>2, <1>1
  <2> QED BY <2>1, <1>1, <1>6 DEF Fresh
<1>8. FoundKnown'
  <2>1. ASSUME NEW p \in 1 .. d - 1, NEW u \in found'[p]
        PROVE  u \in closed' \/ \E q \in 1 .. d - 1 : path'[q] = u
    <3>1. u \in closed \/ \E q \in 1 .. d : path[q] = u
      BY <2>1, <1>1, <1>2 DEF OpenPart, FoundKnown
    <3>2. \A q \in 1 .. d : q = d \/ q \in 1 .. d - 1
      OBVIOUS
    <3> QED BY <3>1, <3>2, <1>1
  <2> QED BY <2>1, <1>1 DEF FoundKnown
<1>9. CalledKnown'
  <2> SUFFICES ASSUME Running("call")' PROVE NodeOf(Top.qs)' \in closed'
    BY DEF CalledKnown
  <2>1. frames' # frames
    <3>1. frames' = frames => Top' = Top
      BY DEF Top, Last
    <3> QED BY <3>1, <1>1 DEF Running
  <2>2. Return /\ frames' # <<>>
    BY <2>1 DEF CloseOne, CloseRound, Running
  <2>3. Top'.qs = Top.obj
    BY <2>2, <1>1, ReturnsTo
  <2>4. d \in DOMAIN cstack /\ cstack[d] = Top.obj
    BY <2>1, <1>1, <1>3
  <2>5. path[d] = NodeOf(Top.obj)
    BY <2>4, PathEntries
  <2>6. PICK o : o = Top.obj
    OBVIOUS
  <2>7. NodeOf(Top.qs)' = NodeOf(o)'
    BY <2>3, <2>6
  <2>8. NodeOf(o)' = NodeOf(o)
    BY <1>1 DEF NodeOf
  <2> QED BY <2>5, <2>6, <2>7, <2>8, <1>1
<1>10. Cut'
  <2>1. ASSUME NEW p \in 1 .. d - 1, NEW q \in 1 .. d - 1, q <= p, path'[q] \in found'[p],
               NEW a \in accepting', q <= a, a <= p
        PROVE  FALSE
    <3>1. a \in accepting /\ path[q] \in found[p]
      BY <2>1, <1>1
    <3> QED BY <3>1, <2>1, <1>1, <1>2 DEF OpenPart, Cut
  <2> QED BY <2>1, <1>1 DEF Cut
<1>11. LowlinksTold'
  <2>1. ASSUME NEW p \in 1 .. d - 1, NEW q \in 1 .. d - 1, NEW a \in active',
               path'[q] \in found'[p], q < a, a <= p
        PROVE  \E b \in active' : b >= a /\ lowlinks'[b] < q
    <3>1. a \in active /\ path[q] \in found[p] /\ ~Running("call")
      BY <2>1, <1>1 DEF Running
    <3>2. PICK b \in active : b >= a /\ lowlinks[b] < q
      BY <3>1, <2>1, <1>1, <1>2 DEF OpenPart, LowlinksTold
    <3>3. b # d
      <4> SUFFICES ASSUME b = d PROVE FALSE
          OBVIOUS
      <4>1. top = d
        BY <1>3
      <4>2. PICK i \in Nat : i = Node.id
        <5>1. Node \in Objects
          BY <1>1, TopType DEF StacksInv
        <5> QED BY <5>1 DEF Objects
      <4>3. lowlinks[d] = i /\ i + 1 = d
        BY <4>1, <4>2, <1>3 DEF CloseOne, CloseRound, top
      <4>4. i < q
        BY <4>3, <3>2
      <4> QED BY <4>3, <4>4, <4>2, <2>1
    <3>4. b \in 1 .. d - 1 /\ b \in active'
      BY <3>3, <1>1, <1>3
    <3>5. lowlinks'[b] = lowlinks[b]
      BY <3>4, <1>1
    <3> QED BY <3>2, <3>4, <3>5
  <2> QED BY <2>1, <1>1 DEF LowlinksTold
<1> QED BY <1>4, <1>5, <1>7, <1>8, <1>9, <1>10, <1>11 DEF OpenPart

-----------------------------------------------------------------------------
(***************************************************************************)
(* The invariant, and the theorems.                                        *)
(***************************************************************************)
\* The open part of the invariant is kept by every step of a search still undecided.
LEMMA OpenKept ==
  ASSUME RoomForAll, TimelyInv, LiveInv, Live', [Next]_vars
  PROVE  OpenPart'
<1>1. /\ StacksInv /\ AstackMatches /\ Calls /\ LowlinksReach /\ Live
      /\ OpenPart /\ ClosedFollowed
  BY DecidedOnce DEF TimelyInv, StacksInv, LiveInv
<1>2. CASE SearchFrom
  BY <1>1, <1>2, SearchFromOpen
<1>3. CASE TreeEdge
  BY <1>1, <1>3, TreeOpen
<1>4. CASE Enter
  BY <1>1, <1>4, EnterOpen
<1>5. CASE SkipEdge \/ CrossEdge
  BY <1>1, <1>5, SkipCrossOpen
<1>6. CASE CloseCycle
  BY <1>1, <1>6, CycleOpen
<1>7. CASE AfterCall
  BY <1>1, <1>7, CallOpen
<1>8. CASE LeaveOpen
  BY <1>1, <1>8, LeaveOpens
<1>9. CASE CloseOne
  BY <1>1, <1>9, CloseOpen
<1>10. CASE GetInitNode \/ StartSearch \/ Finish \/ Done \/ UNCHANGED vars
  <2>1. UNCHANGED <<sys, cstack, h, frames, obj, rgnodevec>>
    BY <1>10 DEF GetInitNode, StartSearch, Finish, Done, vars
  <2> QED BY <2>1, <1>1, IdleOpen
<1>11. ~EnterTooLate /\ ~EnterDecided /\ ~LeaveDecided
  BY <1>1 DEF EnterTooLate, EnterDecided, LeaveDecided, Live
<1> QED
  BY <1>2, <1>3, <1>4, <1>5, <1>6, <1>7, <1>8, <1>9, <1>10, <1>11 DEF Next, Step

\* Every step keeps the invariant.
LEMMA VerdictKept ==
  ASSUME RoomForAll, VerdictInv, [Next]_vars
  PROVE  VerdictInv'
<1>1. TimelyInv /\ (Live => LiveInv)
  BY DEF VerdictInv
<1>2. TimelyInv'
  BY <1>1, TimelyKept
<1>3. ASSUME Live' PROVE LiveInv'
  <2>1. StacksInv /\ StacksInv' /\ RunsInSearch /\ InitialsListed
    BY <1>1, <1>2 DEF TimelyInv
  <2>2. Live /\ LiveInv
    BY <2>1, <1>1, <1>3, DecidedOnce DEF StacksInv
  <2>3. OpenPart'
    BY <2>2, <1>1, <1>3, OpenKept
  <2>4. Fresh' /\ FoundKnown' /\ Cut' /\ LowlinksTold'
    BY <2>3 DEF OpenPart
  <2>5. ClosedFollowed' /\ NoneAccepting' /\ ComponentDone'
    BY <2>1, <2>2, <2>4, ClosedPartsKept DEF LiveInv
  <2>6. InitialsSearched'
    BY <2>1, <2>2, <1>3, InitialsSearchedKept DEF LiveInv
  <2> QED BY <2>3, <2>5, <2>6 DEF LiveInv
<1> QED BY <1>2, <1>3 DEF VerdictInv

\* The invariant holds in the initial states.
LEMMA VerdictInit == Init => VerdictInv
<1> SUFFICES ASSUME Init PROVE VerdictInv
    OBVIOUS
<1>1. /\ DOMAIN cstack = {} /\ DOMAIN astack = {} /\ DOMAIN obj = {} /\ DOMAIN frames = {}
      /\ frames = <<>> /\ DOMAIN initial_status = {}
      /\ h = {} /\ phase = "init" /\ next = 1 /\ result = TRUE /\ rgnodevec = <<sys.init>>
      /\ sys \in Systems
  BY DEF Init
<1>2. ~Running("enter") /\ ~Running("call") /\ ~Running("loop")
  BY <1>1 DEF Running
<1>3. DOMAIN path = {} /\ accepting = {} /\ closed = {} /\ Component = {}
  <2>1. DOMAIN path = {}
    BY <1>1 DEF path
  <2>2. accepting = {}
    BY <1>1 DEF accepting
  <2>3. closed = {}
    BY <1>1 DEF closed
  <2>4. Component = {}
    BY <1>2 DEF Component, Closing
  <2> QED BY <2>1, <2>2, <2>3, <2>4
<1>4. TypeInv /\ StacksInv
  BY InitType, InitStacks
<1>5. InitialsListed
  <2>1. rgnodevec[1] = sys.init
    BY <1>1
  <2>2. sys.vertics \in Seq(BAStates)
    BY <1>1, SystemFields
  <2>3. \A k \in DOMAIN sys.vertics : k >= next
    BY <2>2, <1>1
  <2>4. \A b \in sys.initial : \E k \in DOMAIN sys.vertics : sys.vertics[k] = b
    BY <1>1, SystemsAssumption
  <2> QED BY <2>1, <2>3, <2>4, <1>1 DEF InitialsListed
<1>6. AstackMatches /\ Calls /\ EnteredInTime /\ Returned
  BY <1>1, <1>2, <1>3 DEF AstackMatches, Calls, EnteredInTime, Returned
<1>7. LowlinksReach /\ AllReached /\ RunsInSearch /\ RefutedRightly
  BY <1>1, <1>3 DEF LowlinksReach, AllReached, RunsInSearch, RefutedRightly
<1>8. Upward /\ ToActive /\ Fresh /\ FoundKnown /\ CalledKnown /\ Cut /\ LowlinksTold
  BY <1>2, <1>3 DEF Upward, ToActive, Fresh, FoundKnown, CalledKnown, Cut, LowlinksTold
<1>9. ClosedFollowed /\ NoneAccepting /\ ComponentDone /\ InitialsSearched
  BY <1>1, <1>3 DEF ClosedFollowed, NoneAccepting, ComponentDone, InitialsSearched
<1> QED BY <1>4, <1>5, <1>6, <1>7, <1>8, <1>9 DEF VerdictInv, TimelyInv, LiveInv, OpenPart

\* The invariant of the search.
LEMMA VerdictHolds == ASSUME RoomForAll PROVE Spec => []VerdictInv
<1>1. VerdictInv /\ [Next]_vars => VerdictInv'
  BY VerdictKept
<1> QED BY <1>1, VerdictInit, PTL DEF Spec

\* What has been closed leads to no accepting cycle.
LEMMA ClosedHarmless ==
  ASSUME RoomForAll, StacksInv, LiveInv, NEW S, S \subseteq closed
  PROVE  ~AcceptingLassoFrom(S)
<1> DEFINE C == closed \cup Component
<1>1. ProductIsFinite /\ TypeInv
  BY RoomIsFinite DEF StacksInv
<1>2. \A u \in C : Post(u) \subseteq C /\ ~AcceptingCycleAt(u)
  BY DEF LiveInv, ClosedFollowed, NoneAccepting, ComponentDone
<1>3. S \subseteq C
  OBVIOUS
<1> HIDE DEF C
<1>4. Reachable(S) \subseteq C
  BY <1>1, <1>2, <1>3, ReachFacts
<1> QED BY <1>2, <1>4 DEF AcceptingLassoFrom

(***************************************************************************)
(* A lowlink never claims too much.  LeaveOpen relies on it: a node whose  *)
(* lowlink is not its id stays on cstack because a node below it, of the   *)
(* same component, will close it.                                          *)
(***************************************************************************)
THEOREM LowlinksAreReached == ASSUME RoomForAll PROVE Spec => []LowlinkReaches
<1>1. VerdictInv => LowlinkReaches
  <2> SUFFICES ASSUME VerdictInv, ~timeup, NEW p \in DOMAIN cstack
               PROVE  /\ obj[cstack[p]].lowlink <= obj[cstack[p]].id
                      /\ NodeOf(cstack[obj[cstack[p]].lowlink + 1]) \in Reachable({NodeOf(cstack[p])})
    BY DEF LowlinkReaches
  <2>1. StacksInv /\ LowlinksReach
    BY DEF VerdictInv, TimelyInv
  <2>2. cstack[p] \in DOMAIN obj
    BY <2>1 DEF StacksInv, TypeInv, TypeOK
  <2>3. obj[cstack[p]].lowlink <= obj[cstack[p]].id
    BY <2>1, <2>2 DEF StacksInv, LowlinkBelow
  <2>4. DOMAIN path = DOMAIN cstack
    BY <2>1, SameNode
  <2>5. PICK l : l = lowlinks[p]
    OBVIOUS
  <2>6. l + 1 \in DOMAIN cstack /\ path[l + 1] \in Reachable({path[p]})
    BY <2>1, <2>4, <2>5 DEF LowlinksReach
  <2>7. path[p] = NodeOf(cstack[p]) /\ l = obj[cstack[p]].lowlink
        /\ path[l + 1] = NodeOf(cstack[l + 1])
    BY <2>5, <2>6, PathEntries
  <2> QED BY <2>3, <2>6, <2>7
<1> QED BY <1>1, VerdictHolds, PTL

(***************************************************************************)
(* A closed node leads to no accepting cycle, through closed nodes or open *)
(* ones, so that the search misses nothing when CrossEdge skips it.        *)
(***************************************************************************)
THEOREM ClosedStaysHarmless == ASSUME RoomForAll PROVE Spec => []ClosedIsHarmless
<1>1. VerdictInv => ClosedIsHarmless
  <2> SUFFICES ASSUME VerdictInv, Live PROVE ~AcceptingLassoFrom(closed)
    BY DEF ClosedIsHarmless, Live, closed
  <2>1. StacksInv /\ LiveInv
    BY DEF VerdictInv, TimelyInv
  <2> QED BY <2>1, ClosedHarmless
<1> QED BY <1>1, VerdictHolds, PTL

(***************************************************************************)
(* The verdict of CHECKLTL, for every net and automaton, every order of    *)
(* the arcs and the firings and every moment the time runs out: a search   *)
(* that ends in time says TRUE exactly when no accepting cycle can be      *)
(* reached from an initial node of the product.                            *)
(***************************************************************************)
THEOREM VerdictIsCorrect == ASSUME RoomForAll PROVE Spec => []VerdictCorrect
<1>1. VerdictInv => VerdictCorrect
  <2> SUFFICES ASSUME VerdictInv, phase = "done", ~timeup
               PROVE  result <=> ~AcceptingLassoFrom(InitialNodes)
    BY DEF VerdictCorrect
  <2>1. StacksInv /\ RunsInSearch /\ InitialsListed /\ RefutedRightly /\ (Live => LiveInv)
    BY DEF VerdictInv, TimelyInv
  <2>2. result \in BOOLEAN /\ next \in Nat \ {0} /\ initial_status \in Seq(BAStates)
    BY <2>1 DEF StacksInv, TypeInv, TypeOK
  <2>3. CASE result = TRUE
    <3>1. LiveInv
      BY <2>1, <2>3 DEF Live
    <3>2. frames = <<>> /\ next \notin DOMAIN initial_status
      BY <2>1 DEF RunsInSearch
    <3>3. \A k \in DOMAIN initial_status : k < next
      <4>1. PICK m \in Nat : DOMAIN initial_status = 1 .. m
        BY <2>2
      <4> QED BY <4>1, <3>2, <2>2
    <3>4. \A k \in DOMAIN initial_status : <<sys.init, initial_status[k]>> \in closed
      BY <3>1, <3>2, <3>3 DEF LiveInv, InitialsSearched
    <3>5. \A b \in sys.initial : isLabel(sys.init, b) =>
            \E k \in DOMAIN initial_status : initial_status[k] = b
      BY <2>1 DEF InitialsListed
    <3>6. InitialNodes \subseteq closed
      BY <3>4, <3>5 DEF InitialNodes
    <3> QED BY <2>1, <2>3, <3>1, <3>6, ClosedHarmless
  <2>4. CASE result = FALSE
    BY <2>1, <2>4 DEF RefutedRightly
  <2> QED BY <2>2, <2>3, <2>4
<1> QED BY <1>1, VerdictHolds, PTL
=============================================================================

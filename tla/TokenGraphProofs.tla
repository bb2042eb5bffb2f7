-------------------------- MODULE TokenGraphProofs --------------------------
(***************************************************************************)
(* What the reachability graph owes its users, for any net: that class     *)
(* MultiSet's counts stay right and its operator== then means equality,    *)
(* that no marking has two nodes, and that a search which ends below the   *)
(* limit has found every successor.                                        *)
(*                                                                         *)
(* The net is a parameter: its markings are any set that firing does not   *)
(* leave, whose places hold multisets with right counts.                   *)
(***************************************************************************)
EXTENDS TokenGraph, FiniteSetTheorems, SequenceTheorems, WellFoundedInduction, TLAPS

-----------------------------------------------------------------------------
(* Multisets. *)

\* PLUS of two right multisets is right.
THEOREM PlusIsExact ==
  ASSUME NEW a, NEW b, Exact(a), Exact(b)
  PROVE  Exact(PLUS(a, b))
<1> DEFINE A == Tokens(a)
           B == Tokens(b)
           p == PLUS(a, b)
<1>1. Tokens(p) = A \cup B
  BY DEF PLUS, Tokens
<1>2. IsFiniteSet(A) /\ IsFiniteSet(B)
  BY DEF Exact
<1>3. \A t \in A \cup B : Held(a, t) + Held(b, t) \in Nat \ {0}
  <2> TAKE t \in A \cup B
  <2>1. t \in A => a.mapTokens[t] \in Nat \ {0}
    BY DEF Exact
  <2>2. t \in B => b.mapTokens[t] \in Nat \ {0}
    BY DEF Exact
  <2> QED
    BY <2>1, <2>2 DEF Held
<1>4. p.mapTokens \in [Tokens(p) -> Nat \ {0}]
  BY <1>1, <1>3 DEF PLUS
<1>5. p.color_count = Cardinality(A \cup B)
  <2>1. IsFiniteSet(B \ A) /\ A \cap (B \ A) = {} /\ A \cup (B \ A) = A \cup B
    BY <1>2, FS_Difference
  <2>2. Cardinality(A \cup (B \ A)) = Cardinality(A) + Cardinality(B \ A)
    <3>1. Cardinality(A \cap (B \ A)) = 0
      BY <2>1, FS_EmptySet
    <3>2. Cardinality(A) \in Nat /\ Cardinality(B \ A) \in Nat
      BY <1>2, <2>1, FS_CardinalityType
    <3>3. Cardinality(A \cup (B \ A)) = Cardinality(A) + Cardinality(B \ A) - Cardinality(A \cap (B \ A))
      BY <1>2, <2>1, FS_Union
    <3> QED
      BY <3>1, <3>2, <3>3
  <2>3. p.color_count = a.color_count + Cardinality(B \ A)
    BY DEF PLUS
  <2> QED
    BY <2>1, <2>2, <2>3 DEF Exact
<1>6. IsFiniteSet(A \cup B)
  BY <1>2, FS_Union
<1> QED
  BY <1>1, <1>4, <1>5, <1>6 DEF Exact

\* MINUS of what is there leaves a right multiset.
THEOREM MinusIsExact ==
  ASSUME NEW a, NEW b, Exact(a), Exact(b), AtLeast(a, b)
  PROVE  Exact(MINUS(a, b))
<1> DEFINE A == Tokens(a)
           B == Tokens(b)
           spent == {t \in A \cap B : a.mapTokens[t] = b.mapTokens[t]}
           m == MINUS(a, b)
<1>1. Tokens(m) = (A \cup B) \ spent
  BY DEF MINUS, Tokens
<1>2. B \subseteq A
  BY DEF AtLeast
<1>3. Tokens(m) = A \ spent /\ spent \subseteq A
  BY <1>1, <1>2
<1>4. IsFiniteSet(A)
  BY DEF Exact
<1>5. \A t \in A \ spent : Held(a, t) - Held(b, t) \in Nat \ {0}
  <2> TAKE t \in A \ spent
  <2>1. a.mapTokens[t] \in Nat \ {0}
    BY DEF Exact
  <2>2. ASSUME t \in B  PROVE  b.mapTokens[t] \in Nat /\ a.mapTokens[t] > b.mapTokens[t]
    <3>1. b.mapTokens[t] \in Nat \ {0}
      BY <2>2 DEF Exact
    <3>2. a.mapTokens[t] >= b.mapTokens[t]
      BY <2>2 DEF AtLeast
    <3>3. a.mapTokens[t] # b.mapTokens[t]
      BY <2>2
    <3> QED
      BY <2>1, <3>1, <3>2, <3>3
  <2>3. CASE t \in B
    BY <2>1, <2>2, <2>3 DEF Held
  <2>4. CASE t \notin B
    BY <2>1, <2>4 DEF Held
  <2> QED
    BY <2>3, <2>4
<1>6. m.mapTokens \in [Tokens(m) -> Nat \ {0}]
  BY <1>1, <1>3, <1>5 DEF MINUS
<1>7. m.color_count = Cardinality(A \ spent)
  <2>1. IsFiniteSet(spent) /\ Cardinality(A \ spent) = Cardinality(A) - Cardinality(A \cap spent)
    BY <1>3, <1>4, FS_Difference, FS_Subset
  <2>2. A \cap spent = spent
    OBVIOUS
  <2>3. m.color_count = a.color_count - Cardinality(spent)
    BY DEF MINUS
  <2> QED
    BY <2>1, <2>2, <2>3 DEF Exact
<1>8. IsFiniteSet(A \ spent)
  BY <1>4, FS_Difference
<1> QED
  BY <1>3, <1>6, <1>7, <1>8 DEF Exact

\* operator== means that the tokens and their counts are the same.
THEOREM SameIsEqual ==
  ASSUME NEW a, NEW b, Exact(a), Exact(b)
  PROVE  Same(a, b) <=> a.mapTokens = b.mapTokens
<1> DEFINE A == Tokens(a)
           B == Tokens(b)
<1>1. /\ IsFiniteSet(A) /\ a.color_count = Cardinality(A)
      /\ IsFiniteSet(B) /\ b.color_count = Cardinality(B)
  BY DEF Exact
<1>2. ASSUME Same(a, b)  PROVE  a.mapTokens = b.mapTokens
  <2>1. B \subseteq A /\ Cardinality(A) = Cardinality(B)
    BY <1>1, <1>2 DEF Same
  <2>2. A = B
    BY <1>1, <2>1, FS_Subset
  <2>3. \A t \in A : a.mapTokens[t] = b.mapTokens[t]
    BY <1>2, <2>2 DEF Same
  <2>4. a.mapTokens \in [A -> Nat \ {0}] /\ b.mapTokens \in [A -> Nat \ {0}]
    BY <2>2 DEF Exact
  <2> HIDE DEF A, B
  <2> QED
    BY <2>3, <2>4
<1>3. ASSUME a.mapTokens = b.mapTokens  PROVE  Same(a, b)
  BY <1>1, <1>3 DEF Same, Tokens
<1> QED
  BY <1>2, <1>3

\* Taking tokens and giving them back changes no count.
THEOREM MinusThenPlus ==
  ASSUME NEW a, NEW b, Exact(a), Exact(b), AtLeast(a, b)
  PROVE  PLUS(MINUS(a, b), b).mapTokens = a.mapTokens
<1> DEFINE A == Tokens(a)
           B == Tokens(b)
           m == MINUS(a, b)
           p == PLUS(m, b)
<1>1. B \subseteq A
  BY DEF AtLeast
<1>2. Tokens(m) \cup B = A
  BY <1>1 DEF MINUS, Tokens
<1>3. Tokens(p) = A /\ p.mapTokens = [t \in A |-> Held(m, t) + Held(b, t)]
  BY <1>2 DEF PLUS, Tokens
<1>4. \A t \in A : Held(m, t) + Held(b, t) = a.mapTokens[t]
  <2> TAKE t \in A
  <2>1. a.mapTokens[t] \in Nat
    BY DEF Exact
  <2>2. Held(b, t) \in Nat
    BY DEF Exact, Held
  <2>3. Held(m, t) = a.mapTokens[t] - Held(b, t)
    <3>1. CASE t \in Tokens(m)
      BY <3>1 DEF MINUS, Tokens, Held
    <3>2. CASE t \notin Tokens(m)
      <4>1. t \in B /\ a.mapTokens[t] = b.mapTokens[t]
        BY <3>2 DEF MINUS, Tokens
      <4> QED
        BY <2>1, <3>2, <4>1 DEF Held
    <3> QED
      BY <3>1, <3>2
  <2> QED
    BY <2>1, <2>2, <2>3
<1>5. a.mapTokens \in [A -> Nat \ {0}]
  BY DEF Exact
<1> HIDE DEF A, B
<1> QED
  BY <1>3, <1>4, <1>5

\* Equal places hold one multiset.
LEMMA SameMultiSet ==
  ASSUME NEW a, NEW b, IsMultiSet(a), IsMultiSet(b), Same(a, b)
  PROVE  a = b
<1>1. Exact(a) /\ Exact(b) /\ Tokens(a) = DOMAIN a.mapTokens /\ Tokens(b) = DOMAIN b.mapTokens
  BY DEF IsMultiSet, Tokens
<1>2. a.mapTokens = b.mapTokens
  BY <1>1, SameIsEqual
<1>3. a.color_count = b.color_count
  BY DEF Same
<1> QED BY <1>2, <1>3 DEF IsMultiSet

\* Marking's operator== is equality.
LEMMA EqualMarkings ==
  ASSUME NEW a \in Markings, NEW b \in Markings
  PROVE  Equal(a, b) <=> a = b
<1>1. IsMarking(a) /\ IsMarking(b)
  BY MarkingsAssumption
<1>2. ASSUME Equal(a, b) PROVE a = b
  <2>1. /\ DOMAIN a.control = DOMAIN Start.control /\ DOMAIN a.data = DOMAIN Start.data
    BY <1>1 DEF IsMarking
  <2>2. \A p \in DOMAIN Start.control : a.control[p] = b.control[p]
    BY <1>1, <1>2, <2>1, SameMultiSet DEF IsMarking, Equal
  <2>3. \A d \in DOMAIN Start.data : a.data[d] = b.data[d]
    BY <1>1, <1>2, <2>1, SameMultiSet DEF IsMarking, Equal
  <2> QED BY <1>1, <2>2, <2>3 DEF IsMarking
<1>3. Equal(a, a)
  BY DEF Equal, Same
<1> QED BY <1>2, <1>3

-----------------------------------------------------------------------------
(* Numbers, and recursive functions of them. *)

\* A set of numbers has a least one: induction in the form the provers take.
LEMMA LeastNumber ==
  ASSUME NEW S \in SUBSET Nat, S # {}
  PROVE  \E n \in S : \A m \in S : n <= m
<1>1. PICK n0 \in S : TRUE
  OBVIOUS
<1> DEFINE D == 0 .. n0
           R == StrictSubsetOrdering(D)
           K == {0 .. m : m \in {k \in S : k <= n0}}
<1>2. IsFiniteSet(D)
  BY FS_Interval
<1>3. IsWellFoundedOn(R, SUBSET D)
  <2>1. FiniteSubsetsOf(D) = SUBSET D
    BY <1>2, FS_FiniteSubsetsOfFinite
  <2> QED BY <2>1, FS_StrictSubsetOrderingWellFounded
<1>4. K \subseteq SUBSET D /\ K # {}
  <2>1. D \in K
    BY <1>1
  <2> QED BY <2>1
<1>5. \A m, n \in S : m < n /\ n <= n0 => <<0 .. m, 0 .. n>> \in R
  BY DEF StrictSubsetOrdering
<1> HIDE DEF R, D, K
<1>6. PICK t \in K : \A y \in K : ~ (<<y, t>> \in R)
  BY <1>3, <1>4, WFMin
<1>7. PICK n \in S : n <= n0 /\ t = 0 .. n
  BY <1>6 DEF K
<1>8. ASSUME NEW m \in S, m < n PROVE FALSE
  <2>1. 0 .. m \in K
    BY <1>7, <1>8, <1>1 DEF K
  <2>2. <<0 .. m, 0 .. n>> \in R
    BY <1>5, <1>7, <1>8
  <2> QED BY <2>1, <2>2, <1>6, <1>7
<1> QED BY <1>8

\* Induction over the natural numbers, on a set instead of a formula.
LEMMA InductionOnSets ==
  ASSUME NEW S, 0 \in S, \A n \in Nat : n \in S => n + 1 \in S
  PROVE  Nat \subseteq S
<1> SUFFICES ASSUME Nat \ S # {} PROVE FALSE
  OBVIOUS
<1>1. PICK n \in Nat \ S : \A m \in Nat \ S : n <= m
  BY LeastNumber
<1>2. n # 0 /\ n - 1 \in Nat
  BY <1>1
<1>3. n - 1 \in S
  BY <1>1, <1>2
<1>4. (n - 1) + 1 \in S
  BY <1>2, <1>3
<1> QED BY <1>1, <1>4

\* The queues turn by turn.
AreQueues(m, N, f) == f = [n \in 0 .. N |-> IF n = 0 THEN <<>> ELSE Turn(n, m, f[n - 1])]

\* There are such queues for any number of turns.
LEMMA QueuesExist ==
  ASSUME NEW m, NEW N \in Nat
  PROVE  \E f : AreQueues(m, N, f)
<1> DEFINE K == {n \in Nat : \E f : AreQueues(m, n, f)}
<1>1. 0 \in K
  <2> DEFINE f == [n \in 0 .. 0 |-> <<>>]
  <2>1. f = [n \in 0 .. 0 |-> IF n = 0 THEN <<>> ELSE Turn(n, m, f[n - 1])]
    OBVIOUS
  <2> QED BY <2>1 DEF AreQueues
<1>2. ASSUME NEW n \in Nat, n \in K PROVE n + 1 \in K
  <2>1. PICK f : AreQueues(m, n, f)
    BY <1>2
  <2>2. f = [d \in 0 .. n |-> IF d = 0 THEN <<>> ELSE Turn(d, m, f[d - 1])]
    BY <2>1 DEF AreQueues
  <2> DEFINE g == [d \in 0 .. n + 1 |-> IF d = n + 1 THEN Turn(d, m, f[n]) ELSE f[d]]
  <2>3. \A d \in 0 .. n + 1 : g[d] = IF d = 0 THEN <<>> ELSE Turn(d, m, g[d - 1])
    <3> TAKE d \in 0 .. n + 1
    <3>1. CASE d = n + 1
      <4>1. d # 0 /\ d - 1 = n /\ d - 1 \in 0 .. n + 1 /\ n # n + 1
        BY <3>1
      <4>2. g[d] = Turn(d, m, f[n]) /\ g[d - 1] = f[n]
        BY <3>1, <4>1
      <4> HIDE DEF g
      <4> QED BY <4>1, <4>2
    <3>2. CASE d = 0
      <4>1. d # n + 1 /\ d \in 0 .. n
        BY <3>2
      <4>2. g[d] = f[d]
        BY <4>1
      <4> HIDE DEF g
      <4>3. f[d] = <<>>
        BY <2>2, <4>1, <3>2
      <4> QED BY <4>2, <4>3, <3>2
    <3>3. CASE d # 0 /\ d # n + 1
      <4>1. d \in 0 .. n /\ d - 1 \in 0 .. n + 1 /\ d - 1 # n + 1
        BY <3>3
      <4>2. g[d] = f[d] /\ g[d - 1] = f[d - 1]
        BY <4>1, <3>3
      <4> HIDE DEF g
      <4>3. f[d] = Turn(d, m, f[d - 1])
        BY <2>2, <4>1, <3>3
      <4> QED BY <4>2, <4>3, <3>3
    <3> QED BY <3>1, <3>2, <3>3
  <2>4. g = [d \in 0 .. n + 1 |-> g[d]]
    OBVIOUS
  <2> HIDE DEF g
  <2>5. g = [d \in 0 .. n + 1 |-> IF d = 0 THEN <<>> ELSE Turn(d, m, g[d - 1])]
    BY <2>3, <2>4
  <2>6. AreQueues(m, n + 1, g)
    BY <2>5 DEF AreQueues
  <2> QED BY <2>6
<1> HIDE DEF K
<1>3. Nat \subseteq K
  BY <1>1, <1>2, InductionOnSets
<1> QED BY <1>3 DEF K

\* get_FireTranQ is the queue of the last turn.
LEMMA QueueIsLast ==
  ASSUME NEW m
  PROVE  \E f : /\ AreQueues(m, Len(Priority) + TransCount, f)
                /\ get_FireTranQ(m) = f[Len(Priority) + TransCount]
<1> DEFINE N == Len(Priority) + TransCount
           g == CHOOSE f : f = [n \in 0 .. N |-> IF n = 0 THEN <<>> ELSE Turn(n, m, f[n - 1])]
<1>1. N \in Nat
  BY FiringAssumption
<1>2. \E f : AreQueues(m, N, f)
  BY <1>1, QueuesExist
<1>3. g = [n \in 0 .. N |-> IF n = 0 THEN <<>> ELSE Turn(n, m, g[n - 1])]
  BY <1>2 DEF AreQueues
<1>4. AreQueues(m, N, g)
  BY <1>3 DEF AreQueues
<1>5. get_FireTranQ(m) = g[N]
  BY DEF get_FireTranQ
<1> QED BY <1>4, <1>5

-----------------------------------------------------------------------------
(* The queue of a node's transitions. *)

EntryOf(k, m) == [transition |-> k, bindings |-> BindingsOf(k, m)]
Entries(m) == {EntryOf(k, m) : k \in (1 .. TransCount) \ Aborts}

\* The transitions tried in the first n turns.
Tried(n) == {Priority[j] : j \in {i \in DOMAIN Priority : i <= n}}
              \cup {k \in 1 .. TransCount : Len(Priority) + k <= n}

\* A queue after n turns.
IsQueue(q, m, n) ==
  /\ q \in Seq(Entries(m))
  /\ \A k \in Tried(n) \ Aborts : BindingsOf(k, m) = <<>> \/ EntryOf(k, m) \in ToSet(q)

\* A transition is put in front, and what was there stays.
LEMMA PutInFront ==
  ASSUME NEW m, NEW k \in 1 .. TransCount, NEW q \in Seq(Entries(m))
  PROVE  /\ InFront(k, BindingsOf(k, m), q) \in Seq(Entries(m))
         /\ ToSet(q) \subseteq ToSet(InFront(k, BindingsOf(k, m), q))
         /\ k \in Aborts \/ BindingsOf(k, m) = <<>> \/ EntryOf(k, m) \in ToSet(InFront(k, BindingsOf(k, m), q))
<1>1. CASE k \in Aborts \/ BindingsOf(k, m) = <<>>
  BY <1>1 DEF InFront
<1>2. CASE ~(k \in Aborts \/ BindingsOf(k, m) = <<>>)
  <2> DEFINE e == EntryOf(k, m)
             E == Entries(m)
             r == <<e>> \o q
  <2>1. InFront(k, BindingsOf(k, m), q) = r
    BY <1>2 DEF InFront, EntryOf
  <2>2. e \in E
    BY <1>2 DEF Entries
  <2>3. q \in Seq(E)
    OBVIOUS
  <2> HIDE DEF e, E
  <2>4. /\ r \in Seq(E) /\ Len(q) \in Nat /\ DOMAIN r = 1 .. Len(q) + 1
        /\ r[1] = e /\ \A i \in 1 .. Len(q) : r[i + 1] = q[i]
    BY <2>2, <2>3
  <2>5. 1 \in DOMAIN r /\ \A i \in DOMAIN q : i + 1 \in DOMAIN r
    BY <2>3, <2>4
  <2>6. e \in ToSet(r)
    BY <2>4, <2>5 DEF ToSet
  <2>7. ToSet(q) \subseteq ToSet(r)
    <3> HIDE DEF r
    <3>1. DOMAIN q = 1 .. Len(q)
      BY <2>3
    <3> QED BY <2>4, <2>5, <3>1 DEF ToSet
  <2> QED BY <2>1, <2>4, <2>6, <2>7 DEF e, E
<1> QED BY <1>1, <1>2

\* Each turn tries its transition.
LEMMA TurnRight ==
  ASSUME NEW m, NEW n \in 1 .. Len(Priority) + TransCount, NEW q, IsQueue(q, m, n - 1)
  PROVE  IsQueue(Turn(n, m, q), m, n)
<1> DEFINE P == Len(Priority)
<1>1. P \in Nat /\ TransCount \in Nat /\ n \in Nat /\ n # 0 /\ n <= P + TransCount
      /\ DOMAIN Priority = 1 .. P /\ \A j \in 1 .. P : Priority[j] \in 1 .. TransCount
  BY FiringAssumption
<1>2. q \in Seq(Entries(m)) /\ \A k \in Tried(n - 1) \ Aborts : BindingsOf(k, m) = <<>> \/ EntryOf(k, m) \in ToSet(q)
  BY DEF IsQueue
<1>3. ASSUME NEW k \in 1 .. TransCount, Turn(n, m, q) = InFront(k, BindingsOf(k, m), q), Tried(n) = Tried(n - 1) \cup {k}
      PROVE  IsQueue(Turn(n, m, q), m, n)
  BY <1>2, <1>3, PutInFront DEF IsQueue
<1>4. CASE n <= P
  <2>1. Priority[n] \in 1 .. TransCount /\ Turn(n, m, q) = InFront(Priority[n], BindingsOf(Priority[n], m), q)
    BY <1>1, <1>4 DEF Turn, TurnOf
  <2>2. \A i \in 1 .. P : i <= n <=> i <= n - 1 \/ i = n
    BY <1>1
  <2>3. {Priority[j] : j \in {i \in 1 .. P : i <= n}} = {Priority[j] : j \in {i \in 1 .. P : i <= n - 1}} \cup {Priority[n]}
    BY <1>1, <1>4, <2>2
  <2>4. \A k \in 1 .. TransCount : ~(P + k <= n) /\ ~(P + k <= n - 1)
    BY <1>1, <1>4
  <2>5. Tried(n) = Tried(n - 1) \cup {Priority[n]}
    BY <1>1, <2>3, <2>4 DEF Tried
  <2> QED BY <1>3, <2>1, <2>5
<1>5. CASE ~(n <= P)
  <2> DEFINE l == n - P
  <2>1. l \in 1 .. TransCount /\ P + l = n
    BY <1>1, <1>5
  <2>2. \A k \in 1 .. TransCount : P + k <= n <=> P + k <= n - 1 \/ k = l
    BY <1>1, <1>5
  <2>3. \A i \in 1 .. P : i <= n /\ i <= n - 1
    BY <1>1, <1>5
  <2>4. Tried(n) = Tried(n - 1) \cup {l}
    <3>1. {Priority[j] : j \in {i \in DOMAIN Priority : i <= n}} = {Priority[j] : j \in {i \in DOMAIN Priority : i <= n - 1}}
      BY <1>1, <2>3
    <3>2. {k \in 1 .. TransCount : P + k <= n} = {k \in 1 .. TransCount : P + k <= n - 1} \cup {l}
      BY <2>1, <2>2
    <3> HIDE DEF l
    <3> QED BY <3>1, <3>2 DEF Tried
  <2>5. CASE l \in ToSet(Priority)
    <3>1. Turn(n, m, q) = q
      BY <1>1, <1>5, <2>5 DEF Turn, TurnOf
    <3>2. l \in Tried(n - 1)
      BY <1>1, <2>3, <2>5 DEF Tried, ToSet
    <3> HIDE DEF l
    <3>3. Tried(n) = Tried(n - 1)
      BY <2>4, <3>2
    <3> QED BY <1>2, <3>1, <3>3 DEF IsQueue
  <2>6. CASE l \notin ToSet(Priority)
    <3>1. Turn(n, m, q) = InFront(l, BindingsOf(l, m), q)
      BY <1>1, <1>5, <2>6 DEF Turn, TurnOf
    <3> HIDE DEF l
    <3> QED BY <1>3, <2>1, <2>4, <3>1
  <2> QED BY <2>5, <2>6
<1> QED BY <1>4, <1>5

\* get_FireTranQ lists the transitions that can fire, all of them.
LEMMA QueueComplete ==
  ASSUME NEW m
  PROVE  /\ get_FireTranQ(m) \in Seq(Entries(m))
         /\ \A k \in (1 .. TransCount) \ Aborts :
              BindingsOf(k, m) = <<>> \/ EntryOf(k, m) \in ToSet(get_FireTranQ(m))
<1> DEFINE N == Len(Priority) + TransCount
<1>1. PICK f : AreQueues(m, N, f) /\ get_FireTranQ(m) = f[N]
  BY QueueIsLast
<1>2. N \in Nat /\ Len(Priority) \in Nat /\ TransCount \in Nat
  BY FiringAssumption
<1>3. \A n \in 0 .. N : f[n] = IF n = 0 THEN <<>> ELSE Turn(n, m, f[n - 1])
  BY <1>1 DEF AreQueues
<1> DEFINE K == {n \in Nat : n <= N => IsQueue(f[n], m, n)}
<1>4. 0 \in K
  <2>1. f[0] = <<>>
    BY <1>2, <1>3
  <2>2. Tried(0) = {}
    <3>1. \A i \in DOMAIN Priority : ~(i <= 0)
      BY FiringAssumption
    <3>2. \A k \in 1 .. TransCount : ~(Len(Priority) + k <= 0)
      BY <1>2
    <3> QED BY <3>1, <3>2 DEF Tried
  <2>3. <<>> \in Seq(Entries(m))
    OBVIOUS
  <2>4. IsQueue(<<>>, m, 0)
    BY <2>2, <2>3 DEF IsQueue
  <2> QED BY <2>1, <2>4
<1>5. ASSUME NEW n \in Nat, n \in K PROVE n + 1 \in K
  <2> SUFFICES ASSUME n + 1 <= N PROVE IsQueue(f[n + 1], m, n + 1)
    OBVIOUS
  <2>1. n <= N /\ n + 1 \in 0 .. N /\ n + 1 # 0 /\ (n + 1) - 1 = n /\ n + 1 \in 1 .. N
    BY <1>2
  <2>2. f[n + 1] = Turn(n + 1, m, f[n])
    BY <1>3, <2>1
  <2>3. IsQueue(f[n], m, (n + 1) - 1)
    BY <1>5, <2>1
  <2> QED BY <2>1, <2>2, <2>3, TurnRight
<1>6. Nat \subseteq K
  <2> HIDE DEF K
  <2> QED BY <1>4, <1>5, InductionOnSets
<1>7. IsQueue(f[N], m, N)
  BY <1>2, <1>6
<1>8. Tried(N) = 1 .. TransCount
  <2>1. \A k \in 1 .. TransCount : Len(Priority) + k <= N
    BY <1>2
  <2>2. \A j \in DOMAIN Priority : Priority[j] \in 1 .. TransCount
    BY FiringAssumption
  <2> HIDE DEF N
  <2> QED BY <2>1, <2>2 DEF Tried
<1> HIDE DEF N
<1> QED BY <1>1, <1>7, <1>8 DEF IsQueue

-----------------------------------------------------------------------------
(* The invariant. *)

Records ==
  [marking : Markings, fathernum : Int, last_tran : Nat,
   tranQ : {get_FireTranQ(m) : m \in Markings} \cup {<<>>}, dashNextNode : Seq(Nat)]
Frames == [num : Nat, t : Nat \ {0}, i : Nat \ {0}]

TypeOK ==
  /\ limit \in Nat
  /\ rgnodevec \in Seq(Records)
  /\ rgnodetable \in [0 .. TableSize - 1 -> Seq(Nat)]
  /\ stack \in Seq(Frames)

\* A node has all its transitions to try, or has come when the limit was reached.
QueuesFull ==
  \A n \in Nodes : \/ rgnodevec[n].tranQ = get_FireTranQ(rgnodevec[n].marking)
                   \/ rgnodevec[n].tranQ = <<>> /\ Len(rgnodevec) > limit

\* The table has every node under its hash, and nothing else.
TableRight ==
  /\ \A h \in DOMAIN rgnodetable : \A j \in DOMAIN rgnodetable[h] : rgnodetable[h][j] + 1 \in Nodes
  /\ \A n \in Nodes : \E j \in DOMAIN rgnodetable[Bucket(rgnodevec[n].marking)] :
       rgnodetable[Bucket(rgnodevec[n].marking)][j] = n - 1

CallsKnown == \A f \in DOMAIN stack : stack[f].num + 1 \in Nodes

\* The i-th binding of the t-th transition of a node has been fired, as far as
\* the calls still open go.
IsBefore(t, i, f) == t < f.t \/ (t = f.t /\ i < f.i)
FollowedIn(calls, n, t, i) == \A f \in DOMAIN calls : calls[f].num = n - 1 => IsBefore(t, i, calls[f])
Followed(n, t, i) == FollowedIn(stack, n, t, i)

HasEdge(n, t, i) ==
  LET move == rgnodevec[n].tranQ[t]
  IN  Edge(n, move.transition, Fired(rgnodevec[n].marking, move.transition, move.bindings[i]))
EdgesThere ==
  Len(rgnodevec) <= limit =>
    \A n \in Nodes : \A t \in DOMAIN rgnodevec[n].tranQ :
      \A i \in DOMAIN rgnodevec[n].tranQ[t].bindings : Followed(n, t, i) => HasEdge(n, t, i)

GraphInv == TypeOK /\ NodesDistinct /\ QueuesFull /\ TableRight /\ CallsKnown /\ EdgesThere

-----------------------------------------------------------------------------
\* The innermost call of createNode, and those it came from.
LEMMA TopCall ==
  ASSUME TypeOK, CallsKnown, stack # <<>>
  PROVE  /\ Len(stack) \in Nat \ {0} /\ DOMAIN stack = 1 .. Len(stack) /\ Len(stack) \in DOMAIN stack
         /\ Top = stack[Len(stack)] /\ Top \in Frames /\ Top.num + 1 \in Nodes
         /\ Top.num \in Nat /\ Top.t \in Nat \ {0} /\ Top.i \in Nat \ {0}
         /\ Front(stack) \in Seq(Frames) /\ Len(Front(stack)) = Len(stack) - 1
         /\ \A f \in 1 .. Len(stack) - 1 : Front(stack)[f] = stack[f]
<1>1. /\ Len(stack) \in Nat /\ Len(stack) # 0 /\ DOMAIN stack = 1 .. Len(stack)
      /\ \A f \in 1 .. Len(stack) : stack[f] \in Frames
  BY DEF TypeOK
<1>2. Len(stack) \in DOMAIN stack
  BY <1>1
<1>3. Top = stack[Len(stack)]
  BY DEF Top, Last
<1>4. Top \in Frames /\ Top.num + 1 \in Nodes
  BY <1>1, <1>2, <1>3 DEF CallsKnown
<1>5. Top.num \in Nat /\ Top.t \in Nat \ {0} /\ Top.i \in Nat \ {0}
  BY <1>4 DEF Frames
<1> DEFINE n == Len(stack)
<1>6. n \in Nat \ {0} /\ n - 1 \in Int /\ 1 \in Int /\ \A f \in 1 .. n - 1 : stack[f] \in Frames
  BY <1>1
<1>7. Front(stack) = SubSeq(stack, 1, n - 1)
  BY DEF Front
<1> HIDE DEF n
<1>8. /\ SubSeq(stack, 1, n - 1) \in Seq(Frames)
      /\ Len(SubSeq(stack, 1, n - 1)) = IF 1 <= n - 1 THEN (n - 1) - 1 + 1 ELSE 0
      /\ \A f \in 1 .. (n - 1) - 1 + 1 : SubSeq(stack, 1, n - 1)[f] = stack[1 + f - 1]
  BY <1>6, SubSeqProperties
<1>9. Len(SubSeq(stack, 1, n - 1)) = n - 1
  BY <1>6, <1>8
<1>10. \A f \in 1 .. n - 1 : 1 + f - 1 = f /\ f \in 1 .. (n - 1) - 1 + 1
  BY <1>6
<1>11. \A f \in 1 .. n - 1 : SubSeq(stack, 1, n - 1)[f] = stack[f]
  BY <1>8, <1>10
<1> QED BY <1>1, <1>2, <1>3, <1>4, <1>5, <1>7, <1>8, <1>9, <1>11 DEF n

\* What Append is.
LEMMA Appended ==
  ASSUME NEW S, NEW q \in Seq(S), NEW e \in S
  PROVE  /\ Append(q, e) \in Seq(S) /\ Len(Append(q, e)) = Len(q) + 1 /\ Len(q) \in Nat
         /\ DOMAIN q = 1 .. Len(q) /\ DOMAIN Append(q, e) = 1 .. Len(q) + 1
         /\ Append(q, e)[Len(q) + 1] = e
         /\ \A j \in 1 .. Len(q) : Append(q, e)[j] = q[j]
OBVIOUS

\* The innermost call goes on.
LEMMA CallGoesOn ==
  ASSUME TypeOK, CallsKnown, stack # <<>>, NEW t \in Nat \ {0}, NEW i \in Nat \ {0}
  PROVE  /\ Later(t, i) \in Seq(Frames) /\ Len(Later(t, i)) = Len(stack) /\ Later(t, i) # <<>>
         /\ DOMAIN Later(t, i) = DOMAIN stack
         /\ \A f \in 1 .. Len(stack) - 1 : Later(t, i)[f] = stack[f]
         /\ Later(t, i)[Len(stack)] = [num |-> Top.num, t |-> t, i |-> i]
<1>1. PICK e \in Frames : e = [num |-> Top.num, t |-> t, i |-> i]
  <2>1. [num |-> Top.num, t |-> t, i |-> i] \in Frames
    BY TopCall DEF Frames
  <2> QED BY <2>1
<1>2. PICK F \in Seq(Frames) : F = Front(stack)
  BY TopCall
<1>3. /\ Len(stack) \in Nat \ {0} /\ DOMAIN stack = 1 .. Len(stack)
      /\ Len(F) = Len(stack) - 1
      /\ \A f \in 1 .. Len(stack) - 1 : F[f] = stack[f]
  BY <1>2, TopCall
<1>4. PICK G : G = Append(F, e)
  OBVIOUS
<1>5. /\ G \in Seq(Frames) /\ Len(G) = Len(F) + 1 /\ DOMAIN G = 1 .. Len(F) + 1
      /\ \A f \in 1 .. Len(F) : G[f] = F[f]
      /\ G[Len(F) + 1] = e
  BY <1>4, Appended
<1>6. Later(t, i) = G
  BY <1>1, <1>2, <1>4 DEF Later
<1>7. Len(F) + 1 = Len(stack)
  BY <1>3
<1>8. G # <<>>
  BY <1>3, <1>5, <1>7
<1>9. Len(G) = Len(stack) /\ DOMAIN G = DOMAIN stack /\ G[Len(stack)] = e
  BY <1>3, <1>5, <1>7
<1>10. \A f \in 1 .. Len(stack) - 1 : G[f] = stack[f]
  BY <1>3, <1>5
<1> QED BY <1>1, <1>5, <1>6, <1>8, <1>9, <1>10

\* What createNode fires: a binding of the transition it is at.
LEMMA FiresBinding ==
  ASSUME GraphInv, Firing
  PROVE  /\ Top.num + 1 \in Nodes /\ Top.t \in DOMAIN TranQ
         /\ TranQ[Top.t].transition \in (1 .. TransCount) \ Aborts
         /\ TranQ[Top.t].bindings = BindingsOf(TranQ[Top.t].transition, rgnodevec[Top.num + 1].marking)
         /\ Top.i \in DOMAIN TranQ[Top.t].bindings
         /\ Successor \in Markings
<1> DEFINE n == Top.num + 1
           m == rgnodevec[n].marking
<1>1. stack # <<>> /\ Top.t <= Len(TranQ) /\ Top.i <= Len(TranQ[Top.t].bindings)
  BY DEF Firing
<1>2. n \in Nodes /\ Top.t \in Nat \ {0} /\ Top.i \in Nat \ {0}
  BY <1>1, TopCall DEF GraphInv
<1>3. rgnodevec[n] \in Records
  BY <1>2 DEF GraphInv, TypeOK, Nodes
<1>4. m \in Markings
  BY <1>3 DEF Records
<1>5. TranQ = rgnodevec[n].tranQ
  BY DEF TranQ
<1>6. TranQ = get_FireTranQ(m)
  <2>1. TranQ # <<>>
    BY <1>1, <1>2
  <2> QED BY <1>2, <1>5, <2>1 DEF GraphInv, QueuesFull
<1> HIDE DEF m
<1>7. TranQ \in Seq(Entries(m))
  BY <1>6, QueueComplete
<1>8. Top.t \in DOMAIN TranQ /\ TranQ[Top.t] \in Entries(m)
  BY <1>1, <1>2, <1>7
<1>9. PICK k \in (1 .. TransCount) \ Aborts : TranQ[Top.t] = EntryOf(k, m)
  BY <1>8 DEF Entries
<1>10. TranQ[Top.t].transition = k /\ TranQ[Top.t].bindings = BindingsOf(k, m)
  BY <1>9 DEF EntryOf
<1>11. BindingsOf(k, m) \in Seq(ToSet(BindingsOf(k, m)))
  BY <1>4, <1>9, FiringAssumption
<1>12. Top.i \in DOMAIN BindingsOf(k, m)
  <2>1. Top.i <= Len(BindingsOf(k, m))
    BY <1>1, <1>10
  <2>2. Len(BindingsOf(k, m)) \in Nat /\ DOMAIN BindingsOf(k, m) = 1 .. Len(BindingsOf(k, m))
    BY <1>11
  <2> QED BY <1>2, <2>1, <2>2
<1>13. Successor \in Markings
  <2>1. Successor = Fired(m, k, BindingsOf(k, m)[Top.i])
    BY <1>10 DEF Successor, m
  <2>2. BindingsOf(k, m)[Top.i] \in ToSet(BindingsOf(k, m))
    BY <1>12 DEF ToSet
  <2> QED BY <1>4, <1>9, <2>1, <2>2, FiringAssumption
<1> QED BY <1>2, <1>8, <1>9, <1>10, <1>12, <1>13 DEF m

-----------------------------------------------------------------------------
(* The table, and edges that stay. *)

\* A marking's place in the table.
LEMMA BucketInTable ==
  ASSUME NEW m \in Markings
  PROVE  Bucket(m) \in 0 .. TableSize - 1
<1>1. HashOf(m) \in Nat /\ TableSize \in Nat \ {0}
  BY MarkingsAssumption, SizesAssumption
<1>2. PICK h \in Nat, s \in Nat \ {0} : h = HashOf(m) /\ s = TableSize
  BY <1>1
<1>3. h % s \in 0 .. s - 1
  OBVIOUS
<1> QED BY <1>2, <1>3 DEF Bucket

\* The nodes and what they hold.
LEMMA NodesAreRecords ==
  ASSUME TypeOK
  PROVE  /\ Nodes = 1 .. Len(rgnodevec) /\ Len(rgnodevec) \in Nat
         /\ \A n \in Nodes : rgnodevec[n] \in Records /\ rgnodevec[n].marking \in Markings
                            /\ rgnodevec[n].dashNextNode \in Seq(Nat)
<1>1. Nodes = 1 .. Len(rgnodevec) /\ Len(rgnodevec) \in Nat /\ \A n \in Nodes : rgnodevec[n] \in Records
  BY DEF TypeOK, Nodes
<1>2. \A r \in Records : r.marking \in Markings /\ r.dashNextNode \in Seq(Nat)
  BY DEF Records
<1> QED BY <1>1, <1>2

\* nodeExist finds a node with this very marking, if there is one.
LEMMA NodeFound ==
  ASSUME GraphInv, NEW s \in Markings
  PROVE  /\ Matching(s) # {} =>
              /\ nodeExist(s) \in Nat /\ nodeExist(s) + 1 \in Nodes
              /\ rgnodevec[nodeExist(s) + 1].marking = s
         /\ Matching(s) = {} => \A n \in Nodes : rgnodevec[n].marking # s
<1>1. Bucket(s) \in DOMAIN rgnodetable /\ rgnodetable[Bucket(s)] \in Seq(Nat)
  BY BucketInTable DEF GraphInv, TypeOK
<1>2. PICK b : b = Bucket(s)
  OBVIOUS
<1>3. PICK q \in Seq(Nat) : q = rgnodetable[b]
  BY <1>1, <1>2
<1>4. \A n \in Nodes : rgnodevec[n].marking \in Markings
  BY NodesAreRecords DEF GraphInv
<1>5. DOMAIN q = 1 .. Len(q) /\ Len(q) \in Nat /\ \A j \in DOMAIN q : q[j] \in Nat
  BY <1>3
<1>6. \A j \in DOMAIN q : q[j] + 1 \in Nodes
  BY <1>1, <1>2, <1>3 DEF GraphInv, TableRight
<1>7. Matching(s) = {j \in DOMAIN q : s = rgnodevec[q[j] + 1].marking}
  <2>1. \A j \in DOMAIN q : rgnodevec[q[j] + 1].marking \in Markings
    BY <1>4, <1>6
  <2>2. \A j \in DOMAIN q : Equal(s, rgnodevec[q[j] + 1].marking) <=> s = rgnodevec[q[j] + 1].marking
    BY <2>1, EqualMarkings
  <2>3. Matching(s) = {j \in DOMAIN q : Equal(s, rgnodevec[q[j] + 1].marking)}
    BY <1>2, <1>3 DEF Matching
  <2> QED BY <2>2, <2>3
<1>8. ASSUME Matching(s) # {}
      PROVE  /\ nodeExist(s) \in Nat /\ nodeExist(s) + 1 \in Nodes
             /\ rgnodevec[nodeExist(s) + 1].marking = s
  <2>1. Matching(s) \in SUBSET Nat
    BY <1>5, <1>7
  <2>2. \E j \in Matching(s) : \A l \in Matching(s) : j <= l
    BY <1>8, <2>1, LeastNumber
  <2>3. Min(Matching(s)) \in Matching(s)
    BY <2>2 DEF Min
  <2>4. nodeExist(s) = q[Min(Matching(s))]
    BY <1>2, <1>3 DEF nodeExist
  <2> QED BY <1>5, <1>6, <1>7, <2>3, <2>4
<1>9. ASSUME Matching(s) = {}, NEW n \in Nodes, rgnodevec[n].marking = s
      PROVE  FALSE
  <2>1. PICK j \in DOMAIN q : q[j] = n - 1
    BY <1>2, <1>3, <1>9 DEF GraphInv, TableRight
  <2>2. n \in Nat
    BY DEF GraphInv, TypeOK, Nodes
  <2>3. q[j] + 1 = n
    BY <2>1, <2>2
  <2>4. j \in Matching(s)
    BY <1>7, <1>9, <2>1, <2>3
  <2> QED BY <1>9, <2>4
<1> QED BY <1>8, <1>9

-----------------------------------------------------------------------------
\* The nodes that were there are there still, with their markings, fathers and
\* transitions, and with the dashed edges they had.
Kept ==
  \A n \in Nodes :
    /\ n \in Nodes'
    /\ rgnodevec'[n].marking = rgnodevec[n].marking
    /\ rgnodevec'[n].fathernum = rgnodevec[n].fathernum
    /\ rgnodevec'[n].last_tran = rgnodevec[n].last_tran
    /\ rgnodevec'[n].tranQ = rgnodevec[n].tranQ
    /\ ToSet(rgnodevec[n].dashNextNode) \subseteq ToSet(rgnodevec'[n].dashNextNode)

\* Edges stay.
LEMMA EdgeStays ==
  ASSUME Kept, NEW n \in Nodes, NEW t, NEW i, HasEdge(n, t, i)
  PROVE  HasEdge(n, t, i)'
<1>1. PICK k, m : /\ k = rgnodevec[n].tranQ[t].transition
                  /\ m = Fired(rgnodevec[n].marking, k, rgnodevec[n].tranQ[t].bindings[i])
  OBVIOUS
<1>2. Edge(n, k, m)
  BY <1>1 DEF HasEdge
<1>3. PICK l \in Nodes : /\ rgnodevec[l].marking = m
                         /\ \/ rgnodevec[l].fathernum = n - 1 /\ rgnodevec[l].last_tran = k
                            \/ l - 1 \in ToSet(rgnodevec[n].dashNextNode)
  BY <1>2 DEF Edge
<1>4. l \in Nodes' /\ rgnodevec'[l].marking = m
      /\ \/ rgnodevec'[l].fathernum = n - 1 /\ rgnodevec'[l].last_tran = k
         \/ l - 1 \in ToSet(rgnodevec'[n].dashNextNode)
  BY <1>3 DEF Kept
<1>5. /\ k = rgnodevec'[n].tranQ[t].transition
      /\ m = Fired(rgnodevec'[n].marking, k, rgnodevec'[n].tranQ[t].bindings[i])
  BY <1>1 DEF Kept
<1>6. Edge(n, k, m)'
  BY <1>4 DEF Edge
<1> QED BY <1>5, <1>6 DEF HasEdge

\* A step has only to answer for the bindings it fires.
LEMMA EdgesStay ==
  ASSUME GraphInv, Kept, limit' = limit, Len(rgnodevec) <= Len(rgnodevec'), Len(rgnodevec') \in Nat,
         \A n \in Nodes' : \A t \in DOMAIN rgnodevec'[n].tranQ : \A i \in DOMAIN rgnodevec'[n].tranQ[t].bindings :
           Followed(n, t, i)' => (n \in Nodes /\ Followed(n, t, i)) \/ HasEdge(n, t, i)'
  PROVE  EdgesThere'
<1> SUFFICES ASSUME Len(rgnodevec') <= limit,
                    NEW n \in Nodes', NEW t \in DOMAIN rgnodevec'[n].tranQ,
                    NEW i \in DOMAIN rgnodevec'[n].tranQ[t].bindings, Followed(n, t, i)'
             PROVE  HasEdge(n, t, i)'
  BY DEF EdgesThere
<1>1. CASE n \in Nodes /\ Followed(n, t, i)
  <2>1. t \in DOMAIN rgnodevec[n].tranQ /\ i \in DOMAIN rgnodevec[n].tranQ[t].bindings
    BY <1>1 DEF Kept
  <2>2. Len(rgnodevec) <= limit
    BY DEF GraphInv, TypeOK
  <2>3. HasEdge(n, t, i)
    BY <1>1, <2>1, <2>2 DEF GraphInv, EdgesThere
  <2> QED BY <1>1, <2>3, EdgeStays
<1>2. CASE HasEdge(n, t, i)'
  BY <1>2
<1> QED BY <1>1, <1>2

\* What follows when the innermost call goes on.
LEMMA FollowedBefore ==
  ASSUME GraphInv, stack # <<>>, NEW t \in Nat \ {0}, NEW i \in Nat \ {0},
         NEW n \in Nodes, NEW t0 \in Nat, NEW i0 \in Nat,
         FollowedIn(Later(t, i), n, t0, i0),
         ~ Followed(n, t0, i0)
  PROVE  /\ n = Top.num + 1
         /\ t0 < t \/ (t0 = t /\ i0 < i)
         /\ ~ (t0 < Top.t) /\ ~ (t0 = Top.t /\ i0 < Top.i)
<1>1. PICK f \in DOMAIN stack : stack[f].num = n - 1 /\ ~ IsBefore(t0, i0, stack[f])
  BY DEF Followed, FollowedIn
<1>2. TypeOK /\ CallsKnown
  BY DEF GraphInv
<1>3. /\ DOMAIN stack = 1 .. Len(stack) /\ Len(stack) \in Nat \ {0} /\ Top = stack[Len(stack)]
      /\ Top.num \in Nat
  BY <1>2, TopCall
<1>4. PICK q : q = Later(t, i)
  OBVIOUS
<1>5. /\ \A g \in 1 .. Len(stack) - 1 : q[g] = stack[g]
      /\ q[Len(stack)] = [num |-> Top.num, t |-> t, i |-> i] /\ DOMAIN q = DOMAIN stack
  BY <1>2, <1>4, CallGoesOn
<1>6. q[f].num = n - 1 => IsBefore(t0, i0, q[f])
  BY <1>4, <1>5 DEF FollowedIn
<1>7. f = Len(stack)
  BY <1>1, <1>3, <1>5, <1>6
<1>8. Top.num = n - 1 /\ ~ IsBefore(t0, i0, Top)
  BY <1>1, <1>3, <1>7
<1>9. q[f] = [num |-> Top.num, t |-> t, i |-> i]
  BY <1>5, <1>7
<1>10. q[f].num = n - 1 /\ q[f].t = t /\ q[f].i = i
  BY <1>8, <1>9
<1>11. t0 < t \/ (t0 = t /\ i0 < i)
  BY <1>6, <1>10 DEF IsBefore
<1>12. ~ (t0 < Top.t) /\ ~ (t0 = Top.t /\ i0 < Top.i)
  BY <1>8 DEF IsBefore
<1>13. n = Top.num + 1
  <2>1. n \in Nat
    BY DEF GraphInv, TypeOK, Nodes
  <2> QED BY <1>3, <1>8, <2>1
<1> QED BY <1>11, <1>12, <1>13

-----------------------------------------------------------------------------
(* How it starts, and what a node more changes. *)

\* Transitions and bindings of a node are numbered from 1.
LEMMA QueueNumbers ==
  ASSUME NEW r \in Records, NEW t \in DOMAIN r.tranQ
  PROVE  /\ t \in Nat \ {0} /\ t <= Len(r.tranQ) /\ Len(r.tranQ) \in Nat
         /\ Len(r.tranQ[t].bindings) \in Nat
         /\ \A i \in DOMAIN r.tranQ[t].bindings : i \in Nat \ {0} /\ i <= Len(r.tranQ[t].bindings)
<1>1. r.tranQ \in {get_FireTranQ(m) : m \in Markings} \cup {<<>>}
  BY DEF Records
<1>2. PICK m \in Markings : r.tranQ = get_FireTranQ(m)
  BY <1>1
<1>3. PICK q : q = r.tranQ
  OBVIOUS
<1>4. q \in Seq(Entries(m))
  BY <1>2, <1>3, QueueComplete
<1>5. t \in DOMAIN q /\ DOMAIN q = 1 .. Len(q) /\ Len(q) \in Nat /\ q[t] \in Entries(m)
  BY <1>3, <1>4
<1>6. PICK k \in (1 .. TransCount) \ Aborts : q[t] = EntryOf(k, m)
  BY <1>5 DEF Entries
<1>7. PICK w : w = BindingsOf(k, m) /\ w \in Seq(ToSet(w))
  BY <1>6, FiringAssumption
<1>8. q[t].bindings = w
  BY <1>6, <1>7 DEF EntryOf
<1>9. Len(w) \in Nat /\ \A i \in DOMAIN w : i \in Nat \ {0} /\ i <= Len(w)
  BY <1>7
<1> QED BY <1>3, <1>5, <1>8, <1>9

\* The start.
LEMMA GraphStarts ==
  ASSUME Init
  PROVE  GraphInv
<1>1. Start \in Markings /\ Bucket(Start) \in 0 .. TableSize - 1
  BY MarkingsAssumption, BucketInTable
<1>2. PICK node : node = Node(Start, -1, 0, get_FireTranQ(Start))
  OBVIOUS
<1>3. /\ node \in Records /\ node.marking = Start /\ node.tranQ = get_FireTranQ(Start)
  <2>1. get_FireTranQ(Start) \in {get_FireTranQ(m) : m \in Markings} \cup {<<>>}
    BY <1>1
  <2>2. PICK q \in {get_FireTranQ(m) : m \in Markings} \cup {<<>>} : q = get_FireTranQ(Start)
    BY <2>1
  <2>3. -1 \in Int /\ 0 \in Nat /\ <<>> \in Seq(Nat)
    OBVIOUS
  <2>4. node = [marking |-> Start, fathernum |-> -1, last_tran |-> 0, tranQ |-> q, dashNextNode |-> <<>>]
    BY <1>2, <2>2 DEF Node
  <2> QED BY <1>1, <2>2, <2>3, <2>4 DEF Records
<1>4. rgnodevec = <<node>> /\ Nodes = {1} /\ rgnodevec[1] = node /\ rgnodevec \in Seq(Records)
  BY <1>2, <1>3 DEF Init, Nodes
<1>5. stack = <<[num |-> 0, t |-> 1, i |-> 1]>> /\ DOMAIN stack = {1} /\ stack[1] = [num |-> 0, t |-> 1, i |-> 1]
  BY DEF Init, Frame
<1>6. stack \in Seq(Frames)
  <2>1. [num |-> 0, t |-> 1, i |-> 1] \in Frames
    BY DEF Frames
  <2> QED BY <1>5, <2>1
<1>7. \A h \in 0 .. TableSize - 1 : rgnodetable[h] = IF h = Bucket(Start) THEN <<0>> ELSE <<>>
  BY DEF Init
<1>8. rgnodetable \in [0 .. TableSize - 1 -> Seq(Nat)]
  <2>1. <<0>> \in Seq(Nat) /\ <<>> \in Seq(Nat)
    OBVIOUS
  <2> QED BY <2>1 DEF Init
<1>9. limit \in Nat
  BY SizesAssumption DEF Init
<1>10. TypeOK
  BY <1>4, <1>6, <1>8, <1>9 DEF TypeOK
<1>11. NodesDistinct
  BY <1>4 DEF NodesDistinct
<1>12. QueuesFull
  BY <1>3, <1>4 DEF QueuesFull
<1>13. TableRight
  <2>1. \A h \in DOMAIN rgnodetable : \A j \in DOMAIN rgnodetable[h] : rgnodetable[h][j] + 1 \in Nodes
    <3> TAKE h \in DOMAIN rgnodetable
    <3>1. rgnodetable[h] = <<0>> \/ rgnodetable[h] = <<>>
      BY <1>7, <1>8
    <3> QED BY <3>1, <1>4
  <2>2. rgnodetable[Bucket(Start)] = <<0>>
    BY <1>1, <1>7
  <2>3. 1 \in DOMAIN rgnodetable[Bucket(Start)] /\ rgnodetable[Bucket(Start)][1] = 1 - 1
    BY <2>2
  <2>4. \A n \in Nodes : n = 1 /\ rgnodevec[n].marking = Start
    BY <1>3, <1>4
  <2> QED BY <2>1, <2>3, <2>4 DEF TableRight
<1>14. CallsKnown
  BY <1>4, <1>5 DEF CallsKnown
<1>15. EdgesThere
  <2> SUFFICES ASSUME NEW n \in Nodes, NEW t \in DOMAIN rgnodevec[n].tranQ,
                      NEW i \in DOMAIN rgnodevec[n].tranQ[t].bindings, Followed(n, t, i)
               PROVE  FALSE
    BY DEF EdgesThere
  <2>1. n = 1 /\ rgnodevec[n] = node
    BY <1>4
  <2>2. t \in Nat \ {0} /\ i \in Nat \ {0}
    BY <1>3, <2>1, QueueNumbers
  <2>3. IsBefore(t, i, [num |-> 0, t |-> 1, i |-> 1])
    BY <1>5, <2>1 DEF Followed, FollowedIn
  <2> QED BY <2>2, <2>3 DEF IsBefore
<1> QED BY <1>10, <1>11, <1>12, <1>13, <1>14, <1>15 DEF GraphInv

\* A node of a new marking comes into the table and to the end of the nodes.
LEMMA NodeAdded ==
  ASSUME GraphInv, limit' = limit, NEW s, NEW num, NEW k, NEW w, NEW node \in Records,
         node = Node(s, num, k, w), addRGNode(s, num, k, w),
         \A n \in Nodes : rgnodevec[n].marking # s,
         w = get_FireTranQ(s) \/ (w = <<>> /\ Len(rgnodevec) >= limit)
  PROVE  /\ Nodes' = Nodes \cup {Len(rgnodevec) + 1} /\ Len(rgnodevec') = Len(rgnodevec) + 1
         /\ rgnodevec' \in Seq(Records) /\ rgnodevec'[Len(rgnodevec) + 1] = node
         /\ \A n \in Nodes : rgnodevec'[n] = rgnodevec[n]
         /\ rgnodetable' \in [0 .. TableSize - 1 -> Seq(Nat)]
         /\ NodesDistinct' /\ QueuesFull' /\ TableRight'
<1>0. node.marking = s /\ node.tranQ = w
  BY DEF Node
<1>1. TypeOK
  BY DEF GraphInv
<1>2. PICK l \in Nat : l = Len(rgnodevec)
  BY <1>1, NodesAreRecords
<1>3. Nodes = 1 .. l
  BY <1>1, <1>2, NodesAreRecords
<1>4. PICK v : v = rgnodevec'
  OBVIOUS
<1>5. /\ v \in Seq(Records) /\ Len(v) = l + 1 /\ DOMAIN v = 1 .. l + 1 /\ v[l + 1] = node
      /\ \A n \in 1 .. l : v[n] = rgnodevec[n]
  BY <1>1, <1>2, <1>4, Appended DEF addRGNode, TypeOK
<1>6. Nodes' = DOMAIN v
  BY <1>4 DEF Nodes
<1>7. Nodes' = Nodes \cup {l + 1}
  BY <1>3, <1>5, <1>6
<1>8. l + 1 \notin Nodes
  BY <1>3
<1>9. NodesDistinct'
  <2>1. \A m, n \in Nodes \cup {l + 1} : m # n => v[m].marking # v[n].marking
    BY <1>0, <1>3, <1>5 DEF GraphInv, NodesDistinct
  <2> QED BY <1>4, <1>7, <2>1 DEF NodesDistinct
<1>10. QueuesFull'
  <2>1. ASSUME NEW n \in Nodes \cup {l + 1}
        PROVE  v[n].tranQ = get_FireTranQ(v[n].marking) \/ (v[n].tranQ = <<>> /\ Len(v) > limit)
    <3>0. limit \in Nat
      BY <1>1 DEF TypeOK
    <3>1. CASE n = l + 1
      BY <1>0, <1>2, <1>5, <3>0, <3>1
    <3>2. CASE n \in Nodes
      <4>1. rgnodevec[n].tranQ = get_FireTranQ(rgnodevec[n].marking) \/ (rgnodevec[n].tranQ = <<>> /\ l > limit)
        BY <1>2, <3>2 DEF GraphInv, QueuesFull
      <4>2. l > limit => Len(v) > limit
        BY <1>5, <3>0
      <4> QED BY <1>3, <1>5, <3>2, <4>1, <4>2
    <3> QED BY <3>1, <3>2
  <2> QED BY <1>4, <1>7, <2>1 DEF QueuesFull
<1>11. PICK b \in 0 .. TableSize - 1 : b = Bucket(s)
  BY <1>0, BucketInTable DEF Records
<1>12. PICK q \in Seq(Nat) : q = rgnodetable[b]
  BY <1>1 DEF TypeOK
<1>13. PICK u : u = <<l>> \o q
  OBVIOUS
<1>14. /\ u \in Seq(Nat) /\ DOMAIN q = 1 .. Len(q) /\ Len(q) \in Nat /\ DOMAIN u = 1 .. Len(q) + 1
       /\ u[1] = l /\ \A j \in 1 .. Len(q) : u[j + 1] = q[j]
  BY <1>13
<1>15. rgnodetable' = [rgnodetable EXCEPT ![b] = u]
  BY <1>2, <1>11, <1>12, <1>13 DEF addRGNode
<1>16. /\ rgnodetable' \in [0 .. TableSize - 1 -> Seq(Nat)]
       /\ rgnodetable'[b] = u /\ \A h \in 0 .. TableSize - 1 : h # b => rgnodetable'[h] = rgnodetable[h]
       /\ DOMAIN rgnodetable = 0 .. TableSize - 1 /\ DOMAIN rgnodetable' = 0 .. TableSize - 1
  BY <1>1, <1>14, <1>15 DEF TypeOK
<1>17. /\ \A h \in 0 .. TableSize - 1 : \A j \in DOMAIN rgnodetable[h] : rgnodetable[h][j] + 1 \in Nodes
       /\ \A n \in Nodes : \E j \in DOMAIN rgnodetable[Bucket(rgnodevec[n].marking)] :
            rgnodetable[Bucket(rgnodevec[n].marking)][j] = n - 1
  BY <1>16 DEF GraphInv, TableRight
<1>18. TableRight'
  <2>1. ASSUME NEW h \in 0 .. TableSize - 1, NEW j \in DOMAIN rgnodetable'[h]
        PROVE  rgnodetable'[h][j] + 1 \in Nodes \cup {l + 1}
    <3>1. CASE h # b
      BY <1>16, <1>17, <2>1, <3>1
    <3>2. CASE h = b /\ j = 1
      BY <1>14, <1>16, <3>2
    <3>3. CASE h = b /\ j # 1
      <4>1. j - 1 \in 1 .. Len(q) /\ (j - 1) + 1 = j
        BY <1>14, <1>16, <2>1, <3>3
      <4>2. u[j] = q[j - 1]
        BY <1>14, <4>1
      <4>3. q[j - 1] + 1 \in Nodes
        BY <1>12, <1>14, <1>17, <4>1
      <4> QED BY <1>16, <3>3, <4>2, <4>3
    <3> QED BY <3>1, <3>2, <3>3
  <2>2. ASSUME NEW n \in Nodes \cup {l + 1}
        PROVE  \E j \in DOMAIN rgnodetable'[Bucket(v[n].marking)] : rgnodetable'[Bucket(v[n].marking)][j] = n - 1
    <3>1. CASE n = l + 1
      <4>1. Bucket(v[n].marking) = b /\ n - 1 = l
        BY <1>0, <1>5, <1>11, <3>1
      <4>2. 1 \in DOMAIN u
        BY <1>14
      <4> QED BY <1>14, <1>16, <4>1, <4>2
    <3>2. CASE n \in Nodes
      <4>1. PICK h \in 0 .. TableSize - 1 : h = Bucket(rgnodevec[n].marking)
        BY <1>1, <3>2, NodesAreRecords, BucketInTable
      <4>2. PICK j \in DOMAIN rgnodetable[h] : rgnodetable[h][j] = n - 1
        BY <1>17, <3>2, <4>1
      <4>3. Bucket(v[n].marking) = h
        BY <1>3, <1>5, <3>2, <4>1
      <4>4. CASE h # b
        BY <1>16, <4>2, <4>3, <4>4
      <4>5. CASE h = b
        <5>1. j \in 1 .. Len(q) /\ q[j] = n - 1
          BY <1>12, <1>14, <4>2, <4>5
        <5>2. j + 1 \in DOMAIN u /\ u[j + 1] = n - 1
          BY <1>14, <5>1
        <5> QED BY <1>16, <4>3, <4>5, <5>2
      <4> QED BY <4>4, <4>5
    <3> QED BY <3>1, <3>2
  <2> QED BY <1>4, <1>7, <1>16, <2>1, <2>2 DEF TableRight
<1> QED BY <1>2, <1>3, <1>4, <1>5, <1>7, <1>9, <1>10, <1>16, <1>18

-----------------------------------------------------------------------------
(* The steps. *)

\* A step of the calls alone.
LEMMA NodesUnchanged ==
  ASSUME GraphInv, UNCHANGED <<limit, rgnodevec, rgnodetable>>
  PROVE  /\ Kept /\ Nodes' = Nodes /\ limit' = limit /\ Len(rgnodevec') = Len(rgnodevec) /\ Len(rgnodevec') \in Nat
         /\ limit' \in Nat /\ rgnodevec' \in Seq(Records) /\ rgnodetable' \in [0 .. TableSize - 1 -> Seq(Nat)]
         /\ NodesDistinct' /\ QueuesFull' /\ TableRight'
<1>1. rgnodevec' = rgnodevec /\ limit' = limit /\ rgnodetable' = rgnodetable /\ Nodes' = Nodes
  BY DEF Nodes
<1>2. Kept
  BY <1>1 DEF Kept
<1>3. Len(rgnodevec) \in Nat
  BY NodesAreRecords DEF GraphInv
<1>4. NodesDistinct'
  BY <1>1 DEF GraphInv, NodesDistinct
<1>5. QueuesFull'
  BY <1>1 DEF GraphInv, QueuesFull
<1>6. TableRight'
  BY <1>1 DEF GraphInv, TableRight, Bucket
<1> QED BY <1>1, <1>2, <1>3, <1>4, <1>5, <1>6 DEF GraphInv, TypeOK

\* The calls are of nodes that are there.
LEMMA LaterKnown ==
  ASSUME GraphInv, stack # <<>>, NEW t \in Nat \ {0}, NEW i \in Nat \ {0}
  PROVE  \A f \in DOMAIN Later(t, i) : Later(t, i)[f].num + 1 \in Nodes
<1>1. TypeOK /\ CallsKnown
  BY DEF GraphInv
<1>2. DOMAIN stack = 1 .. Len(stack) /\ Len(stack) \in Nat \ {0} /\ Top.num + 1 \in Nodes
  BY <1>1, TopCall
<1>3. PICK q : q = Later(t, i)
  OBVIOUS
<1>4. /\ DOMAIN q = DOMAIN stack /\ \A f \in 1 .. Len(stack) - 1 : q[f] = stack[f]
      /\ q[Len(stack)] = [num |-> Top.num, t |-> t, i |-> i]
  BY <1>1, <1>3, CallGoesOn
<1>5. \A f \in DOMAIN stack : f = Len(stack) \/ f \in 1 .. Len(stack) - 1
  BY <1>2
<1>6. \A f \in DOMAIN stack : stack[f].num + 1 \in Nodes
  BY <1>1 DEF CallsKnown
<1>7. ASSUME NEW f \in DOMAIN q PROVE q[f].num + 1 \in Nodes
  <2>1. CASE f = Len(stack)
    BY <1>2, <1>4, <2>1
  <2>2. CASE f \in 1 .. Len(stack) - 1
    BY <1>4, <1>6, <2>2
  <2> QED BY <1>4, <1>5, <2>1, <2>2
<1> QED BY <1>3, <1>7

\* A transition is done with.
LEMMA NextTransitionKeeps ==
  ASSUME GraphInv, NextTransition
  PROVE  GraphInv'
<1>1. stack # <<>> /\ Top.t <= Len(TranQ) /\ Top.i > Len(TranQ[Top.t].bindings) /\ stack' = Later(Top.t + 1, 1)
      /\ UNCHANGED <<limit, rgnodevec, rgnodetable>>
  BY DEF NextTransition
<1>2. TypeOK /\ CallsKnown
  BY DEF GraphInv
<1>3. PICK t \in Nat \ {0}, i \in Nat \ {0}, n \in Nodes : t = Top.t /\ i = Top.i /\ n = Top.num + 1
  BY <1>1, <1>2, TopCall
<1>4. t + 1 \in Nat \ {0} /\ 1 \in Nat \ {0} /\ stack' = Later(t + 1, 1)
  BY <1>1, <1>3
<1>5. stack' \in Seq(Frames) /\ CallsKnown'
  <2>1. stack' \in Seq(Frames)
    BY <1>1, <1>2, <1>4, CallGoesOn
  <2>2. \A f \in DOMAIN stack' : stack'[f].num + 1 \in Nodes
    BY <1>1, <1>4, LaterKnown
  <2> QED BY <1>1, <2>1, <2>2, NodesUnchanged DEF CallsKnown
<1>6. TypeOK' /\ NodesDistinct' /\ QueuesFull' /\ TableRight'
  BY <1>1, <1>5, NodesUnchanged DEF TypeOK
<1>7. ASSUME NEW n0 \in Nodes', NEW t0 \in DOMAIN rgnodevec'[n0].tranQ,
             NEW i0 \in DOMAIN rgnodevec'[n0].tranQ[t0].bindings, Followed(n0, t0, i0)'
      PROVE  n0 \in Nodes /\ Followed(n0, t0, i0)
  <2>1. n0 \in Nodes /\ rgnodevec'[n0] = rgnodevec[n0] /\ rgnodevec[n0] \in Records
    BY <1>1, <1>2, NodesAreRecords DEF Nodes
  <2>2. t0 \in Nat \ {0} /\ i0 \in Nat \ {0} /\ i0 <= Len(rgnodevec[n0].tranQ[t0].bindings)
    BY <2>1, QueueNumbers
  <2>3. FollowedIn(stack', n0, t0, i0)
    BY <1>7 DEF Followed
  <2>4. ASSUME ~ Followed(n0, t0, i0) PROVE FALSE
    <3>1. /\ n0 = Top.num + 1 /\ (t0 < t + 1 \/ (t0 = t + 1 /\ i0 < 1))
          /\ ~ (t0 < Top.t) /\ ~ (t0 = Top.t /\ i0 < Top.i)
      <4>1. PICK u \in Nat \ {0}, v \in Nat \ {0} : u = t + 1 /\ v = 1
        BY <1>4
      <4>2. FollowedIn(Later(u, v), n0, t0, i0)
        BY <1>4, <2>3, <4>1
      <4>3. t0 \in Nat /\ i0 \in Nat
        BY <2>2
      <4>4. /\ n0 = Top.num + 1 /\ (t0 < u \/ (t0 = u /\ i0 < v))
            /\ ~ (t0 < Top.t) /\ ~ (t0 = Top.t /\ i0 < Top.i)
        BY <1>1, <2>1, <2>4, <4>2, <4>3, FollowedBefore
      <4> QED BY <4>1, <4>4
    <3>2. t0 = t
      BY <1>3, <2>2, <3>1
    <3>3. TranQ = rgnodevec[n0].tranQ
      BY <3>1 DEF TranQ
    <3>4. PICK w : w = Len(rgnodevec[n0].tranQ[t0].bindings)
      OBVIOUS
    <3>5. i > w /\ i0 <= w
      <4>1. TranQ[Top.t] = rgnodevec[n0].tranQ[t0]
        BY <1>3, <3>2, <3>3
      <4>2. Len(TranQ[Top.t].bindings) = w
        BY <3>4, <4>1
      <4>3. Top.i > w
        BY <1>1, <4>2
      <4> QED BY <1>3, <2>2, <3>4, <4>3
    <3>6. w \in Nat
      BY <2>1, <3>4, QueueNumbers
    <3>7. i0 < i
      BY <2>2, <3>5, <3>6
    <3> QED BY <1>3, <3>1, <3>2, <3>7
  <2> QED BY <2>1, <2>4
<1>8. EdgesThere'
  <2>1. \A n0 \in Nodes' : \A t0 \in DOMAIN rgnodevec'[n0].tranQ : \A i0 \in DOMAIN rgnodevec'[n0].tranQ[t0].bindings :
          Followed(n0, t0, i0)' => (n0 \in Nodes /\ Followed(n0, t0, i0)) \/ HasEdge(n0, t0, i0)'
    BY <1>7
  <2>2. Len(rgnodevec) <= Len(rgnodevec')
    BY <1>1, NodesUnchanged
  <2> QED BY <1>1, <2>1, <2>2, NodesUnchanged, EdgesStay
<1> QED BY <1>5, <1>6, <1>8 DEF GraphInv

\* A call returns.
LEMMA ReturnKeeps ==
  ASSUME GraphInv, Return
  PROVE  GraphInv'
<1>1. stack # <<>> /\ Top.t > Len(TranQ) /\ stack' = Front(stack) /\ UNCHANGED <<limit, rgnodevec, rgnodetable>>
  BY DEF Return
<1>2. TypeOK /\ CallsKnown
  BY DEF GraphInv
<1>3. /\ Len(stack) \in Nat \ {0} /\ DOMAIN stack = 1 .. Len(stack) /\ Top = stack[Len(stack)]
      /\ stack' \in Seq(Frames) /\ Len(stack') = Len(stack) - 1
      /\ \A f \in 1 .. Len(stack) - 1 : stack'[f] = stack[f]
      /\ Top.num \in Nat /\ Top.t \in Nat
  BY <1>1, <1>2, TopCall
<1>4. DOMAIN stack' = 1 .. Len(stack) - 1
  BY <1>3
<1>5. CallsKnown'
  <2>1. \A f \in 1 .. Len(stack) - 1 : f \in DOMAIN stack
    BY <1>3
  <2>2. \A f \in DOMAIN stack' : stack'[f].num + 1 \in Nodes
    BY <1>2, <1>3, <1>4, <2>1 DEF CallsKnown
  <2> QED BY <1>1, <2>2, NodesUnchanged DEF CallsKnown
<1>6. TypeOK' /\ NodesDistinct' /\ QueuesFull' /\ TableRight'
  BY <1>1, <1>3, NodesUnchanged DEF TypeOK
<1>7. ASSUME NEW n0 \in Nodes', NEW t0 \in DOMAIN rgnodevec'[n0].tranQ,
             NEW i0 \in DOMAIN rgnodevec'[n0].tranQ[t0].bindings, Followed(n0, t0, i0)'
      PROVE  n0 \in Nodes /\ Followed(n0, t0, i0)
  <2>1. n0 \in Nodes /\ n0 \in Nat /\ rgnodevec'[n0] = rgnodevec[n0] /\ rgnodevec[n0] \in Records
    BY <1>1, <1>2, NodesAreRecords DEF Nodes
  <2>2. t0 \in Nat \ {0} /\ t0 <= Len(rgnodevec[n0].tranQ) /\ Len(rgnodevec[n0].tranQ) \in Nat
    BY <2>1, QueueNumbers
  <2>3. \A f \in DOMAIN stack' : stack'[f].num = n0 - 1 => IsBefore(t0, i0, stack'[f])
    BY <1>7 DEF Followed, FollowedIn
  <2>4. ASSUME NEW f \in DOMAIN stack, stack[f].num = n0 - 1
        PROVE  IsBefore(t0, i0, stack[f])
    <3>1. CASE f \in 1 .. Len(stack) - 1
      BY <1>3, <1>4, <2>3, <2>4, <3>1
    <3>2. CASE f = Len(stack)
      <4>1. stack[f] = Top /\ Top.num + 1 = n0
        BY <1>3, <2>1, <2>4, <3>2
      <4>2. TranQ = rgnodevec[n0].tranQ
        BY <4>1 DEF TranQ
      <4>3. t0 < Top.t
        BY <1>1, <1>3, <2>2, <4>2
      <4> QED BY <4>1, <4>3 DEF IsBefore
    <3> QED BY <1>3, <3>1, <3>2
  <2> QED BY <2>1, <2>4 DEF Followed, FollowedIn
<1>8. EdgesThere'
  <2>1. \A n0 \in Nodes' : \A t0 \in DOMAIN rgnodevec'[n0].tranQ : \A i0 \in DOMAIN rgnodevec'[n0].tranQ[t0].bindings :
          Followed(n0, t0, i0)' => (n0 \in Nodes /\ Followed(n0, t0, i0)) \/ HasEdge(n0, t0, i0)'
    BY <1>7
  <2>2. Len(rgnodevec) <= Len(rgnodevec')
    BY <1>1, NodesUnchanged
  <2> QED BY <1>1, <2>1, <2>2, NodesUnchanged, EdgesStay
<1> QED BY <1>5, <1>6, <1>8 DEF GraphInv

\* What the innermost call fires now, by numbers.
LEMMA FiredNow ==
  ASSUME GraphInv, Firing, NEW n \in Nodes, NEW t0 \in Nat \ {0}, NEW i0 \in Nat \ {0},
         FollowedIn(Later(Top.t, Top.i + 1), n, t0, i0), ~ Followed(n, t0, i0)
  PROVE  n = Top.num + 1 /\ t0 = Top.t /\ i0 = Top.i
<1>1. stack # <<>> /\ TypeOK /\ CallsKnown
  BY DEF Firing, GraphInv
<1>2. PICK t \in Nat \ {0}, i \in Nat \ {0} : t = Top.t /\ i = Top.i
  BY <1>1, TopCall
<1>3. PICK j \in Nat \ {0} : j = i + 1
  BY <1>2
<1>4. FollowedIn(Later(t, j), n, t0, i0) /\ t0 \in Nat /\ i0 \in Nat
  BY <1>2, <1>3
<1>5. /\ n = Top.num + 1 /\ (t0 < t \/ (t0 = t /\ i0 < j))
      /\ ~ (t0 < Top.t) /\ ~ (t0 = Top.t /\ i0 < Top.i)
  BY <1>1, <1>4, FollowedBefore
<1>6. t0 = t /\ i0 = i
  BY <1>2, <1>3, <1>5
<1> QED BY <1>2, <1>5, <1>6

\* A node gets a dashed edge.
LEMMA DashAdded ==
  ASSUME GraphInv, UNCHANGED <<limit, rgnodetable>>, NEW n1 \in Nodes, NEW e \in Nat,
         rgnodevec' = [rgnodevec EXCEPT ![n1].dashNextNode = Append(@, e)]
  PROVE  /\ Kept /\ Nodes' = Nodes /\ Len(rgnodevec') = Len(rgnodevec) /\ limit' \in Nat
         /\ rgnodevec' \in Seq(Records) /\ rgnodetable' \in [0 .. TableSize - 1 -> Seq(Nat)]
         /\ NodesDistinct' /\ QueuesFull' /\ TableRight'
         /\ e \in ToSet(rgnodevec'[n1].dashNextNode)
<1>1. TypeOK
  BY DEF GraphInv
<1>2. PICK l \in Nat : l = Len(rgnodevec) /\ Nodes = 1 .. l
  BY <1>1, NodesAreRecords
<1>3. \A n \in Nodes : rgnodevec[n] \in Records
  BY <1>1, NodesAreRecords
<1>4. PICK d \in Seq(Nat) : d = rgnodevec[n1].dashNextNode
  BY <1>1, NodesAreRecords
<1>5. PICK a : a = Append(d, e)
  OBVIOUS
<1>6. /\ a \in Seq(Nat) /\ DOMAIN d = 1 .. Len(d) /\ Len(d) \in Nat /\ DOMAIN a = 1 .. Len(d) + 1
      /\ a[Len(d) + 1] = e /\ \A j \in 1 .. Len(d) : a[j] = d[j]
  BY <1>5, Appended
<1>7. Len(d) + 1 \in DOMAIN a /\ \A j \in DOMAIN d : j \in DOMAIN a
  BY <1>6
<1>8. e \in ToSet(a) /\ ToSet(d) \subseteq ToSet(a)
  BY <1>6, <1>7 DEF ToSet
<1>9. PICK r : r = [rgnodevec[n1] EXCEPT !.dashNextNode = a]
  OBVIOUS
<1>10. PICK o \in Records : o = rgnodevec[n1]
  BY <1>3
<1>11. /\ r \in Records /\ r.marking = o.marking /\ r.fathernum = o.fathernum /\ r.last_tran = o.last_tran
       /\ r.tranQ = o.tranQ /\ r.dashNextNode = a
  <2>1. r = [o EXCEPT !.dashNextNode = a]
    BY <1>9, <1>10
  <2>2. /\ r.marking = o.marking /\ r.fathernum = o.fathernum /\ r.last_tran = o.last_tran
        /\ r.tranQ = o.tranQ /\ r.dashNextNode = a
    BY <2>1 DEF Records
  <2>3. r \in Records
    BY <1>6, <2>1 DEF Records
  <2> QED BY <2>2, <2>3
<1>12. PICK v : v = rgnodevec'
  OBVIOUS
<1>13. v = [rgnodevec EXCEPT ![n1] = r]
  BY <1>4, <1>5, <1>9, <1>12
<1>14. /\ DOMAIN v = Nodes /\ v[n1] = r /\ \A n \in Nodes : n # n1 => v[n] = rgnodevec[n]
  BY <1>13 DEF Nodes
<1>15. v \in Seq(Records) /\ Len(v) = l
  <2>1. \A n \in 1 .. l : v[n] \in Records
    BY <1>2, <1>3, <1>11, <1>14
  <2>2. v = [n \in 1 .. l |-> v[n]]
    BY <1>2, <1>13, <1>14 DEF Nodes
  <2>3. v \in [1 .. l -> Records]
    BY <2>1, <2>2
  <2> QED BY <2>3
<1>16. Nodes' = Nodes
  BY <1>12, <1>14 DEF Nodes
<1>17. \A n \in Nodes : /\ v[n].marking = rgnodevec[n].marking /\ v[n].tranQ = rgnodevec[n].tranQ
                        /\ v[n].fathernum = rgnodevec[n].fathernum /\ v[n].last_tran = rgnodevec[n].last_tran
                        /\ ToSet(rgnodevec[n].dashNextNode) \subseteq ToSet(v[n].dashNextNode)
  BY <1>4, <1>8, <1>10, <1>11, <1>14
<1>18. Kept
  BY <1>12, <1>16, <1>17 DEF Kept
<1>19. NodesDistinct'
  BY <1>12, <1>16, <1>17 DEF GraphInv, NodesDistinct
<1>20. QueuesFull'
  <2>1. Len(rgnodevec') = Len(rgnodevec) /\ limit' = limit
    BY <1>2, <1>12, <1>15
  <2> QED BY <1>12, <1>16, <1>17, <2>1 DEF GraphInv, QueuesFull
<1>21. TableRight'
  <2>1. rgnodetable' = rgnodetable
    OBVIOUS
  <2>2. \A n \in Nodes : Bucket(v[n].marking) = Bucket(rgnodevec[n].marking)
    BY <1>17
  <2>3. \A n \in Nodes : \E j \in DOMAIN rgnodetable[Bucket(v[n].marking)] :
          rgnodetable[Bucket(v[n].marking)][j] = n - 1
    BY <2>2 DEF GraphInv, TableRight
  <2>4. \A h \in DOMAIN rgnodetable : \A j \in DOMAIN rgnodetable[h] : rgnodetable[h][j] + 1 \in Nodes
    BY DEF GraphInv, TableRight
  <2> QED BY <1>12, <1>16, <2>1, <2>3, <2>4 DEF TableRight
<1> QED BY <1>1, <1>2, <1>8, <1>11, <1>12, <1>14, <1>15, <1>16, <1>18, <1>19, <1>20, <1>21 DEF TypeOK

\* The successor is there already.
LEMMA KnownKeeps ==
  ASSUME GraphInv, Firing, Known(Successor)
  PROVE  GraphInv'
<1>1. /\ Firing /\ Matching(Successor) # {} /\ stack' = Later(Top.t, Top.i + 1)
      /\ rgnodevec' = [rgnodevec EXCEPT ![Top.num + 1].dashNextNode = Append(@, nodeExist(Successor))]
      /\ UNCHANGED <<limit, rgnodetable>>
  BY DEF Known
<1>2. TypeOK /\ CallsKnown /\ stack # <<>>
  BY <1>1 DEF GraphInv, Firing
<1>3. PICK n1 \in Nodes, s \in Markings :
        n1 = Top.num + 1 /\ s = Successor
  BY <1>1, FiresBinding
<1>4. PICK e \in Nat : e = nodeExist(s) /\ e + 1 \in Nodes /\ rgnodevec[e + 1].marking = s
  BY <1>1, <1>3, NodeFound
<1>5. rgnodevec' = [rgnodevec EXCEPT ![n1].dashNextNode = Append(@, e)]
  BY <1>1, <1>3, <1>4
<1>6. /\ Kept /\ Nodes' = Nodes /\ Len(rgnodevec') = Len(rgnodevec) /\ limit' \in Nat
      /\ rgnodevec' \in Seq(Records) /\ rgnodetable' \in [0 .. TableSize - 1 -> Seq(Nat)]
      /\ NodesDistinct' /\ QueuesFull' /\ TableRight'
      /\ e \in ToSet(rgnodevec'[n1].dashNextNode)
  BY <1>1, <1>5, DashAdded
<1>7. PICK t \in Nat \ {0}, j \in Nat \ {0} : t = Top.t /\ j = Top.i + 1 /\ stack' = Later(t, j)
  <2>1. Top.t \in Nat \ {0} /\ Top.i \in Nat \ {0}
    BY <1>2, TopCall
  <2>2. Top.i + 1 \in Nat \ {0}
    BY <2>1
  <2> QED BY <1>1, <2>1, <2>2
<1>8. stack' \in Seq(Frames) /\ CallsKnown'
  <2>1. stack' \in Seq(Frames)
    BY <1>2, <1>7, CallGoesOn
  <2>2. \A f \in DOMAIN stack' : stack'[f].num + 1 \in Nodes
    BY <1>2, <1>7, LaterKnown
  <2> QED BY <1>6, <2>1, <2>2 DEF CallsKnown
<1>9. TypeOK'
  BY <1>6, <1>8 DEF TypeOK
<1>10. ASSUME NEW n0 \in Nodes', NEW t0 \in DOMAIN rgnodevec'[n0].tranQ,
              NEW i0 \in DOMAIN rgnodevec'[n0].tranQ[t0].bindings, Followed(n0, t0, i0)', ~ Followed(n0, t0, i0)
       PROVE  n0 \in Nodes /\ HasEdge(n0, t0, i0)'
  <2>1. n0 \in Nodes /\ rgnodevec'[n0].tranQ = rgnodevec[n0].tranQ /\ rgnodevec[n0] \in Records
        /\ rgnodevec'[n0].marking = rgnodevec[n0].marking
    BY <1>2, <1>6, NodesAreRecords DEF Kept
  <2>2. t0 \in Nat \ {0} /\ i0 \in Nat \ {0}
    BY <2>1, QueueNumbers
  <2>3. FollowedIn(Later(Top.t, Top.i + 1), n0, t0, i0)
    BY <1>1, <1>10 DEF Followed
  <2>4. n0 = n1 /\ t0 = Top.t /\ i0 = Top.i
    BY <1>1, <1>3, <1>10, <2>1, <2>2, <2>3, FiredNow
  <2>5. PICK k : k = rgnodevec'[n0].tranQ[t0].transition
    OBVIOUS
  <2>6. Fired(rgnodevec'[n0].marking, k, rgnodevec'[n0].tranQ[t0].bindings[i0]) = s
    BY <1>3, <2>1, <2>4, <2>5 DEF Successor, TranQ
  <2>7. e + 1 \in Nodes' /\ rgnodevec'[e + 1].marking = s /\ (e + 1) - 1 = e
    <3>1. PICK c : c = e + 1
      OBVIOUS
    <3>2. c \in Nodes' /\ rgnodevec'[c].marking = s
      BY <1>4, <1>6, <3>1 DEF Kept
    <3> QED BY <3>1, <3>2
  <2>8. Edge(n0, k, s)'
    BY <1>6, <2>4, <2>7 DEF Edge
  <2> QED BY <2>1, <2>5, <2>6, <2>8 DEF HasEdge
<1>11. EdgesThere'
  <2>1. Len(rgnodevec) \in Nat
    BY <1>2, NodesAreRecords
  <2>2. Len(rgnodevec) <= Len(rgnodevec') /\ Len(rgnodevec') \in Nat /\ limit' = limit
    BY <1>1, <1>6, <2>1
  <2>3. \A n0 \in Nodes' : \A t0 \in DOMAIN rgnodevec'[n0].tranQ : \A i0 \in DOMAIN rgnodevec'[n0].tranQ[t0].bindings :
          Followed(n0, t0, i0)' => (n0 \in Nodes /\ Followed(n0, t0, i0)) \/ HasEdge(n0, t0, i0)'
    BY <1>6, <1>10
  <2> QED BY <1>6, <2>2, <2>3, EdgesStay
<1> QED BY <1>6, <1>8, <1>9, <1>11 DEF GraphInv

\* Nodes come to the end: those before them are kept.
LEMMA NodesKept ==
  ASSUME GraphInv, Nodes' = Nodes \cup {Len(rgnodevec) + 1}, \A n \in Nodes : rgnodevec'[n] = rgnodevec[n]
  PROVE  Kept
BY DEF Kept

\* The successor is one node too many.
LEMMA AddedAtLimitKeeps ==
  ASSUME GraphInv, Firing, AddedAtLimit(Successor)
  PROVE  GraphInv'
<1>1. /\ Firing /\ Matching(Successor) = {} /\ Len(rgnodevec) >= limit /\ limit' = limit
      /\ addRGNode(Successor, Top.num, TranQ[Top.t].transition, <<>>) /\ stack' = Later(Top.t + 1, 1)
  BY DEF AddedAtLimit
<1>2. TypeOK /\ CallsKnown /\ stack # <<>>
  BY <1>1 DEF GraphInv, Firing
<1>3. PICK s \in Markings, num \in Nat, k \in Nat : s = Successor /\ num = Top.num /\ k = TranQ[Top.t].transition
  <2>1. TranQ[Top.t].transition \in 1 .. TransCount
    BY <1>1, FiresBinding
  <2>2. TransCount \in Nat
    BY FiringAssumption
  <2>3. TranQ[Top.t].transition \in Nat
    BY <2>1, <2>2
  <2> QED BY <1>1, <1>2, <2>3, FiresBinding, TopCall
<1>4. PICK node \in Records : node = Node(s, num, k, <<>>) /\ node.marking = s /\ node.tranQ = <<>>
  <2>1. num \in Int /\ <<>> \in Seq(Nat)
    OBVIOUS
  <2>2. [marking |-> s, fathernum |-> num, last_tran |-> k, tranQ |-> <<>>, dashNextNode |-> <<>>] \in Records
    BY <2>1 DEF Records
  <2> QED BY <2>2 DEF Node
<1>5. \A n \in Nodes : rgnodevec[n].marking # s
  BY <1>1, <1>3, NodeFound
<1>6. addRGNode(s, num, k, <<>>)
  BY <1>1, <1>3
<1>7. /\ Nodes' = Nodes \cup {Len(rgnodevec) + 1} /\ Len(rgnodevec') = Len(rgnodevec) + 1
      /\ rgnodevec' \in Seq(Records) /\ rgnodetable' \in [0 .. TableSize - 1 -> Seq(Nat)]
      /\ NodesDistinct' /\ QueuesFull' /\ TableRight'
  BY <1>1, <1>4, <1>5, <1>6, NodeAdded
<1>8. PICK t \in Nat \ {0}, j \in Nat \ {0} : stack' = Later(t, j)
  <2>1. Top.t \in Nat \ {0}
    BY <1>2, TopCall
  <2>2. Top.t + 1 \in Nat \ {0} /\ 1 \in Nat \ {0}
    BY <2>1
  <2> QED BY <1>1, <2>2
<1>9. stack' \in Seq(Frames) /\ CallsKnown'
  <2>1. stack' \in Seq(Frames)
    BY <1>2, <1>8, CallGoesOn
  <2>2. \A f \in DOMAIN stack' : stack'[f].num + 1 \in Nodes
    BY <1>2, <1>8, LaterKnown
  <2> QED BY <1>7, <2>1, <2>2 DEF CallsKnown
<1>10. TypeOK'
  BY <1>1, <1>2, <1>7, <1>9 DEF TypeOK
<1>11. EdgesThere'
  <2>1. ~ (Len(rgnodevec') <= limit')
    <3>1. Len(rgnodevec) \in Nat /\ limit \in Nat
      BY <1>2, NodesAreRecords DEF TypeOK
    <3> QED BY <1>1, <1>7, <3>1
  <2> QED BY <2>1 DEF EdgesThere
<1> QED BY <1>7, <1>9, <1>10, <1>11 DEF GraphInv

\* The successor is new, and searched next.
LEMMA AddedKeeps ==
  ASSUME GraphInv, Firing, Added(Successor)
  PROVE  GraphInv'
<1>1. /\ Firing /\ Matching(Successor) = {} /\ limit' = limit
      /\ addRGNode(Successor, Top.num, TranQ[Top.t].transition, get_FireTranQ(Successor))
      /\ stack' = Append(Later(Top.t, Top.i + 1), Frame(Len(rgnodevec)))
  BY DEF Added
<1>2. TypeOK /\ CallsKnown /\ stack # <<>>
  BY <1>1 DEF GraphInv, Firing
<1>3. PICK s \in Markings, num \in Nat, k \in Nat : s = Successor /\ num = Top.num /\ k = TranQ[Top.t].transition
  <2>1. TranQ[Top.t].transition \in 1 .. TransCount
    BY <1>1, FiresBinding
  <2>2. TransCount \in Nat
    BY FiringAssumption
  <2>3. TranQ[Top.t].transition \in Nat
    BY <2>1, <2>2
  <2> QED BY <1>1, <1>2, <2>3, FiresBinding, TopCall
<1>4. PICK node \in Records : /\ node = Node(s, num, k, get_FireTranQ(s)) /\ node.marking = s
                              /\ node.tranQ = get_FireTranQ(s) /\ node.fathernum = num /\ node.last_tran = k
  <2>1. PICK q \in {get_FireTranQ(m) : m \in Markings} \cup {<<>>} : q = get_FireTranQ(s)
    OBVIOUS
  <2>2. num \in Int /\ <<>> \in Seq(Nat)
    OBVIOUS
  <2>3. [marking |-> s, fathernum |-> num, last_tran |-> k, tranQ |-> q, dashNextNode |-> <<>>] \in Records
    BY <2>2 DEF Records
  <2> QED BY <2>1, <2>3 DEF Node
<1>5. \A n \in Nodes : rgnodevec[n].marking # s
  BY <1>1, <1>3, NodeFound
<1>6. addRGNode(s, num, k, get_FireTranQ(s))
  BY <1>1, <1>3
<1>7. PICK l \in Nat : l = Len(rgnodevec) /\ Nodes = 1 .. l
  BY <1>2, NodesAreRecords
<1>8. /\ Nodes' = Nodes \cup {l + 1} /\ Len(rgnodevec') = l + 1
      /\ rgnodevec' \in Seq(Records) /\ rgnodetable' \in [0 .. TableSize - 1 -> Seq(Nat)]
      /\ rgnodevec'[l + 1] = node /\ \A n \in Nodes : rgnodevec'[n] = rgnodevec[n]
      /\ NodesDistinct' /\ QueuesFull' /\ TableRight'
  BY <1>1, <1>4, <1>5, <1>6, <1>7, NodeAdded
<1>9. Kept
  BY <1>7, <1>8, NodesKept
<1>10. PICK t \in Nat \ {0}, j \in Nat \ {0} : t = Top.t /\ j = Top.i + 1
  <2>1. Top.t \in Nat \ {0} /\ Top.i \in Nat \ {0}
    BY <1>2, TopCall
  <2>2. Top.i + 1 \in Nat \ {0}
    BY <2>1
  <2> QED BY <2>1, <2>2
<1>11. PICK q \in Seq(Frames) : q = Later(t, j)
  BY <1>2, CallGoesOn
<1>12. PICK f0 \in Frames : f0 = [num |-> l, t |-> 1, i |-> 1] /\ f0.num = l
  <2>1. [num |-> l, t |-> 1, i |-> 1] \in Frames
    BY DEF Frames
  <2> QED BY <2>1
<1>13. stack' = Append(q, f0)
  BY <1>1, <1>7, <1>10, <1>11, <1>12 DEF Frame
<1>14. PICK calls : calls = stack'
  OBVIOUS
<1>15. /\ calls \in Seq(Frames) /\ DOMAIN q = 1 .. Len(q) /\ Len(q) \in Nat /\ DOMAIN calls = 1 .. Len(q) + 1
       /\ calls[Len(q) + 1] = f0 /\ \A f \in 1 .. Len(q) : calls[f] = q[f]
  BY <1>13, <1>14, Appended
<1>16. Len(q) + 1 \in DOMAIN calls /\ \A f \in DOMAIN calls : f = Len(q) + 1 \/ f \in DOMAIN q
  BY <1>15
<1>17. CallsKnown'
  <2>1. \A f \in DOMAIN q : q[f].num + 1 \in Nodes
    BY <1>2, <1>11, LaterKnown
  <2>2. \A f \in DOMAIN calls : calls[f].num + 1 \in Nodes \cup {l + 1}
    <3> TAKE f \in DOMAIN calls
    <3>1. CASE f = Len(q) + 1
      BY <1>12, <1>15, <3>1
    <3>2. CASE f \in DOMAIN q
      BY <1>15, <2>1, <3>2
    <3> QED BY <1>16, <3>1, <3>2
  <2> QED BY <1>8, <1>14, <2>2 DEF CallsKnown
<1>18. TypeOK'
  BY <1>1, <1>2, <1>8, <1>14, <1>15 DEF TypeOK
<1>19. ASSUME NEW n0 \in Nodes', NEW t0 \in DOMAIN rgnodevec'[n0].tranQ,
              NEW i0 \in DOMAIN rgnodevec'[n0].tranQ[t0].bindings, Followed(n0, t0, i0)', ~ (n0 \in Nodes /\ Followed(n0, t0, i0))
       PROVE  HasEdge(n0, t0, i0)'
  <2>1. rgnodevec'[n0] \in Records
    <3>1. \A n \in Nodes : rgnodevec[n] \in Records
      BY <1>2, NodesAreRecords
    <3> QED BY <1>8, <3>1
  <2>2. t0 \in Nat \ {0} /\ i0 \in Nat \ {0}
    BY <2>1, QueueNumbers
  <2>3. FollowedIn(calls, n0, t0, i0)
    BY <1>14, <1>19 DEF Followed
  <2>4. n0 # l + 1
    <3> SUFFICES ASSUME n0 = l + 1 PROVE FALSE
      OBVIOUS
    <3>1. calls[Len(q) + 1].num = n0 - 1
      BY <1>12, <1>15
    <3>2. IsBefore(t0, i0, calls[Len(q) + 1])
      BY <1>16, <2>3, <3>1 DEF FollowedIn
    <3>3. IsBefore(t0, i0, [num |-> l, t |-> 1, i |-> 1])
      BY <1>12, <1>15, <3>2
    <3> QED BY <2>2, <3>3 DEF IsBefore
  <2>5. n0 \in Nodes /\ ~ Followed(n0, t0, i0)
    BY <1>8, <1>19, <2>4
  <2>6. FollowedIn(q, n0, t0, i0)
    BY <1>15, <2>3 DEF FollowedIn
  <2>7. FollowedIn(Later(Top.t, Top.i + 1), n0, t0, i0)
    BY <1>10, <1>11, <2>6
  <2>8. n0 = Top.num + 1 /\ t0 = Top.t /\ i0 = Top.i
    BY <1>1, <2>2, <2>5, <2>7, FiredNow
  <2>9. PICK m, w, b : m = rgnodevec'[n0].marking /\ w = rgnodevec'[n0].tranQ[t0].transition
                       /\ b = rgnodevec'[n0].tranQ[t0].bindings[i0]
    OBVIOUS
  <2>10. rgnodevec'[n0] = rgnodevec[n0]
    BY <1>8, <2>5
  <2>11. w = k /\ Fired(m, w, b) = s
    BY <1>3, <2>8, <2>9, <2>10 DEF Successor, TranQ
  <2>12. l + 1 \in Nodes' /\ rgnodevec'[l + 1] = node
    BY <1>8
  <2>13. n0 - 1 = num
    BY <1>3, <2>8
  <2>14. Edge(n0, k, s)'
    BY <1>4, <2>12, <2>13 DEF Edge
  <2> QED BY <2>9, <2>11, <2>14 DEF HasEdge
<1>20. EdgesThere'
  <2>1. Len(rgnodevec) <= Len(rgnodevec') /\ Len(rgnodevec') \in Nat
    BY <1>7, <1>8
  <2>2. \A n0 \in Nodes' : \A t0 \in DOMAIN rgnodevec'[n0].tranQ : \A i0 \in DOMAIN rgnodevec'[n0].tranQ[t0].bindings :
          Followed(n0, t0, i0)' => (n0 \in Nodes /\ Followed(n0, t0, i0)) \/ HasEdge(n0, t0, i0)'
    BY <1>19
  <2> QED BY <1>1, <1>9, <2>1, <2>2, EdgesStay
<1> QED BY <1>8, <1>17, <1>18, <1>20 DEF GraphInv

-----------------------------------------------------------------------------
\* GraphInv is invariant.
LEMMA GraphInvariant == Spec => []GraphInv
<1>1. Init => GraphInv
  BY GraphStarts
<1>2. GraphInv /\ [Next]_vars => GraphInv'
  <2> SUFFICES ASSUME GraphInv, [Next]_vars PROVE GraphInv'
    OBVIOUS
  <2>1. CASE Firing /\ Known(Successor)
    BY <2>1, KnownKeeps
  <2>2. CASE Firing /\ Added(Successor)
    BY <2>2, AddedKeeps
  <2>3. CASE Firing /\ AddedAtLimit(Successor)
    BY <2>3, AddedAtLimitKeeps
  <2>4. CASE NextTransition
    BY <2>4, NextTransitionKeeps
  <2>5. CASE Return
    BY <2>5, ReturnKeeps
  <2>6. CASE UNCHANGED vars
    BY <2>6 DEF vars, GraphInv, TypeOK, NodesDistinct, QueuesFull, TableRight, CallsKnown, EdgesThere,
                Nodes, Bucket, Followed, HasEdge, Edge
  <2> QED BY <2>1, <2>2, <2>3, <2>4, <2>5, <2>6 DEF Next, Fire
<1> QED BY <1>1, <1>2, PTL DEF Spec

\* addRGNode and nodeExist, for every net and any hash: no marking has two
\* nodes.
THEOREM NodesAreDistinct == Spec => []NodesDistinct
<1>1. GraphInv => NodesDistinct
  BY DEF GraphInv
<1> QED BY <1>1, GraphInvariant, PTL

\* createNode, for every net: a search that ends below the limit has every
\* successor of every node, with an edge to it.
THEOREM GraphIsComplete == Spec => []GraphComplete
<1>1. ASSUME GraphInv PROVE GraphComplete
  <2> SUFFICES ASSUME stack = <<>>, Len(rgnodevec) <= limit, NEW n \in Nodes, NEW k \in (1 .. TransCount) \ Aborts,
                      NEW b \in ToSet(BindingsOf(k, rgnodevec[n].marking))
               PROVE  Edge(n, k, Fired(rgnodevec[n].marking, k, b))
    BY DEF GraphComplete
  <2>1. PICK m \in Markings : m = rgnodevec[n].marking
    BY <1>1, NodesAreRecords DEF GraphInv
  <2>0. PICK i \in DOMAIN BindingsOf(k, m) : BindingsOf(k, m)[i] = b
    BY <2>1 DEF ToSet
  <2>2. Len(rgnodevec) \in Nat /\ limit \in Nat
    BY <1>1, NodesAreRecords DEF GraphInv, TypeOK
  <2>3. rgnodevec[n].tranQ = get_FireTranQ(m)
    BY <1>1, <2>1, <2>2 DEF GraphInv, QueuesFull
  <2>4. BindingsOf(k, m) # <<>>
    BY <2>0
  <2>5. EntryOf(k, m) \in ToSet(get_FireTranQ(m))
    BY <2>4, QueueComplete
  <2>6. PICK t \in DOMAIN rgnodevec[n].tranQ : rgnodevec[n].tranQ[t] = EntryOf(k, m)
    BY <2>3, <2>5 DEF ToSet
  <2>7. rgnodevec[n].tranQ[t].transition = k /\ rgnodevec[n].tranQ[t].bindings = BindingsOf(k, m)
    BY <2>6 DEF EntryOf
  <2>8. Followed(n, t, i)
    BY DEF Followed, FollowedIn
  <2>9. HasEdge(n, t, i)
    BY <1>1, <2>0, <2>1, <2>2, <2>7, <2>8 DEF GraphInv, EdgesThere
  <2> QED BY <2>0, <2>1, <2>7, <2>9 DEF HasEdge
<1> QED BY <1>1, GraphInvariant, PTL
=============================================================================

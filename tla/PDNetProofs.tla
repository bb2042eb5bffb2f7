----------------------------- MODULE PDNetProofs -----------------------------
(***************************************************************************)
(* For every program: the tokens of the net it is translated to are        *)
(* threads on control places and dots on mutex and condition places, a     *)
(* firing moves exactly the tokens its arcs name, and when the net runs    *)
(* next to the threads of the program, the token of a mutex is its lock.   *)
(*                                                                         *)
(* The last needs to know which arcs of the net lead to or from the places *)
(* of mutexes: those LockArcs names, all of them and no others.  That is   *)
(* shown of the list each translation builds, construct by construct, and  *)
(* of what remains of it when the nested blocks are removed.               *)
(***************************************************************************)
EXTENDS PDNetThreads, SequenceTheorems, FiniteSetTheorems, TLAPS

-----------------------------------------------------------------------------
(* The firing of the net. *)

\* The difference of two bags and the union of two bags are bags.
LEMMA BagDifference ==
  ASSUME NEW A, NEW B, IsABag(A), IsABag(B)
  PROVE  IsABag(A (-) B) /\ DOMAIN (A (-) B) \subseteq DOMAIN A
<1> DEFINE D == [e \in DOMAIN A |-> IF e \in DOMAIN B THEN A[e] - B[e] ELSE A[e]]
<1> DEFINE Keep == {d \in DOMAIN D : D[d] > 0}
<1>1. \A e \in DOMAIN A : D[e] \in Int
  BY DEF IsABag
<1>2. A (-) B = [e \in Keep |-> D[e]]
  BY DEF (-)
<1>3. Keep \subseteq DOMAIN A /\ \A e \in Keep : D[e] \in Nat /\ D[e] > 0
  BY <1>1
<1> HIDE DEF D, Keep
<1> QED BY <1>2, <1>3 DEF IsABag

LEMMA BagAddition ==
  ASSUME NEW A, NEW B, IsABag(A), IsABag(B)
  PROVE  IsABag(A (+) B) /\ DOMAIN (A (+) B) = DOMAIN A \cup DOMAIN B
<1>1. \A e \in DOMAIN A \cup DOMAIN B :
        (A (+) B)[e] \in Nat /\ (A (+) B)[e] > 0
  BY DEF (+), IsABag
<1>2. A (+) B = [e \in DOMAIN A \cup DOMAIN B |-> (A (+) B)[e]]
  BY DEF (+)
<1> QED BY <1>1, <1>2 DEF IsABag

LEMMA BagOfSet ==
  ASSUME NEW S
  PROVE  IsABag(SetToBag(S)) /\ DOMAIN SetToBag(S) = S
BY DEF IsABag, SetToBag

\* What a firing consumes and produces lies in the slots of the net.
LEMMA BoundArcs ==
  ASSUME NEW t \in Transitions, NEW tid \in Tids
  PROVE  /\ Bind(Needs(t), tid) \subseteq Slots(NoDependence)
         /\ Bind(Gives(t), tid) \subseteq Slots(NoDependence)
<1> DEFINE Bound(u, v) == Bind(producer[NoDependence][u] \cup consumer[NoDependence][u], v)
<1>1. Bound(t, tid) \subseteq Slots(NoDependence)
  <2>1. Slots(NoDependence) =
          (UNION {Bound(u, v) : u \in Transitions, v \in Tids})
                  \cup {<<BeginP(f), MainTid>> : f \in Mains}
                  \cup {<<MutexP(m), Dot>> : m \in Initialised}
    BY DEF Slots
  <2> HIDE DEF Bound
  <2> QED BY <2>1
<1>2. Bind(Needs(t), tid) \subseteq Bound(t, tid) /\ Bind(Gives(t), tid) \subseteq Bound(t, tid)
  BY DEF Bind, Needs, Gives
<1> QED BY <1>1, <1>2

\* The first marking is of this type.
LEMMA TypeOKInit == Init => TypeOK
<1> SUFFICES ASSUME Init PROVE TypeOK
  OBVIOUS
<1>1. PICK f \in Mains :
        marking = SetToBag({<<BeginP(f), MainTid>>} \cup {<<MutexP(m), Dot>> : m \in Initialised})
  BY DEF Init
<1>2. {<<BeginP(f), MainTid>>} \cup {<<MutexP(m), Dot>> : m \in Initialised}
        \subseteq Slots(NoDependence)
  BY DEF Slots
<1>3. NoDependence \in BOOLEAN
  BY DEF Init
<1> QED BY <1>1, <1>2, <1>3, BagOfSet DEF TypeOK, BagToSet

\* Every firing keeps it.
LEMMA TypeOKStep == TypeOK /\ [Next]_netvars => TypeOK'
<1> SUFFICES ASSUME TypeOK, [Next]_netvars PROVE TypeOK'
  OBVIOUS
<1>1. CASE UNCHANGED netvars
  BY <1>1 DEF TypeOK, BagToSet, netvars
<1>2. ASSUME NEW t \in Transitions, NEW tid \in Tids, Fire(t, tid)
      PROVE  TypeOK'
  <2> DEFINE In == SetToBag(Bind(Needs(t), tid))
             Out == SetToBag(Bind(Gives(t), tid))
  <2>1. marking' = (marking (-) In) (+) Out /\ NoDependence' = NoDependence
    BY <1>2 DEF Fire, Marking_after_fire
  <2>2. IsABag(In) /\ IsABag(Out) /\ DOMAIN Out \subseteq Slots(NoDependence)
    BY BagOfSet, BoundArcs
  <2>3. IsABag(marking (-) In) /\ DOMAIN (marking (-) In) \subseteq Slots(NoDependence)
    BY <2>2, BagDifference DEF TypeOK, BagToSet
  <2> HIDE DEF In, Out
  <2>4. IsABag(marking') /\ DOMAIN marking' \subseteq Slots(NoDependence)
    BY <2>1, <2>2, <2>3, BagAddition
  <2> QED BY <2>1, <2>4 DEF TypeOK, BagToSet
<1> QED BY <1>1, <1>2 DEF Next

\* A marking holds tokens in the slots of the net and nothing else: threads
\* on places that some control arc or thread arc can mark with that thread,
\* dots on the places of mutexes and conditions.
THEOREM PDNetTypeCorrect == Spec => []TypeOK
BY TypeOKInit, TypeOKStep, PTL DEF Spec

\* A firing moves exactly the tokens its arcs name: one copy of each token
\* it needs goes, one copy of each token it produces comes, all others stay.
\* Marking_after_fire takes the difference first, so this rests on the check
\* of is_Fireable that every token needed is there.
THEOREM FiringIsExact ==
  ASSUME TypeOK, NEW t \in Transitions, NEW tid \in Tids, Fire(t, tid), NEW s
  PROVE  Copies(s, marking') =
           Copies(s, marking) - (IF s \in Bind(Needs(t), tid) THEN 1 ELSE 0)
                                + (IF s \in Bind(Gives(t), tid) THEN 1 ELSE 0)
<1> DEFINE In == Bind(Needs(t), tid)
           Out == Bind(Gives(t), tid)
           Rest == marking (-) SetToBag(In)
<1>1. In \subseteq DOMAIN marking /\ marking' = Rest (+) SetToBag(Out)
  BY DEF Fire, is_Fireable, Marking_after_fire, BagToSet
<1>2. \A e \in DOMAIN marking : marking[e] \in Nat /\ marking[e] > 0
  BY DEF TypeOK, IsABag
<1> HIDE DEF In, Out
<1>3. Copies(s, Rest) = Copies(s, marking) - (IF s \in In THEN 1 ELSE 0)
  BY <1>1, <1>2 DEF (-), SetToBag, Copies
<1>4. Copies(s, Rest) \in Int
  BY <1>2 DEF (-), SetToBag, Copies
<1> HIDE DEF Rest
<1>5. Copies(s, marking') = Copies(s, Rest) + (IF s \in Out THEN 1 ELSE 0)
  BY <1>1, <1>4 DEF (+), SetToBag, Copies
<1> QED BY <1>3, <1>5 DEF In, Out

-----------------------------------------------------------------------------
(* Numbers and sequences. *)

\* A set of numbers has a least one, which Min picks.
LEMMA MinIsLeast ==
  ASSUME NEW A, A \subseteq Nat, A # {}
  PROVE  Min(A) \in A /\ \A n \in A : Min(A) <= n
<1> DEFINE R == OpToRel(<, Nat)
<1>1. PICK x \in A : \A y \in A : ~(<<y, x>> \in R)
  BY WFMin, NatLessThanWellFounded
<1>2. \A y \in A : ~(y < x)
  BY <1>1 DEF OpToRel
<1>3. \E k \in A : \A m \in A : k <= m
  BY <1>2
<1> QED BY <1>3 DEF Min

\* A set of positions of a sequence has a greatest one, which Max picks.
LEMMA MaxIsThere ==
  ASSUME NEW n \in Nat, NEW A, A \subseteq 1 .. n, A # {}
  PROVE  Max(A) \in A
<1> DEFINE K == {k \in Nat : \A a \in A : a <= k}
<1>1. n \in K
  OBVIOUS
<1>2. Min(K) \in K /\ \A k \in K : Min(K) <= k
  BY <1>1, MinIsLeast
<1>3. PICK m \in K : \A k \in K : m <= k
  BY <1>2
<1>4. m \in A
  <2> SUFFICES ASSUME m \notin A PROVE FALSE
    OBVIOUS
  <2>1. \A a \in A : a <= m - 1
    BY <1>3
  <2>2. m - 1 \in Nat
    <3>1. m \in Nat
      BY <1>3
    <3>2. PICK a \in A : TRUE
      OBVIOUS
    <3>3. a \in 1 .. n /\ a <= m - 1
      BY <2>1
    <3> QED BY <3>1, <3>3
  <2>3. m - 1 \in K
    BY <2>1, <2>2
  <2> QED BY <2>3, <1>3
<1>5. \A a \in A : m >= a
  BY <1>3
<1>6. \E a \in A : \A b \in A : a >= b
  BY <1>4, <1>5
<1> QED BY <1>6, Zenon DEF Max

\* Induction over the natural numbers, on a set instead of a formula.
LEMMA Induction ==
  ASSUME NEW K, 0 \in K, \A n \in Nat : n \in K => n + 1 \in K
  PROVE  Nat \subseteq K
<1> SUFFICES ASSUME Nat \ K # {} PROVE FALSE
  OBVIOUS
<1>1. PICK n \in Nat \ K : \A m \in Nat \ K : n <= m
  BY MinIsLeast
<1>2. n # 0 /\ n - 1 \in Nat
  BY <1>1
<1>3. n - 1 \in K
  BY <1>1, <1>2
<1>4. (n - 1) + 1 \in K
  BY <1>2, <1>3
<1> QED BY <1>1, <1>4

\* The concatenations of the first members of a sequence.
Flattened(f, n, s) == f = [i \in 1 .. n |-> IF i = 1 THEN s[i] ELSE f[i - 1] \o s[i]]

\* They exist, for every length.
LEMMA FlattenedExists ==
  ASSUME NEW s, NEW n \in Nat
  PROVE  \E f : Flattened(f, n, s)
<1> DEFINE K == {k \in Nat : \E f : Flattened(f, k, s)}
<1>1. 0 \in K
  <2> DEFINE f == [i \in 1 .. 0 |-> <<>>]
  <2>1. f = [i \in 1 .. 0 |-> IF i = 1 THEN s[i] ELSE f[i - 1] \o s[i]]
    OBVIOUS
  <2> QED BY <2>1 DEF Flattened
<1>2. ASSUME NEW k \in Nat, k \in K PROVE k + 1 \in K
  <2>1. PICK f : Flattened(f, k, s)
    BY <1>2
  <2> DEFINE g == [i \in 1 .. k + 1 |-> IF i = k + 1 THEN IF k = 0 THEN s[i] ELSE f[k] \o s[i] ELSE f[i]]
  <2>2. \A i \in 1 .. k + 1 : g[i] = IF i = 1 THEN s[i] ELSE g[i - 1] \o s[i]
    <3> TAKE i \in 1 .. k + 1
    <3>1. CASE i = k + 1
      <4>1. k # 0 => i - 1 = k /\ k \in 1 .. k + 1 /\ k # k + 1
        BY <3>1
      <4>2. i = 1 <=> k = 0
        BY <3>1
      <4>3. g[i] = IF k = 0 THEN s[i] ELSE f[k] \o s[i]
        BY <3>1
      <4>4. k # 0 => g[i - 1] = f[k]
        BY <4>1
      <4> HIDE DEF g
      <4> QED BY <4>2, <4>3, <4>4
    <3>2. CASE i # k + 1
      <4>1. i \in 1 .. k /\ (i # 1 => i - 1 \in 1 .. k + 1 /\ i - 1 # k + 1)
        BY <3>2
      <4>2. f[i] = IF i = 1 THEN s[i] ELSE f[i - 1] \o s[i]
        BY <2>1, <4>1 DEF Flattened
      <4>3. g[i] = f[i] /\ (i # 1 => g[i - 1] = f[i - 1])
        BY <4>1, <3>2
      <4> HIDE DEF g
      <4> QED BY <4>2, <4>3
    <3> QED BY <3>1, <3>2
  <2>3. g = [i \in 1 .. k + 1 |-> g[i]]
    OBVIOUS
  <2> HIDE DEF g
  <2>4. Flattened(g, k + 1, s)
    BY <2>2, <2>3 DEF Flattened
  <2> QED BY <2>4
<1> HIDE DEF K
<1>3. Nat \subseteq K
  BY <1>1, <1>2, Induction
<1> QED BY <1>3 DEF K

\* The members of two sequences, one behind the other.
LEMMA ToSetJoined ==
  ASSUME NEW A, NEW s \in Seq(A), NEW t \in Seq(A)
  PROVE  s \o t \in Seq(A) /\ ToSet(s \o t) = ToSet(s) \cup ToSet(t)
<1>1. s \in Seq(A) /\ t \in Seq(A)
  OBVIOUS
<1>2. /\ s \o t \in Seq(A) /\ Len(s \o t) = Len(s) + Len(t)
      /\ \A i \in 1 .. Len(s) + Len(t) : (s \o t)[i] = IF i <= Len(s) THEN s[i] ELSE t[i - Len(s)]
  BY <1>1, ConcatProperties
<1>3. DOMAIN s = 1 .. Len(s) /\ DOMAIN t = 1 .. Len(t) /\ DOMAIN (s \o t) = 1 .. Len(s) + Len(t)
      /\ Len(s) \in Nat /\ Len(t) \in Nat
  BY <1>1, <1>2, LenProperties
<1>4. ASSUME NEW i \in DOMAIN s PROVE s[i] \in ToSet(s \o t)
  BY <1>2, <1>3 DEF ToSet
<1>5. ASSUME NEW i \in DOMAIN t PROVE t[i] \in ToSet(s \o t)
  <2>1. Len(s) + i \in 1 .. Len(s) + Len(t) /\ ~(Len(s) + i <= Len(s)) /\ (Len(s) + i) - Len(s) = i
    BY <1>3
  <2> QED BY <2>1, <1>2, <1>3 DEF ToSet
<1>6. ASSUME NEW i \in DOMAIN (s \o t) PROVE (s \o t)[i] \in ToSet(s) \cup ToSet(t)
  <2>1. CASE i <= Len(s)
    BY <2>1, <1>2, <1>3 DEF ToSet
  <2>2. CASE ~(i <= Len(s))
    BY <2>2, <1>2, <1>3 DEF ToSet
  <2> QED BY <2>1, <2>2
<1> QED BY <1>2, <1>4, <1>5, <1>6 DEF ToSet

\* FlattenSeq makes a sequence of the members of its members.
LEMMA FlattenSeqOf ==
  ASSUME NEW G, NEW s, NEW n \in Nat, DOMAIN s = 1 .. n, \A i \in 1 .. n : s[i] \in Seq(G),
         s = [i \in DOMAIN s |-> s[i]]
  PROVE  FlattenSeq(s) \in Seq(G)
<1>1. s \in Seq(Seq(G)) /\ Len(s) = n
  BY SeqDef
<1> DEFINE f == CHOOSE h : Flattened(h, n, s)
           K == {k \in Nat : k + 1 <= n => f[k + 1] \in Seq(G)}
<1>2. FlattenSeq(s) = IF n = 0 THEN s ELSE f[n]
  <2>1. FlattenSeq(s) = IF Len(s) = 0 THEN s ELSE (CHOOSE h : Flattened(h, Len(s), s))[Len(s)]
    BY Zenon DEF FlattenSeq, Flattened
  <2> QED BY <2>1, <1>1
<1>3. Flattened(f, n, s)
  BY FlattenedExists
<1> HIDE DEF f
<1>4. \A i \in 1 .. n : f[i] = IF i = 1 THEN s[i] ELSE f[i - 1] \o s[i]
  BY <1>3 DEF Flattened
<1>5. 0 \in K
  <2>1. 1 <= n => 1 \in 1 .. n
    OBVIOUS
  <2> QED BY <1>4, <2>1
<1>6. ASSUME NEW k \in Nat, k \in K PROVE k + 1 \in K
  <2> SUFFICES ASSUME (k + 1) + 1 <= n PROVE f[(k + 1) + 1] \in Seq(G)
    OBVIOUS
  <2>1. (k + 1) + 1 \in 1 .. n /\ (k + 1) + 1 # 1 /\ ((k + 1) + 1) - 1 = k + 1 /\ k + 1 <= n
    OBVIOUS
  <2>2. f[k + 1] \in Seq(G)
    BY <1>6, <2>1
  <2>3. f[(k + 1) + 1] = f[k + 1] \o s[(k + 1) + 1]
    BY <1>4, <2>1
  <2> QED BY <2>1, <2>2, <2>3
<1> HIDE DEF K
<1>7. Nat \subseteq K
  BY <1>5, <1>6, Induction
<1>8. CASE n = 0
  <2>1. s = <<>>
    BY <1>1, <1>8
  <2> QED BY <1>2, <1>8, <2>1
<1>9. CASE n # 0
  <2>1. n - 1 \in Nat /\ (n - 1) + 1 = n /\ n <= n
    BY <1>9
  <2>2. n - 1 \in K
    BY <2>1, <1>7
  <2>3. f[(n - 1) + 1] \in Seq(G)
    BY <2>1, <2>2 DEF K
  <2> QED BY <1>2, <1>9, <2>1, <2>3
<1> QED BY <1>8, <1>9

\* FlattenSeq keeps the members of its members.
LEMMA FlattenSeqHas ==
  ASSUME NEW G, NEW s, NEW n \in Nat, DOMAIN s = 1 .. n, \A i \in 1 .. n : s[i] \in Seq(G),
         s = [i \in DOMAIN s |-> s[i]], NEW j \in 1 .. n, NEW x \in ToSet(s[j])
  PROVE  x \in ToSet(FlattenSeq(s))
<1>1. s \in Seq(Seq(G)) /\ Len(s) = n
  BY SeqDef
<1> DEFINE f == CHOOSE h : Flattened(h, n, s)
           K == {k \in Nat : k + 1 <= n => f[k + 1] \in Seq(G)}
           H == {k \in Nat : j + k <= n => x \in ToSet(f[j + k])}
<1>2. FlattenSeq(s) = f[n]
  <2>1. FlattenSeq(s) = IF Len(s) = 0 THEN s ELSE (CHOOSE h : Flattened(h, Len(s), s))[Len(s)]
    BY Zenon DEF FlattenSeq, Flattened
  <2> QED BY <2>1, <1>1
<1>3. Flattened(f, n, s)
  BY FlattenedExists
<1> HIDE DEF f
<1>4. \A i \in 1 .. n : f[i] = IF i = 1 THEN s[i] ELSE f[i - 1] \o s[i]
  BY <1>3 DEF Flattened
<1>5. 0 \in K
  <2>1. 1 <= n => 1 \in 1 .. n
    OBVIOUS
  <2> QED BY <1>4, <2>1
<1>6. ASSUME NEW k \in Nat, k \in K PROVE k + 1 \in K
  <2> SUFFICES ASSUME (k + 1) + 1 <= n PROVE f[(k + 1) + 1] \in Seq(G)
    OBVIOUS
  <2>1. (k + 1) + 1 \in 1 .. n /\ (k + 1) + 1 # 1 /\ ((k + 1) + 1) - 1 = k + 1 /\ k + 1 <= n
    OBVIOUS
  <2>2. f[k + 1] \in Seq(G)
    BY <1>6, <2>1
  <2>3. f[(k + 1) + 1] = f[k + 1] \o s[(k + 1) + 1]
    BY <1>4, <2>1
  <2> QED BY <2>1, <2>2, <2>3
<1> HIDE DEF K
<1>7. Nat \subseteq K
  BY <1>5, <1>6, Induction
<1>8. \A i \in 1 .. n : f[i] \in Seq(G)
  <2> TAKE i \in 1 .. n
  <2>1. i - 1 \in Nat /\ (i - 1) + 1 = i /\ i <= n
    OBVIOUS
  <2> QED BY <2>1, <1>7 DEF K
<1>9. \A i \in 1 .. n : i # 1 => ToSet(f[i]) = ToSet(f[i - 1]) \cup ToSet(s[i])
  <2> SUFFICES ASSUME NEW i \in 1 .. n, i # 1
               PROVE  ToSet(f[i]) = ToSet(f[i - 1]) \cup ToSet(s[i])
    OBVIOUS
  <2>0. i - 1 \in 1 .. n
    OBVIOUS
  <2>1. f[i] = f[i - 1] \o s[i]
    BY <1>4
  <2>2. f[i - 1] \in Seq(G) /\ s[i] \in Seq(G)
    BY <2>0, <1>8
  <2>3. ToSet(f[i - 1] \o s[i]) = ToSet(f[i - 1]) \cup ToSet(s[i])
    BY <2>2, ToSetJoined
  <2> QED BY <2>1, <2>3
<1>10. 0 \in H
  <2>1. j + 0 = j
    OBVIOUS
  <2>2. x \in ToSet(f[j])
    <3>1. CASE j = 1
      BY <3>1, <1>4
    <3>2. CASE j # 1
      BY <3>2, <1>9
    <3> QED BY <3>1, <3>2
  <2> QED BY <2>1, <2>2
<1>11. ASSUME NEW k \in Nat, k \in H PROVE k + 1 \in H
  <2> SUFFICES ASSUME j + (k + 1) <= n PROVE x \in ToSet(f[j + (k + 1)])
    OBVIOUS
  <2>1. j + (k + 1) \in 1 .. n /\ j + (k + 1) # 1 /\ (j + (k + 1)) - 1 = j + k /\ j + k <= n
    OBVIOUS
  <2>2. x \in ToSet(f[j + k])
    BY <2>1, <1>11
  <2> QED BY <2>1, <2>2, <1>9
<1> HIDE DEF H
<1>12. Nat \subseteq H
  BY <1>10, <1>11, Induction
<1>13. n - j \in Nat /\ j + (n - j) = n
  OBVIOUS
<1> QED BY <1>2, <1>12, <1>13 DEF H

-----------------------------------------------------------------------------
(* Folds over finite sets. *)

UpTo(A, n) == {s \in SUBSET A : Cardinality(s) <= n}

\* ch picks a member of each set.
Picks(ch, A) == \A s \in SUBSET A : s # {} => ch[s] \in s

\* A set without the member that is picked.
LEMMA Without ==
  ASSUME NEW A, IsFiniteSet(A), NEW ch, Picks(ch, A), NEW s \in SUBSET A, s # {}
  PROVE  /\ ch[s] \in s /\ s \ {ch[s]} \in SUBSET A
         /\ Cardinality(s) \in Nat /\ Cardinality(s) # 0
         /\ Cardinality(s \ {ch[s]}) = Cardinality(s) - 1
<1>1. ch[s] \in s /\ s \subseteq A
  BY DEF Picks
<1>2. IsFiniteSet(s)
  BY <1>1, FS_Subset
<1>3. IsFiniteSet(s \ {ch[s]}) /\ Cardinality(s \ {ch[s]}) = Cardinality(s) - 1
  BY <1>1, <1>2, FS_RemoveElement
<1>4. Cardinality(s) \in Nat /\ Cardinality(s) # 0
  BY <1>2, FS_CardinalityType, FS_EmptySet
<1> QED BY <1>1, <1>3, <1>4

\* The sets with no members at most.
LEMMA UpToNone ==
  ASSUME NEW A, IsFiniteSet(A), NEW s \in UpTo(A, 0)
  PROVE  s = {}
<1>1. s \in SUBSET A /\ Cardinality(s) <= 0
  BY DEF UpTo
<1>2. IsFiniteSet(s)
  BY <1>1, FS_Subset
<1> QED BY <1>1, <1>2, FS_CardinalityType, FS_EmptySet

\* The induction of a fold: what holds of the empty set and of every set if
\* it holds without the member that is picked, holds of all subsets.
LEMMA FoldInduction ==
  ASSUME NEW A, IsFiniteSet(A), NEW ch, Picks(ch, A), NEW K, {} \in K,
         \A s \in SUBSET A : s # {} /\ s \ {ch[s]} \in K => s \in K
  PROVE  SUBSET A \subseteq K
<1> DEFINE H == {n \in Nat : UpTo(A, n) \subseteq K}
<1>1. 0 \in H
  BY UpToNone
<1>2. ASSUME NEW n \in Nat, n \in H PROVE n + 1 \in H
  <2> SUFFICES ASSUME NEW s \in UpTo(A, n + 1), s # {} PROVE s \in K
    OBVIOUS
  <2>1. s \in SUBSET A /\ Cardinality(s) <= n + 1
    BY DEF UpTo
  <2>2. s \ {ch[s]} \in SUBSET A /\ Cardinality(s) \in Nat /\ Cardinality(s \ {ch[s]}) = Cardinality(s) - 1
    BY <2>1, Without
  <2>3. s \ {ch[s]} \in UpTo(A, n)
    BY <2>1, <2>2 DEF UpTo
  <2>4. s \ {ch[s]} \in K
    BY <2>3, <1>2
  <2> QED BY <2>1, <2>4
<1> HIDE DEF H
<1>3. Nat \subseteq H
  BY <1>1, <1>2, Induction
<1>4. Cardinality(A) \in Nat
  BY FS_CardinalityType
<1>5. \A s \in SUBSET A : s \in UpTo(A, Cardinality(A))
  BY FS_Subset DEF UpTo
<1> QED BY <1>3, <1>4, <1>5 DEF H

\* The results of a fold for the sets in D; a step is given what is picked
\* and the result without it.
Folds(f, D, base, ch, step) ==
  f = [s \in D |-> IF s = {} THEN base ELSE step[<<ch[s], f[s \ {ch[s]}]>>]]

\* They exist, for every size.
LEMMA FoldsExist ==
  ASSUME NEW A, IsFiniteSet(A), NEW ch, Picks(ch, A), NEW base, NEW step, NEW n \in Nat
  PROVE  \E f : Folds(f, UpTo(A, n), base, ch, step)
<1> DEFINE K == {k \in Nat : \E f : Folds(f, UpTo(A, k), base, ch, step)}
<1>1. 0 \in K
  <2> DEFINE f == [s \in UpTo(A, 0) |-> base]
  <2>1. \A s \in UpTo(A, 0) : s = {}
    BY UpToNone
  <2>2. f = [s \in UpTo(A, 0) |-> IF s = {} THEN base ELSE step[<<ch[s], f[s \ {ch[s]}]>>]]
    BY <2>1
  <2> HIDE DEF f
  <2> QED BY <2>2 DEF Folds
<1>2. ASSUME NEW k \in Nat, k \in K PROVE k + 1 \in K
  <2>1. PICK f : Folds(f, UpTo(A, k), base, ch, step)
    BY <1>2
  <2> DEFINE g == [s \in UpTo(A, k + 1) |-> IF s \in UpTo(A, k) THEN f[s] ELSE step[<<ch[s], f[s \ {ch[s]}]>>]]
  <2>2. ASSUME NEW s \in UpTo(A, k + 1)
        PROVE  g[s] = IF s = {} THEN base ELSE step[<<ch[s], g[s \ {ch[s]}]>>]
    <3>1. CASE s = {}
      <4>1. s \in UpTo(A, k)
        BY <3>1, FS_EmptySet DEF UpTo
      <4>2. f[s] = base
        BY <4>1, <3>1, <2>1 DEF Folds
      <4> QED BY <4>1, <4>2, <3>1
    <3>2. CASE s # {}
      <4>0. s \in SUBSET A /\ Cardinality(s) <= k + 1
        BY DEF UpTo
      <4>1. /\ s \ {ch[s]} \in SUBSET A /\ Cardinality(s) \in Nat
            /\ Cardinality(s \ {ch[s]}) = Cardinality(s) - 1
        BY <3>2, <4>0, Without
      <4>2. s \ {ch[s]} \in UpTo(A, k) /\ s \ {ch[s]} \in UpTo(A, k + 1)
        BY <4>0, <4>1 DEF UpTo
      <4>4. g[s \ {ch[s]}] = f[s \ {ch[s]}]
        BY <4>2
      <4>5. g[s] = step[<<ch[s], f[s \ {ch[s]}]>>]
        <5>1. s \in UpTo(A, k) => f[s] = step[<<ch[s], f[s \ {ch[s]}]>>]
          BY <3>2, <2>1 DEF Folds
        <5> QED BY <5>1
      <4> HIDE DEF g
      <4> QED BY <3>2, <4>4, <4>5
    <3> QED BY <3>1, <3>2
  <2>3. g = [s \in UpTo(A, k + 1) |-> g[s]]
    OBVIOUS
  <2> HIDE DEF g
  <2>4. g = [s \in UpTo(A, k + 1) |-> IF s = {} THEN base ELSE step[<<ch[s], g[s \ {ch[s]}]>>]]
    BY <2>2, <2>3
  <2> QED BY <2>4 DEF Folds
<1> HIDE DEF K
<1>3. Nat \subseteq K
  BY <1>1, <1>2, Induction
<1> QED BY <1>3 DEF K

\* A step of a fold over A gives results in G.
StaysIn(step, A, G) == \A x \in A, r \in G : step[<<x, r>>] \in G

\* There is a fold with results in G.
FoldsInto(A, G, base, ch, step) ==
  \E f : Folds(f, SUBSET A, base, ch, step) /\ \A s \in SUBSET A : f[s] \in G

\* A fold over a finite set, and the type of its result.
LEMMA FoldExists ==
  ASSUME NEW A, IsFiniteSet(A), NEW ch, Picks(ch, A), NEW G, NEW base \in G,
         NEW step, StaysIn(step, A, G)
  PROVE  FoldsInto(A, G, base, ch, step)
<1>1. Cardinality(A) \in Nat /\ UpTo(A, Cardinality(A)) = SUBSET A
  BY FS_Subset, FS_CardinalityType DEF UpTo
<1>2. PICK f : Folds(f, SUBSET A, base, ch, step)
  <2>1. \E f : Folds(f, UpTo(A, Cardinality(A)), base, ch, step)
    BY <1>1, FoldsExist
  <2> QED BY <1>1, <2>1
<1> DEFINE K == {s \in SUBSET A : f[s] \in G}
<1>3. {} \in K
  BY <1>2 DEF Folds
<1>4. ASSUME NEW s \in SUBSET A, s # {}, s \ {ch[s]} \in K PROVE s \in K
  <2>1. f[s] = step[<<ch[s], f[s \ {ch[s]}]>>]
    BY <1>4, <1>2 DEF Folds
  <2>2. ch[s] \in A
    BY <1>4 DEF Picks
  <2> QED BY <2>1, <2>2, <1>4 DEF StaysIn
<1> HIDE DEF K
<1>5. SUBSET A \subseteq K
  BY <1>3, <1>4, FoldInduction
<1> QED BY <1>2, <1>5 DEF K, FoldsInto

-----------------------------------------------------------------------------
(* The search of the arcs. *)

\* InOrder lists the members of a set of numbers.
LEMMA InOrderLists ==
  ASSUME NEW A, A \subseteq Nat, IsFiniteSet(A)
  PROVE  InOrder(A) \in Seq(A) /\ Len(InOrder(A)) = Cardinality(A) /\ ToSet(InOrder(A)) = A
<1> DEFINE n == Cardinality(A)
           r == [i \in A |-> Cardinality({j \in A : j <= i})]
<1>1. n \in Nat
  BY FS_CardinalityType
<1>2. \A i \in A : r[i] \in 1 .. n
  <2> TAKE i \in A
  <2>1. {j \in A : j <= i} \subseteq A /\ i \in {j \in A : j <= i}
    OBVIOUS
  <2>2. IsFiniteSet({j \in A : j <= i}) /\ Cardinality({j \in A : j <= i}) <= n
    BY <2>1, FS_Subset
  <2>3. Cardinality({j \in A : j <= i}) \in Nat /\ Cardinality({j \in A : j <= i}) # 0
    BY <2>1, <2>2, FS_CardinalityType, FS_EmptySet
  <2> QED BY <2>2, <2>3, <1>1
<1>3. ASSUME NEW i \in A, NEW k \in A, i < k PROVE r[i] < r[k]
  <2> DEFINE I == {j \in A : j <= i}
             J == {j \in A : j <= k}
  <2>0. \A j \in A : j <= i => j <= k /\ j # k
    BY <1>3
  <2>a. k <= k
    OBVIOUS
  <2>b. k \in J /\ J \subseteq A
    BY <2>a
  <2>c. \A j \in I : j \in A /\ j <= i
    OBVIOUS
  <2>d. \A j : j \in A /\ j <= k => j \in J
    OBVIOUS
  <2> HIDE DEF I, J
  <2>1. I \subseteq J \ {k} /\ k \in J /\ J \subseteq A
    BY <2>0, <2>b, <2>c, <2>d
  <2> USE DEF I, J
  <2>2. IsFiniteSet(J)
    BY <2>1, FS_Subset
  <2>3. IsFiniteSet(J \ {k}) /\ Cardinality(J \ {k}) = Cardinality(J) - 1
    BY <2>1, <2>2, FS_RemoveElement
  <2>4. Cardinality(I) <= Cardinality(J) - 1
    BY <2>1, <2>3, FS_Subset
  <2>5. r[i] = Cardinality(I) /\ r[k] = Cardinality(J)
    OBVIOUS
  <2>6. Cardinality(J) \in Nat /\ Cardinality(I) \in Nat
    BY <2>5, <1>2, <1>1
  <2> QED BY <2>4, <2>5, <2>6
<1>4. \A i, k \in A : r[i] = r[k] => i = k
  <2> SUFFICES ASSUME NEW i \in A, NEW k \in A, r[i] = r[k], i # k PROVE FALSE
    OBVIOUS
  <2>1. i < k \/ k < i
    OBVIOUS
  <2>2. r[i] \in 1 .. n /\ r[k] \in 1 .. n
    BY <1>2
  <2> HIDE DEF r
  <2> QED BY <2>1, <2>2, <1>3
<1> HIDE DEF r
<1>5. r \in Injection(A, 1 .. n)
  <2>1. r \in [A -> 1 .. n]
    BY <1>2 DEF r
  <2> QED BY <2>1, <1>4 DEF Injection, IsInjective
<1>6. Cardinality(1 .. n) = n /\ IsFiniteSet(1 .. n)
  BY <1>1, FS_Interval
<1>7. r \in Surjection(A, 1 .. n)
  BY <1>5, <1>6, FS_Injection
<1>8. \A k \in 1 .. n : \E i \in A : r[i] = k
  BY <1>7 DEF Surjection
<1>9. DOMAIN InOrder(A) = 1 .. n /\ \A k \in 1 .. n : InOrder(A)[k] = CHOOSE i \in A : Cardinality({j \in A : j <= i}) = k
  BY DEF InOrder
<1>10. \A k \in 1 .. n : InOrder(A)[k] \in A /\ r[InOrder(A)[k]] = k
  <2> TAKE k \in 1 .. n
  <2>1. \E i \in A : Cardinality({j \in A : j <= i}) = k
    BY <1>8 DEF r
  <2>2. InOrder(A)[k] \in A /\ Cardinality({j \in A : j <= InOrder(A)[k]}) = k
    BY <2>1, <1>9
  <2> QED BY <2>2 DEF r
<1>11. InOrder(A) = [k \in 1 .. n |-> InOrder(A)[k]]
  <2> DEFINE c(k) == CHOOSE i \in A : Cardinality({j \in A : j <= i}) = k
             q == [k \in 1 .. n |-> c(k)]
  <2>1. InOrder(A) = q
    BY DEF InOrder
  <2> HIDE DEF c
  <2>2. q = [k \in 1 .. n |-> q[k]]
    OBVIOUS
  <2> HIDE DEF q
  <2> QED BY <2>1, <2>2
<1>12. InOrder(A) \in [1 .. n -> A]
  BY <1>10, <1>11
<1>13. InOrder(A) \in Seq(A) /\ Len(InOrder(A)) = n
  BY <1>1, <1>12, SeqDef
<1>14. \A i \in A : i \in ToSet(InOrder(A))
  <2> TAKE i \in A
  <2>1. r[i] \in 1 .. n
    BY <1>2 DEF r
  <2>2. InOrder(A)[r[i]] = i
    BY <2>1, <1>10, <1>4
  <2> QED BY <2>1, <2>2, <1>9 DEF ToSet
<1>15. ToSet(InOrder(A)) \subseteq A
  BY <1>9, <1>10 DEF ToSet
<1> QED BY <1>13, <1>14, <1>15

-----------------------------------------------------------------------------
(* The places, transitions and arcs that have nothing to do with mutexes,  *)
(* and the arcs of the mutexes.                                            *)

Ids == Node \cup Funcs \cup {Func[n] : n \in Node}
         \cup {Arg(n) : n \in Node} \cup {Arg(n)[1] : n \in Node} \cup {Arg(n).fn : n \in Node}

Tags2 == {"P", "executed", "beginP", "endP", "cond", "T", "true", "false", "begin", "wake", "relock"}
Tags3 == {"callP", "signalP", "call"}

Names   == (Tags2 \X Ids) \cup (Tags3 \X Ids \X Nat)
Colours == {Tid, Dot} \cup {Arg(n).tid : n \in Node}

FlowArcs == [src : Names, tgt : Names, exp : Colours, deleted : BOOLEAN]

LockArcs ==
  {Arc(MutexP(Arg(n)), T(n), Dot) : n \in {k \in Node : Kind(k) = "lock"}}
    \cup {Arc(MutexP(Arg(n)[2]), RelockT(n), Dot) : n \in {k \in Node : Kind(k) = "wait"}}
    \cup {Arc(T(n), MutexP(Arg(n)), Dot) : n \in {k \in Node : Kind(k) \in {"init", "unlock"}}}
    \cup {Arc(T(n), MutexP(Arg(n)[2]), Dot) : n \in {k \in Node : Kind(k) = "wait"}}

AnyArc == FlowArcs \cup LockArcs

\* Short sequences.
LEMMA Short ==
  ASSUME NEW S
  PROVE  /\ <<>> \in Seq(S)
         /\ \A a \in S : <<a>> \in Seq(S)
         /\ \A a, b \in S : <<a, b>> \in Seq(S)
OBVIOUS

\* The ends of a sequence are members.
LEMMA EndsOf ==
  ASSUME NEW S, NEW s \in Seq(S), s # <<>>
  PROVE  /\ Len(s) \in Nat /\ Len(s) >= 1 /\ DOMAIN s = 1 .. Len(s)
         /\ s[1] \in S /\ Last(s) \in S /\ s[1] \in ToSet(s) /\ Last(s) \in ToSet(s)
<1>1. Len(s) \in Nat \ {0} /\ DOMAIN s = 1 .. Len(s)
  BY EmptySeq, LenProperties
<1>2. 1 \in 1 .. Len(s) /\ Len(s) \in 1 .. Len(s)
  BY <1>1
<1>3. s[1] \in S /\ s[Len(s)] \in S
  BY <1>2, ElementOfSeq
<1>4. Last(s) = s[Len(s)]
  BY DEF Last
<1>5. s[1] \in ToSet(s) /\ s[Len(s)] \in ToSet(s)
  BY <1>1, <1>2 DEF ToSet
<1> QED BY <1>1, <1>3, <1>4, <1>5

\* The statements are numbered from 1, and a child after its parent.
LEMMA Statements ==
  /\ Len(KindOf) \in Nat /\ Node = 1 .. Len(KindOf)
  /\ \A n \in Node : Kids(n) \in Seq(Node) /\ Called(n) \in Seq(Funcs)
  /\ \A n \in Node : Kind(n) \in {"while", "label"} => Len(Kids(n)) = 1
  /\ \A n \in Node : Kind(n) = "if" => Len(Kids(n)) \in {1, 2}
  /\ \A n \in Node : Kind(n) \in {"if", "while", "label"} => Kids(n)[1] \in Node /\ Kids(n)[1] > n
  /\ \A n \in Node : Len(Kids(n)) = 2 => Kids(n)[2] \in Node /\ Kids(n)[2] > n
  /\ \A n \in Node : Kids(n) # <<>> => Last(Kids(n)) \in Node /\ Last(Kids(n)) > n
  /\ \A n \in Node, i \in Nat : 1 <= i /\ i <= Len(Kids(n)) => Kids(n)[i] \in Node /\ Kids(n)[i] > n
<1>1. Len(KindOf) \in Nat /\ Node = 1 .. Len(KindOf)
  BY ProgramAssumption, LenProperties DEF Node
<1>2. \A n \in Node : /\ Kids(n) \in Seq(Node) /\ Called(n) \in Seq(Funcs)
                      /\ \A k \in ToSet(Kids(n)) : k > n
                      /\ Kind(n) \in {"while", "label"} => Len(Kids(n)) = 1
                      /\ Kind(n) = "if" => Len(Kids(n)) \in {1, 2}
  BY ProgramAssumption
<1>3. ASSUME NEW n \in Node, Kids(n) # <<>> PROVE Last(Kids(n)) \in Node /\ Last(Kids(n)) > n
  <2>1. Last(Kids(n)) \in Node /\ Last(Kids(n)) \in ToSet(Kids(n))
    BY <1>2, <1>3, EndsOf
  <2> QED BY <2>1, <1>2
<1>4. ASSUME NEW n \in Node, NEW i \in Nat, 1 <= i, i <= Len(Kids(n))
      PROVE  Kids(n)[i] \in Node /\ Kids(n)[i] > n
  <2>1. Kids(n) \in Seq(Node) /\ Len(Kids(n)) \in Nat /\ DOMAIN Kids(n) = 1 .. Len(Kids(n))
    BY <1>2, LenProperties
  <2>2. i \in 1 .. Len(Kids(n))
    BY <2>1, <1>4
  <2>3. Kids(n)[i] \in Node
    BY <2>1, <2>2, ElementOfSeq
  <2>4. Kids(n)[i] \in ToSet(Kids(n))
    BY <2>1, <2>2 DEF ToSet
  <2> QED BY <2>3, <2>4, <1>2
<1>5. ASSUME NEW n \in Node, Kind(n) \in {"if", "while", "label"} PROVE Kids(n)[1] \in Node /\ Kids(n)[1] > n
  <2>1. Len(Kids(n)) \in {1, 2}
    BY <1>2, <1>5
  <2> QED BY <2>1, <1>4
<1>6. ASSUME NEW n \in Node, Len(Kids(n)) = 2 PROVE Kids(n)[2] \in Node /\ Kids(n)[2] > n
  BY <1>4, <1>6
<1> QED BY <1>1, <1>2, <1>3, <1>4, <1>5, <1>6

\* What is made of a number or a name is a name.
LEMMA NamesAre ==
  /\ \A x \in Ids : /\ P(x) \in Names /\ ExecP(x) \in Names /\ BeginP(x) \in Names /\ EndP(x) \in Names
                    /\ CondP(x) \in Names /\ T(x) \in Names /\ T1(x) \in Names /\ T2(x) \in Names
                    /\ BeginT(x) \in Names /\ WakeT(x) \in Names /\ RelockT(x) \in Names
  /\ \A x \in Ids, i \in Nat : CallP(x, i) \in Names /\ CallT(x, i) \in Names /\ SignalP(x, i) \in Names
BY DEF Names, Tags2, Tags3, P, ExecP, BeginP, EndP, CondP, T, T1, T2, BeginT, WakeT, RelockT, CallP, CallT, SignalP

\* What a name is made of.
LEMMA NameParts ==
  ASSUME NEW p \in Names
  PROVE  p[1] \in Tags2 \cup Tags3 /\ p[2] \in Ids /\ (p[1] \in Tags3 => p[3] \in Nat)
BY DEF Names, Tags2, Tags3

\* The transitions of a statement.
LEMMA EnterNames ==
  ASSUME NEW x \in Ids
  PROVE  EnterT(x) \in Seq(Names)
BY NamesAre, Short DEF EnterT

\* The transitions of the statement or call of a place.
LEMMA EntersNames ==
  ASSUME NEW p \in Names
  PROVE  EntersT(p) \in Seq(Names)
<1>1. CASE p[1] = "callP"
  <2>1. p[2] \in Ids /\ p[3] \in Nat
    BY <1>1, NameParts DEF Tags3
  <2> QED BY <1>1, <2>1, NamesAre, Short DEF EntersT
<1>2. CASE p[1] # "callP"
  BY <1>2, NameParts, EnterNames DEF EntersT
<1> QED BY <1>1, <1>2

\* Flows between names are arcs without a mutex.
LEMMA FlowIs ==
  /\ \A p, q \in Names : Flow(p, q) \in FlowArcs
  /\ \A p, q \in Names, c \in Colours : Arc(p, q, c) \in FlowArcs
BY DEF Flow, Arc, FlowArcs, Colours

\* So are lists of flows into or out of one place.
LEMMA FlowAllIs ==
  ASSUME NEW from \in Seq(Names), NEW p \in Names
  PROVE  /\ FlowAll(from, p) \in Seq(FlowArcs)
         /\ [i \in DOMAIN from |-> Flow(p, from[i])] \in Seq(FlowArcs)
<1>1. Len(from) \in Nat /\ DOMAIN from = 1 .. Len(from) /\ \A i \in 1 .. Len(from) : from[i] \in Names
  BY LenProperties
<1>2. \A i \in 1 .. Len(from) : Flow(from[i], p) \in FlowArcs /\ Flow(p, from[i]) \in FlowArcs
  BY <1>1, FlowIs
<1>3. [i \in 1 .. Len(from) |-> Flow(from[i], p)] \in Seq(FlowArcs)
      /\ [i \in 1 .. Len(from) |-> Flow(p, from[i])] \in Seq(FlowArcs)
  BY <1>1, <1>2, SeqDef
<1> QED BY <1>1, <1>3 DEF FlowAll

\* Some of the statements in order.
LEMMA NodesInOrder ==
  ASSUME NEW A \in SUBSET Node
  PROVE  InOrder(A) \in Seq(A) /\ ToSet(InOrder(A)) = A
<1>1. IsFiniteSet(Node) /\ Node \subseteq Nat
  BY Statements, FS_Interval
<1>2. IsFiniteSet(A)
  BY <1>1, FS_Subset
<1> QED BY <1>1, <1>2, InOrderLists

\* The transitions of the jumps of a loop are names.
LEMMA JumpNames ==
  ASSUME NEW kind, NEW n
  PROVE  JumpsOf(kind, n) \in Seq(Names)
<1> DEFINE A == {j \in Node : Kind(j) = kind /\ Loop[j] = n}
           js == InOrder(A)
<1>1. JumpsOf(kind, n) = [i \in DOMAIN js |-> T(js[i])]
  BY DEF JumpsOf, NodesWhere
<1>2. js \in Seq(A)
  BY NodesInOrder
<1> HIDE DEF js
<1>3. Len(js) \in Nat /\ DOMAIN js = 1 .. Len(js) /\ \A i \in 1 .. Len(js) : js[i] \in Node
  BY <1>2, LenProperties
<1>4. \A i \in 1 .. Len(js) : T(js[i]) \in Names
  BY <1>3, NamesAre DEF Ids
<1>5. [i \in 1 .. Len(js) |-> T(js[i])] \in Seq(Names)
  BY <1>3, <1>4, SeqDef
<1> QED BY <1>1, <1>3, <1>5

-----------------------------------------------------------------------------
(* The ways out of a statement and the list of its calls. *)

\* The equation of ExitT.
Exits(f, D) == f = [n \in D |-> ExitOf(f, n)]

\* It asks for the ways out of children, which have greater numbers.
LEMMA ExitAsksKids ==
  ASSUME NEW n \in Node, NEW f, NEW g, \A k \in Node : k > n => f[k] = g[k]
  PROVE  ExitOf(f, n) = ExitOf(g, n)
<1>1. Kids(n) # <<>> => f[Last(Kids(n))] = g[Last(Kids(n))]
  BY Statements
<1>2. Kind(n) = "label" => f[Kids(n)[1]] = g[Kids(n)[1]]
  BY Statements
<1>3. Kind(n) = "if" => f[Kids(n)[1]] = g[Kids(n)[1]] /\ (Len(Kids(n)) = 2 => f[Kids(n)[2]] = g[Kids(n)[2]])
  BY Statements
<1> QED BY <1>1, <1>2, <1>3 DEF ExitOf, Nested

\* All ways out are lists of names.
LEMMA ExitIsNames ==
  ASSUME NEW n \in Node, NEW f, \A k \in Node : k > n => f[k] \in Seq(Names)
  PROVE  ExitOf(f, n) \in Seq(Names)
<1>0. n \in Ids
  BY DEF Ids
<1>1. Kids(n) # <<>> => f[Last(Kids(n))] \in Seq(Names)
  BY Statements
<1>2. Kind(n) = "label" => f[Kids(n)[1]] \in Seq(Names)
  BY Statements
<1>3. Kind(n) = "if" => f[Kids(n)[1]] \in Seq(Names) /\ (Len(Kids(n)) = 2 => f[Kids(n)[2]] \in Seq(Names))
  BY Statements
<1>4. <<>> \in Seq(Names) /\ <<RelockT(n)>> \in Seq(Names) /\ <<T2(n)>> \in Seq(Names) /\ <<T(n)>> \in Seq(Names)
  BY <1>0, NamesAre, Short
<1>5. Append(JumpsOf("break", n), T2(n)) \in Seq(Names)
  BY <1>0, NamesAre, JumpNames
<1>6. Kind(n) = "if" => f[Kids(n)[1]] \o (IF Len(Kids(n)) = 2 THEN f[Kids(n)[2]] ELSE <<T2(n)>>) \in Seq(Names)
  BY <1>3, <1>4
<1> QED BY <1>1, <1>2, <1>4, <1>5, <1>6 DEF ExitOf, Nested

From(k) == {n \in Node : n > Len(KindOf) - k}

\* They exist for the last statements, and so for all.
LEMMA ExitsExist ==
  ASSUME NEW k \in Nat
  PROVE  \E f : Exits(f, From(k))
<1> DEFINE K == {i \in Nat : \E f : Exits(f, From(i))}
<1>0. Len(KindOf) \in Nat /\ Node = 1 .. Len(KindOf)
  BY Statements
<1>1. 0 \in K
  <2>1. From(0) = {}
    BY <1>0 DEF From
  <2> DEFINE f == [n \in {} |-> <<>>]
  <2>2. f = [n \in {} |-> ExitOf(f, n)]
    OBVIOUS
  <2> HIDE DEF f
  <2> QED BY <2>1, <2>2 DEF Exits
<1>2. ASSUME NEW i \in Nat, i \in K PROVE i + 1 \in K
  <2>1. PICK f : Exits(f, From(i))
    BY <1>2
  <2> DEFINE c(n) == IF n \in From(i) THEN f[n] ELSE ExitOf(f, n)
             g == [n \in From(i + 1) |-> c(n)]
  <2>2. ASSUME NEW n \in From(i + 1) PROVE g[n] = ExitOf(g, n)
    <3>1. n \in Node /\ n > Len(KindOf) - (i + 1)
      BY DEF From
    <3>2. \A k1 \in Node : k1 > n => k1 \in From(i) /\ k1 \in From(i + 1)
      BY <1>0, <3>1 DEF From
    <3>3. \A k1 \in Node : k1 > n => f[k1] = g[k1]
      BY <3>2
    <3>4. ExitOf(f, n) = ExitOf(g, n)
      <4> HIDE DEF g
      <4> QED BY <3>1, <3>3, ExitAsksKids
    <3>5. n \in From(i) => f[n] = ExitOf(f, n)
      BY <2>1 DEF Exits
    <3>6. g[n] = ExitOf(f, n)
      BY <3>5
    <3> QED BY <3>4, <3>6
  <2>3. g = [n \in From(i + 1) |-> g[n]]
    <3> HIDE DEF c
    <3> QED OBVIOUS
  <2> HIDE DEF g
  <2> QED BY <2>2, <2>3 DEF Exits
<1> HIDE DEF K
<1>3. Nat \subseteq K
  BY <1>1, <1>2, Induction
<1> QED BY <1>3 DEF K

\* ExitT gives each statement a list of transitions.
LEMMA ExitNames == \A n \in Node : ExitT[n] \in Seq(Names)
<1>0. Len(KindOf) \in Nat /\ Node = 1 .. Len(KindOf)
  BY Statements
<1> DEFINE f == CHOOSE g : Exits(g, Node)
<1>1. ExitT = [n \in Node |-> f[n]]
  BY Zenon DEF ExitT, Exits
<1>2. Exits(f, Node)
  <2>1. From(Len(KindOf)) = Node
    BY <1>0 DEF From
  <2>2. \E g : Exits(g, Node)
    BY <2>1, <1>0, ExitsExist
  <2> QED BY <2>2
<1> HIDE DEF f
<1>3. \A n \in Node : f[n] = ExitOf(f, n)
  BY <1>2 DEF Exits
<1> DEFINE K == {i \in Nat : \A n \in From(i) : f[n] \in Seq(Names)}
<1>4. 0 \in K
  <2>1. From(0) = {}
    BY <1>0 DEF From
  <2> QED BY <2>1
<1>5. ASSUME NEW i \in Nat, i \in K PROVE i + 1 \in K
  <2> SUFFICES ASSUME NEW n \in From(i + 1) PROVE f[n] \in Seq(Names)
    OBVIOUS
  <2>1. n \in Node /\ n > Len(KindOf) - (i + 1)
    BY DEF From
  <2>2. \A k \in Node : k > n => k \in From(i)
    BY <1>0, <2>1 DEF From
  <2>3. \A k \in Node : k > n => f[k] \in Seq(Names)
    BY <2>2, <1>5
  <2> QED BY <2>1, <2>3, <1>3, ExitIsNames
<1> HIDE DEF K
<1>6. Nat \subseteq K
  BY <1>4, <1>5, Induction
<1>7. \A n \in Node : n \in From(Len(KindOf))
  BY <1>0 DEF From
<1> QED BY <1>0, <1>1, <1>6, <1>7 DEF K

\* So does FalseExitT each loop.
LEMMA FalseExitNames ==
  ASSUME NEW n \in Node, Kind(n) = "while"
  PROVE  FalseExitT(n) \in Seq(Names)
<1>1. Kids(n)[1] \in Node
  BY Statements
<1>2. ExitT[Kids(n)[1]] \in Seq(Names)
  BY <1>1, ExitNames
<1> QED BY <1>2, JumpNames DEF FalseExitT

\* The list of calls: a fold over the calls, without operators.
LEMMA CallListIs ==
  ASSUME NEW n \in Node
  PROVE  /\ CallList(n) \in Seq(DOMAIN Called(n))
         /\ Called(n) # <<>> => CallList(n) # <<>>
<1> DEFINE I == DOMAIN Called(n)
           G == Seq(I)
           idx == [i \in I |-> i]
           ch == [s \in SUBSET I |-> Max(s)]
           step == [xr \in I \X G |-> xr[2] \o Append(xr[2], idx[xr[1]])]
           Calls1(g) == g = [s \in SUBSET (DOMAIN idx) |->
                          IF s = {} THEN <<>> ELSE LET x == Max(s) IN g[s \ {x}] \o Append(g[s \ {x}], idx[x])]
           f == CHOOSE g : Calls1(g)
<1>1. Len(Called(n)) \in Nat /\ I = 1 .. Len(Called(n))
  BY Statements, LenProperties
<1>2. CallList(n) = f[DOMAIN idx]
  BY Zenon DEF CallList, FoldLeft, MapThenFoldSet
<1>3. IsFiniteSet(I)
  BY <1>1, FS_Interval
<1>4. \A s \in SUBSET I : s # {} => ch[s] = Max(s) /\ Max(s) \in I /\ ch[s] \in s
  <2> SUFFICES ASSUME NEW s \in SUBSET I, s # {} PROVE ch[s] = Max(s) /\ Max(s) \in I /\ ch[s] \in s
    OBVIOUS
  <2>1. Max(s) \in s
    BY <1>1, MaxIsThere
  <2> QED BY <2>1
<1>5. \A x \in I : idx[x] = x
  OBVIOUS
<1>6. \A x \in I, r \in G : r \o Append(r, x) \in G /\ r \o Append(r, x) # <<>>
  <2> TAKE x \in I, r \in G
  <2>1. Append(r, x) \in Seq(I) /\ Len(Append(r, x)) = Len(r) + 1 /\ Len(r) \in Nat
    BY AppendProperties, LenProperties
  <2>2. r \o Append(r, x) \in Seq(I) /\ Len(r \o Append(r, x)) = Len(r) + (Len(r) + 1)
    BY <2>1, ConcatProperties
  <2>3. Len(r \o Append(r, x)) # 0
    BY <2>1, <2>2
  <2> QED BY <2>2, <2>3
<1>7. \A x \in I, r \in G : step[<<x, r>>] = r \o Append(r, x)
  BY <1>5
<1>8. DOMAIN idx = I
  OBVIOUS
<1>9. <<>> \in G
  BY Short
<1>10. Picks(ch, I)
  BY <1>4 DEF Picks
<1> HIDE DEF step, ch, idx, G, I
<1>11. \E g : Calls1(g)
  <2>1. StaysIn(step, I, G)
    BY <1>6, <1>7 DEF StaysIn
  <2> DEFINE none == <<>>
  <2>a. none \in G
    BY <1>9
  <2> HIDE DEF none
  <2>2. PICK g : Folds(g, SUBSET I, none, ch, step) /\ \A s \in SUBSET I : g[s] \in G
    <3>1. FoldsInto(I, G, none, ch, step)
      BY <2>1, <2>a, <1>3, <1>10, FoldExists
    <3> QED BY <3>1 DEF FoldsInto
  <2>3. \A s \in SUBSET I : s # {} => s \ {Max(s)} \in SUBSET I
    OBVIOUS
  <2>4. \A s \in SUBSET I : s # {} => step[<<ch[s], g[s \ {ch[s]}]>>] = g[s \ {Max(s)}] \o Append(g[s \ {Max(s)}], idx[Max(s)])
    BY <2>2, <2>3, <1>4, <1>5, <1>7
  <2>5. g = [s \in SUBSET I |-> IF s = {} THEN <<>> ELSE g[s \ {Max(s)}] \o Append(g[s \ {Max(s)}], idx[Max(s)])]
    BY <2>2, <2>4 DEF Folds, none
  <2> QED BY <2>5, <1>8
<1>12. Calls1(f)
  BY <1>11
<1>13. f = [s \in SUBSET I |-> IF s = {} THEN <<>> ELSE f[s \ {Max(s)}] \o Append(f[s \ {Max(s)}], idx[Max(s)])]
  BY <1>8, <1>12
<1> HIDE DEF f, Calls1
<1> DEFINE K == {s \in SUBSET I : f[s] \in G /\ (s # {} => f[s] # <<>>)}
<1>14. {} \in K
  BY <1>13, <1>9
<1>15. ASSUME NEW s \in SUBSET I, s # {}, s \ {ch[s]} \in K PROVE s \in K
  <2>1. ch[s] = Max(s) /\ Max(s) \in I
    BY <1>4, <1>15
  <2>2. f[s] = f[s \ {Max(s)}] \o Append(f[s \ {Max(s)}], Max(s))
    BY <1>13, <1>15, <2>1, <1>5
  <2>3. f[s \ {Max(s)}] \in G
    BY <2>1, <1>15
  <2> QED BY <2>1, <2>2, <2>3, <1>6
<1> HIDE DEF K
<1>16. SUBSET I \subseteq K
  BY <1>3, <1>10, <1>14, <1>15, FoldInduction
<1>17. I \in K
  BY <1>16
<1>18. Called(n) # <<>> => I # {}
  <2>1. Called(n) \in Seq(Funcs)
    BY Statements
  <2>2. Called(n) # <<>> => Len(Called(n)) # 0
    BY <2>1, EmptySeq
  <2> QED BY <1>1, <2>2
<1>19. CallList(n) \in G /\ (I # {} => CallList(n) # <<>>)
  BY <1>2, <1>8, <1>17 DEF K
<1> QED BY <1>18, <1>19 DEF G, I

-----------------------------------------------------------------------------
(* The arcs of each construct. *)

\* A function on the numbers to n that gives sequences can be flattened.
LEMMA FlattenedArcs ==
  ASSUME NEW G, NEW n \in Nat, NEW s, s = [i \in 1 .. n |-> s[i]], \A i \in 1 .. n : s[i] \in Seq(G)
  PROVE  /\ FlattenSeq(s) \in Seq(G)
         /\ \A i \in 1 .. n : ToSet(s[i]) \subseteq ToSet(FlattenSeq(s))
<1>1. DOMAIN s = 1 .. n /\ s = [i \in DOMAIN s |-> s[i]]
  OBVIOUS
<1>2. FlattenSeq(s) \in Seq(G)
  BY <1>1, FlattenSeqOf
<1>3. ASSUME NEW i \in 1 .. n, NEW x \in ToSet(s[i]) PROVE x \in ToSet(FlattenSeq(s))
  BY <1>1, FlattenSeqHas
<1> QED BY <1>2, <1>3

\* The members of three sequences, one behind the other.
LEMMA Joined3 ==
  ASSUME NEW A, NEW s \in Seq(A), NEW t \in Seq(A), NEW u \in Seq(A)
  PROVE  s \o t \o u \in Seq(A) /\ ToSet(s \o t \o u) = ToSet(s) \cup ToSet(t) \cup ToSet(u)
<1> DEFINE st == s \o t
<1>1. st \in Seq(A) /\ ToSet(st) = ToSet(s) \cup ToSet(t)
  BY ToSetJoined
<1> HIDE DEF st
<1>2. st \o u \in Seq(A) /\ ToSet(st \o u) = ToSet(st) \cup ToSet(u)
  BY <1>1, ToSetJoined
<1> QED BY <1>1, <1>2 DEF st

\* A statement, its function and its operands may be part of a name.
LEMMA NodeIds == \A n \in Node : n \in Ids /\ Func[n] \in Ids /\ Arg(n) \in Ids /\ Arg(n)[1] \in Ids /\ Arg(n).fn \in Ids
BY DEF Ids

\* So may a function.
LEMMA FuncIds == \A f \in Funcs : f \in Ids
BY DEF Ids

\* One and two arcs.
LEMMA FlowList ==
  /\ \A p, q \in Names : <<Flow(p, q)>> \in Seq(FlowArcs)
  /\ \A p, q, u, v \in Names : <<Flow(p, q), Flow(u, v)>> \in Seq(FlowArcs)
  /\ <<>> \in Seq(FlowArcs)
BY FlowIs, Short

\* The calls of a statement.
LEMMA CallIs ==
  ASSUME NEW n \in Node
  PROVE  \A i \in DOMAIN CallList(n) : CallList(n)[i] \in Nat /\ Called(n)[CallList(n)[i]] \in Funcs
<1>1. Called(n) \in Seq(Funcs) /\ CallList(n) \in Seq(DOMAIN Called(n))
  BY Statements, CallListIs
<1>2. Len(Called(n)) \in Nat /\ DOMAIN Called(n) = 1 .. Len(Called(n))
  BY <1>1, LenProperties
<1>3. Len(CallList(n)) \in Nat /\ DOMAIN CallList(n) = 1 .. Len(CallList(n))
      /\ \A i \in 1 .. Len(CallList(n)) : CallList(n)[i] \in DOMAIN Called(n)
  BY <1>1, LenProperties
<1> QED BY <1>1, <1>2, <1>3

\* A statement is entered at a place that is no executed place.
LEMMA FirstNames ==
  ASSUME NEW n \in Node
  PROVE  FirstP(n) \in Names /\ ~IsExecuted(FirstP(n)) /\ FirstT(n) \in Seq(Names)
<1>1. CASE Called(n) = <<>>
  <2>1. FirstP(n) = P(n) /\ FirstT(n) = EnterT(n)
    BY <1>1 DEF FirstP, FirstT
  <2>2. ~IsExecuted(P(n))
    BY DEF P, IsExecuted
  <2> QED BY <2>1, <2>2, NodeIds, NamesAre, EnterNames
<1>2. CASE Called(n) # <<>>
  <2>1. CallList(n) \in Seq(DOMAIN Called(n)) /\ CallList(n) # <<>>
    BY <1>2, CallListIs
  <2>2. 1 \in DOMAIN CallList(n)
    BY <2>1, EndsOf
  <2>3. CallList(n)[1] \in Nat
    BY <2>2, CallIs
  <2>4. FirstP(n) = CallP(n, CallList(n)[1]) /\ FirstT(n) = <<CallT(n, CallList(n)[1])>>
    BY <1>2 DEF FirstP, FirstT
  <2>5. ~IsExecuted(CallP(n, CallList(n)[1]))
    BY DEF CallP, IsExecuted
  <2> QED BY <2>3, <2>4, <2>5, NodeIds, NamesAre, Short
<1> QED BY <1>1, <1>2

\* The arcs around an executed place have no mutex.
LEMMA ExecutedArcs ==
  ASSUME NEW n \in Node, NEW from \in Seq(Names), NEW to \in Seq(Names)
  PROVE  Add_executed_P(from, n, to) \in Seq(FlowArcs)
<1>1. ExecP(n) \in Names
  BY NodeIds, NamesAre
<1>2. FlowAll(from, ExecP(n)) \in Seq(FlowArcs) /\ [i \in DOMAIN to |-> Flow(ExecP(n), to[i])] \in Seq(FlowArcs)
  BY <1>1, FlowAllIs
<1> QED BY <1>2, FlowList DEF Add_executed_P

\* Nor have those that lead back to the head of a loop.
LEMMA IterArcs ==
  ASSUME NEW n \in Node, Kind(n) = "while", NEW hasExec \in BOOLEAN
  PROVE  iter_extra(n, hasExec) \in Seq(FlowArcs) /\ iter_extra_withoutdependence(n) \in Seq(FlowArcs)
<1>1. FalseExitT(n) \in Seq(Names)
  BY FalseExitNames
<1>2. ExecP(n) \in Names /\ P(n) \in Names /\ FirstP(n) \in Names
  BY NodeIds, NamesAre, FirstNames
<1>3. /\ FlowAll(FalseExitT(n), ExecP(n)) \in Seq(FlowArcs)
      /\ FlowAll(FalseExitT(n), P(n)) \in Seq(FlowArcs)
      /\ FlowAll(FalseExitT(n), FirstP(n)) \in Seq(FlowArcs)
  BY <1>1, <1>2, FlowAllIs
<1> QED BY <1>3, FlowList DEF iter_extra, iter_extra_withoutdependence

\* The transition that hands on the control token; the first statement of
\* a block gets it from the block.
LEMMA ControlName ==
  ASSUME NEW s \in Seq(Node), NEW i \in DOMAIN s, NEW blockT \in Names
  PROVE  ControlT(s, i, blockT) \in Names /\ (i = 1 => ControlT(s, i, blockT) = blockT)
<1> DEFINE held == {j \in 1..i-1 : /\ Kind(s[j]) = "lock"
                                   /\ \A k \in j+1..i : Kind(s[k]) \notin {"lock", "unlock"}}
<1>1. ControlT(s, i, blockT) = IF held = {} THEN blockT ELSE T(s[Max(held)])
  BY DEF ControlT
<1>2. Len(s) \in Nat /\ DOMAIN s = 1 .. Len(s)
  BY LenProperties
<1>3. i - 1 \in Nat /\ held \subseteq 1 .. i - 1
  BY <1>2
<1>4. i = 1 => held = {}
  BY <1>3
<1>5. held # {} => T(s[Max(held)]) \in Names
  <2> SUFFICES ASSUME held # {} PROVE T(s[Max(held)]) \in Names
    OBVIOUS
  <2> HIDE DEF held
  <2>1. Max(held) \in 1 .. i - 1
    BY <1>3, MaxIsThere
  <2>2. s[Max(held)] \in Node
    BY <2>1, <1>2, ElementOfSeq
  <2> QED BY <2>2, NodeIds, NamesAre
<1> HIDE DEF held
<1> QED BY <1>1, <1>4, <1>5

\* The way out of the statement before, or the block's own transition.
LEMMA BeforeNames ==
  ASSUME NEW s \in Seq(Node), NEW i \in DOMAIN s, NEW blockT \in Names
  PROVE  (IF i = 1 THEN <<blockT>> ELSE ExitT[s[i - 1]]) \in Seq(Names)
<1>1. Len(s) \in Nat /\ DOMAIN s = 1 .. Len(s)
  BY LenProperties
<1>2. i # 1 => s[i - 1] \in Node
  BY <1>1, ElementOfSeq
<1> QED BY <1>2, ExitNames, Short

\* The arcs of a block have no mutex, and lead from its transition to the
\* place and to the executed place of its first statement.
LEMMA BlockArcs ==
  ASSUME NEW s \in Seq(Node), NEW blockT \in Names
  PROVE  /\ inside_block(s, blockT) \in Seq(FlowArcs)
         /\ s # <<>> => /\ Flow(blockT, FirstP(s[1])) \in ToSet(inside_block(s, blockT))
                        /\ Flow(blockT, ExecP(s[1])) \in ToSet(inside_block(s, blockT))
<1> DEFINE last(i) == IF i = 1 THEN <<blockT>> ELSE ExitT[s[i - 1]]
           ctl(i) == IF last(i) = <<>> THEN <<>> ELSE <<Flow(ControlT(s, i, blockT), FirstP(s[i]))>>
           exe(i) == Add_executed_P(last(i), s[i], FirstT(s[i]))
           itr(i) == IF Kind(s[i]) = "while" THEN iter_extra(s[i], last(i) # <<>>) ELSE <<>>
           c(i) == ctl(i) \o exe(i) \o itr(i)
           f == [i \in DOMAIN s |-> c(i)]
<1>1. inside_block(s, blockT) = FlattenSeq(f)
  BY DEF inside_block
<1>2. Len(s) \in Nat /\ DOMAIN s = 1 .. Len(s)
  BY LenProperties
<1>3. ASSUME NEW i \in DOMAIN s
      PROVE  s[i] \in Node /\ ctl(i) \in Seq(FlowArcs) /\ exe(i) \in Seq(FlowArcs) /\ itr(i) \in Seq(FlowArcs)
  <2>1. s[i] \in Node
    BY <1>2, ElementOfSeq
  <2>2. last(i) \in Seq(Names)
    BY BeforeNames
  <2> HIDE DEF last
  <2>3. ctl(i) \in Seq(FlowArcs)
    BY <2>1, ControlName, FirstNames, FlowList
  <2>4. exe(i) \in Seq(FlowArcs)
    BY <2>1, <2>2, FirstNames, ExecutedArcs
  <2>5. itr(i) \in Seq(FlowArcs)
    BY <2>1, IterArcs, FlowList
  <2> QED BY <2>1, <2>3, <2>4, <2>5
<1>4. \A i \in DOMAIN s : f[i] = c(i)
  OBVIOUS
<1>5. f = [i \in 1 .. Len(s) |-> f[i]]
  <2> HIDE DEF c
  <2> QED BY <1>2
<1>6. \A i \in 1 .. Len(s) : f[i] \in Seq(FlowArcs)
  <2> HIDE DEF ctl, exe, itr
  <2> QED BY <1>2, <1>3, <1>4
<1>7. ASSUME s # <<>> PROVE Flow(blockT, FirstP(s[1])) \in ToSet(f[1]) /\ Flow(blockT, ExecP(s[1])) \in ToSet(f[1])
  <2>1. 1 \in DOMAIN s
    BY <1>7, EndsOf
  <2>2. last(1) = <<blockT>>
    OBVIOUS
  <2>3. ctl(1) = <<Flow(blockT, FirstP(s[1]))>>
    BY <2>1, <2>2, ControlName
  <2>4. exe(1) = FlowAll(<<blockT>>, ExecP(s[1])) \o [i \in DOMAIN FirstT(s[1]) |-> Flow(ExecP(s[1]), FirstT(s[1])[i])]
    BY <2>2 DEF Add_executed_P
  <2>5. FlowAll(<<blockT>>, ExecP(s[1])) = <<Flow(blockT, ExecP(s[1]))>>
    BY DEF FlowAll
  <2>6. Flow(blockT, FirstP(s[1])) \in ToSet(ctl(1))
    BY <2>3 DEF ToSet
  <2>7. Flow(blockT, ExecP(s[1])) \in ToSet(exe(1))
    <3>1. s[1] \in Node
      BY <2>1, <1>3
    <3>2. ExecP(s[1]) \in Names /\ FirstT(s[1]) \in Seq(Names) /\ <<blockT>> \in Seq(Names)
      BY <3>1, NodeIds, NamesAre, FirstNames, Short
    <3>3. FlowAll(<<blockT>>, ExecP(s[1])) \in Seq(FlowArcs)
          /\ [i \in DOMAIN FirstT(s[1]) |-> Flow(ExecP(s[1]), FirstT(s[1])[i])] \in Seq(FlowArcs)
      BY <3>2, FlowAllIs
    <3>4. Flow(blockT, ExecP(s[1])) \in ToSet(FlowAll(<<blockT>>, ExecP(s[1])))
      BY <2>5 DEF ToSet
    <3> DEFINE a == FlowAll(<<blockT>>, ExecP(s[1]))
               b == [i \in DOMAIN FirstT(s[1]) |-> Flow(ExecP(s[1]), FirstT(s[1])[i])]
    <3>5. ToSet(a \o b) = ToSet(a) \cup ToSet(b)
      <4> HIDE DEF a, b
      <4>1. a \in Seq(FlowArcs) /\ b \in Seq(FlowArcs)
        BY <3>3 DEF a, b
      <4> QED BY <4>1, ToSetJoined
    <3>6. exe(1) = a \o b
      BY <2>4
    <3> HIDE DEF a, b, exe
    <3> QED BY <3>4, <3>5, <3>6 DEF a
  <2>8. ToSet(f[1]) = ToSet(ctl(1)) \cup ToSet(exe(1)) \cup ToSet(itr(1))
    <3>1. ctl(1) \in Seq(FlowArcs) /\ exe(1) \in Seq(FlowArcs) /\ itr(1) \in Seq(FlowArcs) /\ f[1] = (ctl(1) \o exe(1)) \o itr(1)
      BY <2>1, <1>3, <1>4
    <3> HIDE DEF ctl, exe, itr, f
    <3> QED BY <3>1, Joined3
  <2> HIDE DEF ctl, exe, itr, f
  <2> QED BY <2>6, <2>7, <2>8
<1>8. s # <<>> => 1 \in 1 .. Len(s)
  BY EndsOf
<1> HIDE DEF f
<1>9. FlattenSeq(f) \in Seq(FlowArcs) /\ \A i \in 1 .. Len(s) : ToSet(f[i]) \subseteq ToSet(FlattenSeq(f))
  BY <1>2, <1>5, <1>6, FlattenedArcs
<1> QED BY <1>1, <1>7, <1>8, <1>9

\* So do those of the plain net, which has no executed places.
LEMMA PlainBlockArcs ==
  ASSUME NEW s \in Seq(Node), NEW blockT \in Names
  PROVE  /\ inside_block_withoutdependence(s, blockT) \in Seq(FlowArcs)
         /\ s # <<>> => Flow(blockT, FirstP(s[1])) \in ToSet(inside_block_withoutdependence(s, blockT))
<1> DEFINE last(i) == IF i = 1 THEN <<blockT>> ELSE ExitT[s[i - 1]]
           ctl(i) == FlowAll(last(i), FirstP(s[i]))
           itr(i) == IF Kind(s[i]) = "while" THEN iter_extra_withoutdependence(s[i]) ELSE <<>>
           c(i) == ctl(i) \o itr(i)
           f == [i \in DOMAIN s |-> c(i)]
<1>1. inside_block_withoutdependence(s, blockT) = FlattenSeq(f)
  BY DEF inside_block_withoutdependence
<1>2. Len(s) \in Nat /\ DOMAIN s = 1 .. Len(s)
  BY LenProperties
<1>3. ASSUME NEW i \in DOMAIN s
      PROVE  s[i] \in Node /\ ctl(i) \in Seq(FlowArcs) /\ itr(i) \in Seq(FlowArcs)
  <2>1. s[i] \in Node
    BY <1>2, ElementOfSeq
  <2>2. last(i) \in Seq(Names)
    BY BeforeNames
  <2> HIDE DEF last
  <2>3. ctl(i) \in Seq(FlowArcs)
    BY <2>1, <2>2, FirstNames, FlowAllIs
  <2>5. itr(i) \in Seq(FlowArcs)
    BY <2>1, IterArcs, FlowList
  <2> QED BY <2>1, <2>3, <2>5
<1>4. \A i \in DOMAIN s : f[i] = c(i)
  OBVIOUS
<1>5. f = [i \in 1 .. Len(s) |-> f[i]]
  <2> HIDE DEF c
  <2> QED BY <1>2
<1>6. \A i \in 1 .. Len(s) : f[i] \in Seq(FlowArcs)
  <2> HIDE DEF ctl, itr
  <2> QED BY <1>2, <1>3, <1>4
<1>7. ASSUME s # <<>> PROVE Flow(blockT, FirstP(s[1])) \in ToSet(f[1])
  <2>1. 1 \in DOMAIN s
    BY <1>7, EndsOf
  <2>3. ctl(1) = <<Flow(blockT, FirstP(s[1]))>>
    BY DEF FlowAll
  <2>6. Flow(blockT, FirstP(s[1])) \in ToSet(ctl(1))
    BY <2>3 DEF ToSet
  <2>8. ToSet(f[1]) = ToSet(ctl(1)) \cup ToSet(itr(1))
    <3>1. ctl(1) \in Seq(FlowArcs) /\ itr(1) \in Seq(FlowArcs) /\ f[1] = ctl(1) \o itr(1)
      BY <2>1, <1>3, <1>4
    <3> HIDE DEF ctl, itr, f
    <3> QED BY <3>1, ToSetJoined
  <2> HIDE DEF ctl, itr, f
  <2> QED BY <2>6, <2>8
<1>8. s # <<>> => 1 \in 1 .. Len(s)
  BY EndsOf
<1> HIDE DEF f
<1>9. FlattenSeq(f) \in Seq(FlowArcs) /\ \A i \in 1 .. Len(s) : ToSet(f[i]) \subseteq ToSet(FlattenSeq(f))
  BY <1>2, <1>5, <1>6, FlattenedArcs
<1> QED BY <1>1, <1>7, <1>8, <1>9

\* The way into a statement from one transition.
Branch1(t, k) == <<Flow(t, FirstP(k))>> \o Add_executed_P(<<t>>, k, FirstT(k))

\* It is made of arcs without a mutex.
LEMMA BranchArcs ==
  ASSUME NEW t \in Names, NEW k \in Node
  PROVE  Branch1(t, k) \in Seq(FlowArcs)
<1>1. FirstP(k) \in Names /\ FirstT(k) \in Seq(Names) /\ <<t>> \in Seq(Names)
  BY FirstNames, Short
<1>2. <<Flow(t, FirstP(k))>> \in Seq(FlowArcs)
  BY <1>1, FlowList
<1>3. Add_executed_P(<<t>>, k, FirstT(k)) \in Seq(FlowArcs)
  BY <1>1, ExecutedArcs
<1> DEFINE a == <<Flow(t, FirstP(k))>>
           b == Add_executed_P(<<t>>, k, FirstT(k))
<1> HIDE DEF a, b
<1>4. a \o b \in Seq(FlowArcs)
  BY <1>2, <1>3, ToSetJoined DEF a, b
<1> QED BY <1>4 DEF Branch1, a, b

\* The branches of an if or a loop are arcs without a mutex, in both translations.
LEMMA IterSelArcs ==
  ASSUME NEW n \in Node, Branches(n)
  PROVE  handle_iter_sel(n) \in Seq(FlowArcs) /\ handle_iter_sel_withoutdependence(n) \in Seq(FlowArcs)
<1>1. Kids(n)[1] \in Node /\ (Len(Kids(n)) = 2 => Kids(n)[2] \in Node)
  BY Statements DEF Branches
<1>2. T1(n) \in Names /\ T2(n) \in Names
  BY NodeIds, NamesAre
<1> DEFINE a == Branch1(T1(n), Kids(n)[1])
           b == Branch1(T2(n), Kids(n)[2])
<1>3. a \in Seq(FlowArcs) /\ (Len(Kids(n)) = 2 => b \in Seq(FlowArcs))
  BY <1>1, <1>2, BranchArcs
<1>4. handle_iter_sel(n) = a \o IF Len(Kids(n)) = 2 THEN b ELSE <<>>
  BY DEF handle_iter_sel, Branch1
<1>5. FirstP(Kids(n)[1]) \in Names /\ (Len(Kids(n)) = 2 => FirstP(Kids(n)[2]) \in Names)
  BY <1>1, FirstNames
<1> DEFINE u == <<Flow(T1(n), FirstP(Kids(n)[1]))>>
           v == <<Flow(T2(n), FirstP(Kids(n)[2]))>>
<1>6. u \in Seq(FlowArcs) /\ (Len(Kids(n)) = 2 => v \in Seq(FlowArcs))
  BY <1>2, <1>5, FlowList
<1>7. handle_iter_sel_withoutdependence(n) = u \o IF Len(Kids(n)) = 2 THEN v ELSE <<>>
  BY DEF handle_iter_sel_withoutdependence
<1>8. <<>> \in Seq(FlowArcs)
  BY FlowList
<1> HIDE DEF a, b, u, v
<1> QED BY <1>3, <1>4, <1>6, <1>7, <1>8

\* So is the way into the statement of a label.
LEMMA LabelArcs ==
  ASSUME NEW n \in Node, Kind(n) = "label"
  PROVE  handle_label(n) \in Seq(FlowArcs)
<1> DEFINE k == Kids(n)[1]
           a == <<Flow(T(n), P(k))>>
           b == Add_executed_P(<<T(n)>>, k, EnterT(k))
<1>1. k \in Node
  BY Statements
<1> HIDE DEF k
<1>2. T(n) \in Names /\ P(k) \in Names /\ EnterT(k) \in Seq(Names)
  BY <1>1, NodeIds, NamesAre, EnterNames
<1>3. <<T(n)>> \in Seq(Names)
  BY <1>2, Short
<1>4. a \in Seq(FlowArcs) /\ b \in Seq(FlowArcs)
  BY <1>1, <1>2, <1>3, FlowList, ExecutedArcs
<1>5. handle_label(n) = a \o b
  BY DEF handle_label, k
<1> HIDE DEF a, b
<1> QED BY <1>4, <1>5

\* The order of the calls of a statement is made of arcs without a mutex.
LEMMA OrganizeArcs ==
  ASSUME NEW n \in Node
  PROVE  organize_call(n) \in Seq(FlowArcs)
<1> DEFINE l      == CallList(n)
           end(i) == EndP(Called(n)[l[i]])
           step(i) == <<Flow(CallT(n, l[i]), CallP(n, l[i + 1])), Flow(end(i), CallT(n, l[i + 1]))>>
           f == [i \in 1..Len(l) - 1 |-> step(i)]
           a == FlattenSeq(f)
           b == <<Flow(CallT(n, Last(l)), P(n))>>
           c == [j \in DOMAIN EnterT(n) |-> Flow(end(Len(l)), EnterT(n)[j])]
<1>1. organize_call(n) = IF l = <<>> THEN <<>> ELSE a \o b \o c
  BY Zenon DEF organize_call
<1>2. CASE l = <<>>
  BY <1>1, <1>2, FlowList
<1>3. CASE l # <<>>
  <2>1. l \in Seq(DOMAIN Called(n))
    BY CallListIs
  <2>2. Len(l) \in Nat /\ Len(l) >= 1 /\ DOMAIN l = 1 .. Len(l)
    BY <2>1, <1>3, EndsOf
  <2>3. \A i \in 1 .. Len(l) : l[i] \in Nat /\ end(i) \in Names
    <3> TAKE i \in 1 .. Len(l)
    <3>1. l[i] \in Nat /\ Called(n)[l[i]] \in Funcs
      BY <2>2, CallIs
    <3> QED BY <3>1, FuncIds, NamesAre
  <2>4. n \in Ids
    BY NodeIds
  <2>5. Last(l) = l[Len(l)] /\ Len(l) \in 1 .. Len(l)
    BY <2>2 DEF Last
  <2>6. \A i \in 1 .. Len(l) : CallT(n, l[i]) \in Names /\ CallP(n, l[i]) \in Names
    BY <2>3, <2>4, NamesAre
  <2> HIDE DEF l, end
  <2>7. \A i \in 1 .. Len(l) - 1 : step(i) \in Seq(FlowArcs)
    <3> TAKE i \in 1 .. Len(l) - 1
    <3>1. i \in 1 .. Len(l) /\ i + 1 \in 1 .. Len(l)
      BY <2>2
    <3> QED BY <3>1, <2>3, <2>6, FlowList
  <2>8. Len(l) - 1 \in Nat
    BY <2>2
  <2>9. \A i \in 1 .. Len(l) - 1 : f[i] = step(i)
    OBVIOUS
  <2>10. f = [i \in 1 .. Len(l) - 1 |-> f[i]]
    <3> HIDE DEF step
    <3> QED OBVIOUS
  <2>11. a \in Seq(FlowArcs)
    <3>1. \A i \in 1 .. Len(l) - 1 : f[i] \in Seq(FlowArcs)
      BY <2>7, <2>9
    <3> HIDE DEF f
    <3> QED BY <2>8, <2>10, <3>1, FlattenedArcs
  <2>12. b \in Seq(FlowArcs)
    BY <2>4, <2>5, <2>6, NamesAre, FlowList
  <2>13. c \in Seq(FlowArcs)
    <3>1. end(Len(l)) \in Names /\ EnterT(n) \in Seq(Names)
      BY <2>3, <2>4, <2>5, EnterNames
    <3> QED BY <3>1, FlowAllIs
  <2> HIDE DEF a, b, c
  <2> QED BY <1>1, <1>3, <2>11, <2>12, <2>13, Joined3
<1> QED BY <1>2, <1>3

\* So are the calls.
LEMMA CallArcs ==
  ASSUME NEW n \in Node
  PROVE  handle_call(n) \in Seq(FlowArcs)
<1> DEFINE c(i) == <<Flow(CallP(n, i), CallT(n, i)), Flow(CallT(n, i), BeginP(Called(n)[i]))>>
           f == [i \in DOMAIN Called(n) |-> c(i)]
<1>1. handle_call(n) = FlattenSeq(f)
  BY DEF handle_call
<1>2. Called(n) \in Seq(Funcs) /\ Len(Called(n)) \in Nat /\ DOMAIN Called(n) = 1 .. Len(Called(n))
  BY Statements, LenProperties
<1>3. \A i \in 1 .. Len(Called(n)) : c(i) \in Seq(FlowArcs)
  <2> TAKE i \in 1 .. Len(Called(n))
  <2>1. Called(n)[i] \in Funcs /\ i \in Nat
    BY <1>2, ElementOfSeq
  <2>2. CallP(n, i) \in Names /\ CallT(n, i) \in Names /\ BeginP(Called(n)[i]) \in Names
    BY <2>1, NodeIds, FuncIds, NamesAre
  <2> QED BY <2>2, FlowList
<1>4. \A i \in 1 .. Len(Called(n)) : f[i] = c(i)
  BY <1>2
<1>5. f = [i \in 1 .. Len(Called(n)) |-> f[i]]
  <2> HIDE DEF c
  <2> QED BY <1>2
<1> HIDE DEF f, c
<1> QED BY <1>1, <1>2, <1>3, <1>4, <1>5, FlattenedArcs

\* The arcs of a thread's creation, join and exit have no mutex.
LEMMA ThreadsArcs ==
  ASSUME NEW n \in Node
  PROVE  ThreadArcs(n) \in Seq(FlowArcs)
<1>1. /\ T(n) \in Names /\ BeginP(Arg(n).fn) \in Names /\ EndP(Arg(n).fn) \in Names /\ EndP(Func[n]) \in Names
      /\ Arg(n).tid \in Colours
  BY NodeIds, NamesAre DEF Colours
<1>2. /\ Arc(T(n), BeginP(Arg(n).fn), Arg(n).tid) \in FlowArcs
      /\ Arc(EndP(Arg(n).fn), T(n), Arg(n).tid) \in FlowArcs
      /\ Flow(T(n), EndP(Func[n])) \in FlowArcs
  BY <1>1, FlowIs
<1>3. /\ <<Arc(T(n), BeginP(Arg(n).fn), Arg(n).tid)>> \in Seq(FlowArcs)
      /\ <<Arc(EndP(Arg(n).fn), T(n), Arg(n).tid)>> \in Seq(FlowArcs)
      /\ <<Flow(T(n), EndP(Func[n]))>> \in Seq(FlowArcs)
  BY <1>2, Short
<1> QED BY <1>3, FlowList DEF ThreadArcs

\* A return leads to the end of its function, without a mutex.
LEMMA JumpArcs ==
  ASSUME NEW n \in Node
  PROVE  handle_jump_statement(n) \in Seq(FlowArcs)
BY NodeIds, NamesAre, FlowList DEF handle_jump_statement

\* So does the place of a statement to its transitions.
LEMMA VisitArcs ==
  ASSUME NEW n \in Node
  PROVE  visit_statement(n) \in Seq(FlowArcs)
<1>1. P(n) \in Names /\ EnterT(n) \in Seq(Names)
  BY NodeIds, NamesAre, EnterNames
<1> QED BY <1>1, FlowAllIs DEF visit_statement

\* The arcs of the mutexes of one statement.
LockArcsOf(n) ==
  {a \in LockArcs : \/ Kind(n) \in {"init", "unlock"} /\ a = Arc(T(n), MutexP(Arg(n)), Dot)
                    \/ Kind(n) = "lock" /\ a = Arc(MutexP(Arg(n)), T(n), Dot)
                    \/ Kind(n) = "wait" /\ a = Arc(T(n), MutexP(Arg(n)[2]), Dot)
                    \/ Kind(n) = "wait" /\ a = Arc(MutexP(Arg(n)[2]), RelockT(n), Dot)}

\* Each is that of a statement.
LEMMA LockArcsAre ==
  ASSUME NEW a \in LockArcs
  PROVE  \E n \in Node : a \in LockArcsOf(n)
BY DEF LockArcs, LockArcsOf

\* The first drawn for a statement are those of its mutex.
LEMMA MutexArcsAre ==
  ASSUME NEW n \in Node
  PROVE  MutexArcs(n) \in Seq(AnyArc) /\ (Kind(n) # "wait" => LockArcsOf(n) \subseteq ToSet(MutexArcs(n)))
<1>1. Kind(n) \in {"init", "unlock"} => Arc(T(n), MutexP(Arg(n)), Dot) \in AnyArc
  BY DEF AnyArc, LockArcs
<1>2. Kind(n) = "lock" => Arc(MutexP(Arg(n)), T(n), Dot) \in AnyArc
  BY DEF AnyArc, LockArcs
<1>3. MutexArcs(n) \in Seq(AnyArc)
  BY <1>1, <1>2, Short DEF MutexArcs
<1>4. ASSUME NEW a \in LockArcsOf(n), Kind(n) # "wait" PROVE a \in ToSet(MutexArcs(n))
  <2>1. MutexArcs(n) = <<a>>
    BY <1>4 DEF MutexArcs, LockArcsOf
  <2> QED BY <2>1 DEF ToSet
<1> QED BY <1>3, <1>4

\* Those of a wait come with the condition.
LEMMA CondArcsAre ==
  ASSUME NEW n \in Node
  PROVE  CondArcs(n) \in Seq(AnyArc) /\ (Kind(n) = "wait" => LockArcsOf(n) \subseteq ToSet(CondArcs(n)))
<1>0. FlowArcs \subseteq AnyArc
  BY DEF AnyArc
<1>1. CASE Kind(n) = "signal"
  <2>1. T(n) \in Names /\ CondP(Arg(n)) \in Names /\ Dot \in Colours
    BY NodeIds, NamesAre DEF Colours
  <2>2. Arc(T(n), CondP(Arg(n)), Dot) \in AnyArc
    BY <2>1, <1>0, FlowIs
  <2> QED BY <1>1, <2>2, Short DEF CondArcs
<1>2. CASE Kind(n) = "wait"
  <2> DEFINE c == CondP(Arg(n)[1])
             m == MutexP(Arg(n)[2])
             a1 == Arc(T(n), m, Dot)
             a2 == Flow(T(n), SignalP(n, 1))
             a3 == Flow(T(n), SignalP(n, 3))
             a4 == Arc(c, WakeT(n), Dot)
             a5 == Flow(SignalP(n, 1), WakeT(n))
             a6 == Flow(WakeT(n), SignalP(n, 2))
             a7 == Arc(m, RelockT(n), Dot)
             a8 == Flow(SignalP(n, 2), RelockT(n))
             a9 == Flow(SignalP(n, 3), RelockT(n))
  <2>1. CondArcs(n) = <<a1, a2, a3, a4, a5, a6, a7, a8, a9>>
    BY <1>2 DEF CondArcs
  <2>2. /\ T(n) \in Names /\ c \in Names /\ WakeT(n) \in Names /\ RelockT(n) \in Names /\ Dot \in Colours
        /\ SignalP(n, 1) \in Names /\ SignalP(n, 2) \in Names /\ SignalP(n, 3) \in Names
    BY NodeIds, NamesAre DEF Colours
  <2>3. a1 \in AnyArc /\ a7 \in AnyArc
    BY <1>2 DEF AnyArc, LockArcs
  <2>4. a2 \in AnyArc /\ a3 \in AnyArc /\ a4 \in AnyArc /\ a5 \in AnyArc /\ a6 \in AnyArc
    BY <2>2, <1>0, FlowIs
  <2>5. a8 \in AnyArc /\ a9 \in AnyArc
    BY <2>2, <1>0, FlowIs
  <2>6. LockArcsOf(n) \subseteq {a1, a7}
    BY <1>2 DEF LockArcsOf
  <2> HIDE DEF a1, a2, a3, a4, a5, a6, a7, a8, a9
  <2>7. CondArcs(n) \in Seq(AnyArc)
    BY <2>1, <2>3, <2>4, <2>5
  <2>8. a1 \in ToSet(CondArcs(n)) /\ a7 \in ToSet(CondArcs(n))
    <3>1. DOMAIN CondArcs(n) = 1 .. 9 /\ CondArcs(n)[1] = a1 /\ CondArcs(n)[7] = a7
      BY <2>1
    <3>2. 1 \in 1 .. 9 /\ 7 \in 1 .. 9
      OBVIOUS
    <3> QED BY <3>1, <3>2 DEF ToSet
  <2> QED BY <2>6, <2>7, <2>8
<1>3. CASE Kind(n) \notin {"signal", "wait"}
  BY <1>3, Short DEF CondArcs
<1> QED BY <1>1, <1>2, <1>3

\* Lists of arcs without a mutex are lists of arcs.
LEMMA FlowsAreArcs ==
  ASSUME NEW s \in Seq(FlowArcs)
  PROVE  s \in Seq(AnyArc)
<1>1. Len(s) \in Nat /\ DOMAIN s = 1 .. Len(s) /\ \A i \in 1 .. Len(s) : s[i] \in FlowArcs
  BY LenProperties
<1>2. \A i \in 1 .. Len(s) : s[i] \in AnyArc
  BY <1>1 DEF AnyArc
<1>3. s = [i \in 1 .. Len(s) |-> s[i]]
  BY <1>1
<1> QED BY <1>1, <1>2, <1>3, SeqDef

\* Six lists of arcs in a row.
LEMMA Joined6 ==
  ASSUME NEW A, NEW s \in Seq(A), NEW t \in Seq(A), NEW u \in Seq(A), NEW v \in Seq(A),
         NEW x \in Seq(A), NEW y \in Seq(A)
  PROVE  /\ s \o t \o u \o v \o x \o y \in Seq(A)
         /\ ToSet(t) \cup ToSet(u) \cup ToSet(v) \cup ToSet(x) \subseteq ToSet(s \o t \o u \o v \o x \o y)
<1> DEFINE a == s \o t \o u
           b == a \o v \o x
           c == b \o y
<1>1. a \in Seq(A) /\ ToSet(t) \cup ToSet(u) \subseteq ToSet(a)
  BY Joined3
<1> HIDE DEF a
<1>2. b \in Seq(A) /\ ToSet(b) = ToSet(a) \cup ToSet(v) \cup ToSet(x)
  BY <1>1, Joined3
<1> HIDE DEF b
<1>3. c \in Seq(A) /\ ToSet(c) = ToSet(b) \cup ToSet(y)
  BY <1>2, ToSetJoined
<1> QED BY <1>1, <1>2, <1>3 DEF a, b, c

\* What the default translation draws for the control flow of a statement.
ControlArcs(n) ==
  CASE Kind(n) = "block" -> inside_block(Kids(n), T(n))
    [] Branches(n)       -> handle_iter_sel(n)
    [] Kind(n) = "label" -> handle_label(n)
    [] OTHER             -> handle_jump_statement(n)

\* What the plain one draws.
PlainControlArcs(n) ==
  CASE Kind(n) = "block" -> inside_block_withoutdependence(Kids(n), T(n))
    [] Branches(n)       -> handle_iter_sel_withoutdependence(n)
    [] Kind(n) = "label" -> handle_label(n)
    [] OTHER             -> handle_jump_statement_withoutdependence(n)

\* The arcs of a statement that a block removed later must find: into its
\* first statement's place and, by default, executed place.
IntoFirst(n)  == Flow(T(n), FirstP(Kids(n)[1]))
AfterBlock(n) == Flow(T(n), ExecP(Kids(n)[1]))

\* Both are lists of arcs, and a nested block has the arcs to its first statement.
LEMMA ControlArcsAre ==
  ASSUME NEW n \in Node
  PROVE  /\ ControlArcs(n) \in Seq(AnyArc) /\ PlainControlArcs(n) \in Seq(AnyArc)
         /\ Nested(n) => /\ {IntoFirst(n), AfterBlock(n)} \subseteq ToSet(ControlArcs(n))
                         /\ IntoFirst(n) \in ToSet(PlainControlArcs(n))
<1>1. Kids(n) \in Seq(Node) /\ T(n) \in Names
  BY Statements, NodeIds, NamesAre
<1>2. CASE Kind(n) = "block"
  <2>0. Kind(n) # "label" /\ ~Branches(n)
    BY <1>2 DEF Branches
  <2>1. ControlArcs(n) = inside_block(Kids(n), T(n))
    BY <1>2, <2>0 DEF ControlArcs
  <2>2. PlainControlArcs(n) = inside_block_withoutdependence(Kids(n), T(n))
    BY <1>2, <2>0 DEF PlainControlArcs
  <2> DEFINE s == Kids(n)
             t == T(n)
  <2>a. s \in Seq(Node) /\ t \in Names
    BY <1>1
  <2>b. /\ inside_block(s, t) \in Seq(FlowArcs)
        /\ s # <<>> => /\ Flow(t, FirstP(s[1])) \in ToSet(inside_block(s, t))
                       /\ Flow(t, ExecP(s[1])) \in ToSet(inside_block(s, t))
    <3> HIDE DEF s, t
    <3> QED BY <2>a, BlockArcs
  <2>c. /\ inside_block_withoutdependence(s, t) \in Seq(FlowArcs)
        /\ s # <<>> => Flow(t, FirstP(s[1])) \in ToSet(inside_block_withoutdependence(s, t))
    <3> HIDE DEF s, t
    <3> QED BY <2>a, PlainBlockArcs
  <2>3. ControlArcs(n) \in Seq(FlowArcs) /\ PlainControlArcs(n) \in Seq(FlowArcs)
    BY <2>1, <2>2, <2>b, <2>c
  <2>4. Nested(n) => /\ {IntoFirst(n), AfterBlock(n)} \subseteq ToSet(ControlArcs(n))
                     /\ IntoFirst(n) \in ToSet(PlainControlArcs(n))
    BY <2>1, <2>2, <2>b, <2>c DEF Nested, IntoFirst, AfterBlock
  <2> QED BY <2>3, <2>4, FlowsAreArcs
<1>3. CASE Branches(n)
  <2>1. Kind(n) # "block" /\ Kind(n) # "label"
    BY <1>3 DEF Branches
  <2>2. ControlArcs(n) = handle_iter_sel(n) /\ PlainControlArcs(n) = handle_iter_sel_withoutdependence(n)
    BY <2>1, <1>3 DEF ControlArcs, PlainControlArcs
  <2> QED BY <2>1, <2>2, <1>3, IterSelArcs, FlowsAreArcs DEF Nested
<1>4. CASE Kind(n) = "label"
  <2>1. Kind(n) # "block" /\ ~Branches(n)
    BY <1>4 DEF Branches
  <2>2. ControlArcs(n) = handle_label(n) /\ PlainControlArcs(n) = handle_label(n)
    BY <2>1, <1>4 DEF ControlArcs, PlainControlArcs
  <2> QED BY <2>1, <2>2, <1>4, LabelArcs, FlowsAreArcs DEF Nested
<1>5. CASE Kind(n) \notin {"block", "label"} /\ ~Branches(n)
  <2>1. ControlArcs(n) = handle_jump_statement(n) /\ PlainControlArcs(n) = handle_jump_statement(n)
    BY <1>5 DEF ControlArcs, PlainControlArcs, handle_jump_statement_withoutdependence
  <2> QED BY <2>1, <1>5, JumpArcs, FlowsAreArcs DEF Nested
<1> QED BY <1>2, <1>3, <1>4, <1>5

\* All arcs of a statement: those of its mutex and of its control flow are among them.
LEMMA TraverseArcs ==
  ASSUME NEW n \in Node
  PROVE  /\ Traverse_ST2(n) \in Seq(AnyArc)
         /\ LockArcsOf(n) \cup ToSet(ControlArcs(n)) \subseteq ToSet(Traverse_ST2(n))
         /\ Traverse_ST2_withoutdependence(n) \in Seq(AnyArc)
         /\ LockArcsOf(n) \cup ToSet(PlainControlArcs(n)) \subseteq ToSet(Traverse_ST2_withoutdependence(n))
<1> DEFINE s == handle_call(n)
           t == ThreadArcs(n)
           u == MutexArcs(n)
           v == CondArcs(n)
           x == ControlArcs(n)
           w == PlainControlArcs(n)
           y == organize_call(n)
<1>1. s \in Seq(AnyArc) /\ t \in Seq(AnyArc) /\ y \in Seq(AnyArc)
  BY CallArcs, ThreadsArcs, OrganizeArcs, FlowsAreArcs
<1>2. u \in Seq(AnyArc) /\ v \in Seq(AnyArc) /\ x \in Seq(AnyArc) /\ w \in Seq(AnyArc)
  BY MutexArcsAre, CondArcsAre, ControlArcsAre
<1>3. Traverse_ST2(n) = s \o t \o u \o v \o x \o y
  BY Zenon DEF Traverse_ST2, ControlArcs
<1>4. Traverse_ST2_withoutdependence(n) = s \o t \o u \o v \o w \o y
  BY Zenon DEF Traverse_ST2_withoutdependence, PlainControlArcs, organize_call_withoutdependence,
     handle_call_withoutdependence, ThreadArcs_withoutdependence, MutexArcs_withoutdependence,
     CondArcs_withoutdependence
<1>5. LockArcsOf(n) \subseteq ToSet(u) \cup ToSet(v)
  BY MutexArcsAre, CondArcsAre
<1> HIDE DEF s, t, u, v, w, x, y
<1>6. /\ s \o t \o u \o v \o x \o y \in Seq(AnyArc)
      /\ ToSet(t) \cup ToSet(u) \cup ToSet(v) \cup ToSet(x) \subseteq ToSet(s \o t \o u \o v \o x \o y)
  BY <1>1, <1>2, Joined6
<1>7. /\ s \o t \o u \o v \o w \o y \in Seq(AnyArc)
      /\ ToSet(t) \cup ToSet(u) \cup ToSet(v) \cup ToSet(w) \subseteq ToSet(s \o t \o u \o v \o w \o y)
  BY <1>1, <1>2, Joined6
<1>8. ToSet(ControlArcs(n)) = ToSet(x) /\ ToSet(PlainControlArcs(n)) = ToSet(w)
  BY DEF x, w
<1> QED BY <1>3, <1>4, <1>5, <1>6, <1>7, <1>8

\* The arcs of a function: its begin, its body and its end.
LEMMA FunctionArcs ==
  ASSUME NEW g \in Funcs
  PROVE  /\ visit_function(g) \in Seq(AnyArc) /\ handle_func(g) \in Seq(AnyArc)
         /\ handle_compound(g) \in Seq(AnyArc) /\ handle_compound_withoutdependence(g) \in Seq(AnyArc)
<1>1. Body[g] \in Seq(Node) /\ BeginT(g) \in Names /\ BeginP(g) \in Names /\ EndP(g) \in Names
  BY ProgramAssumption, FuncIds, NamesAre
<1>2. visit_function(g) \in Seq(FlowArcs)
  BY <1>1, FlowList DEF visit_function
<1>3. handle_compound(g) \in Seq(FlowArcs) /\ handle_compound_withoutdependence(g) \in Seq(FlowArcs)
  BY <1>1, BlockArcs, PlainBlockArcs DEF handle_compound, handle_compound_withoutdependence
<1>4. handle_func(g) \in Seq(FlowArcs)
  <2> DEFINE ends == IF Body[g] = <<>> THEN <<BeginT(g)>>
                     ELSE IF \E i \in DOMAIN Body[g] : Kind(Body[g][i]) = "return" THEN <<>>
                     ELSE ExitT[Last(Body[g])]
  <2>1. handle_func(g) = FlowAll(ends, EndP(g))
    BY DEF handle_func
  <2>2. Body[g] # <<>> => ExitT[Last(Body[g])] \in Seq(Names)
    BY <1>1, EndsOf, ExitNames
  <2>3. ends \in Seq(Names)
    BY <1>1, <2>2, Short
  <2> HIDE DEF ends
  <2> QED BY <1>1, <2>1, <2>3, FlowAllIs
<1> QED BY <1>2, <1>3, <1>4, FlowsAreArcs

\* The result of a fold is in G when the base is and every step stays in G.
LEMMA FoldEnds ==
  ASSUME NEW A, IsFiniteSet(A), NEW ch, Picks(ch, A), NEW G, NEW f, f[{}] \in G,
         \A s \in SUBSET A : s # {} /\ f[s \ {ch[s]}] \in G => f[s] \in G
  PROVE  f[A] \in G
<1> DEFINE K == {s \in SUBSET A : f[s] \in G}
<1>1. {} \in K /\ \A s \in SUBSET A : s # {} /\ s \ {ch[s]} \in K => s \in K
  OBVIOUS
<1> HIDE DEF K
<1>2. SUBSET A \subseteq K
  BY <1>1, FoldInduction
<1> QED BY <1>2 DEF K

-----------------------------------------------------------------------------
(* The arcs that are built. *)

FunctionsArcs ==
  FoldSet(LAMBDA f, arcs : arcs \o visit_function(f) \o handle_compound(f) \o handle_func(f),
          <<>>, Funcs)

PlainFunctionsArcs ==
  FoldSet(LAMBDA f, arcs : arcs \o visit_function(f) \o handle_compound_withoutdependence(f)
                                \o handle_func(f),
          <<>>, Funcs)

\* What the body of function x adds to the list r of arcs.
WithFunction(r, x) == r \o visit_function(x) \o handle_compound(x) \o handle_func(x)
WithFunctionPlain(r, x) ==
  r \o visit_function(x) \o handle_compound_withoutdependence(x) \o handle_func(x)

\* The arcs of the functions, by default.
LEMMA FunctionsArcsAre == FunctionsArcs \in Seq(AnyArc)
<1> DEFINE G == Seq(AnyArc)
           ch == [s \in SUBSET Funcs |-> CHOOSE x \in s : TRUE]
           step == [xr \in Funcs \X G |-> WithFunction(xr[2], xr[1])]
           Eq(g) == g = [s \in SUBSET Funcs |->
                          IF s = {} THEN <<>> ELSE LET x == CHOOSE x \in s : TRUE IN WithFunction(g[s \ {x}], x)]
           f == CHOOSE g : Eq(g)
           none == <<>>
<1>1. FunctionsArcs = f[Funcs]
  BY Zenon DEF FunctionsArcs, FoldSet, MapThenFoldSet, WithFunction
<1>2. IsFiniteSet(Funcs)
  BY ProgramAssumption
<1>3. \A s \in SUBSET Funcs : s # {} => ch[s] = (CHOOSE x \in s : TRUE) /\ ch[s] \in s /\ ch[s] \in Funcs
  OBVIOUS
<1>4. \A x \in Funcs, r \in G : WithFunction(r, x) \in G
  <2> TAKE x \in Funcs, r \in G
  <2> DEFINE a == visit_function(x)
             b == handle_compound(x)
             c == handle_func(x)
  <2>1. a \in Seq(AnyArc) /\ b \in Seq(AnyArc) /\ c \in Seq(AnyArc)
    BY FunctionArcs
  <2>2. WithFunction(r, x) = r \o a \o b \o c
    BY DEF WithFunction
  <2> HIDE DEF a, b, c
  <2> QED BY <2>1, <2>2
<1>5. Picks(ch, Funcs)
  BY <1>3 DEF Picks
<1>6. none \in G
  BY Short
<1>7. \A x \in Funcs, r \in G : step[<<x, r>>] = WithFunction(r, x)
  OBVIOUS
<1> HIDE DEF step, ch, G, none
<1>8. \E g : Eq(g)
  <2>1. StaysIn(step, Funcs, G)
    BY <1>4, <1>7 DEF StaysIn
  <2>2. PICK g : Folds(g, SUBSET Funcs, none, ch, step) /\ \A s \in SUBSET Funcs : g[s] \in G
    <3>1. FoldsInto(Funcs, G, none, ch, step)
      BY <2>1, <1>2, <1>5, <1>6, FoldExists
    <3> QED BY <3>1 DEF FoldsInto
  <2>3. \A s \in SUBSET Funcs : s # {} => s \ {ch[s]} \in SUBSET Funcs
    OBVIOUS
  <2>4. \A s \in SUBSET Funcs : s # {} => step[<<ch[s], g[s \ {ch[s]}]>>] = WithFunction(g[s \ {ch[s]}], ch[s])
    BY <2>2, <2>3, <1>3, <1>7
  <2>5. \A s \in SUBSET Funcs :
          g[s] = IF s = {} THEN <<>> ELSE LET x == CHOOSE x \in s : TRUE IN WithFunction(g[s \ {x}], x)
    BY <2>2, <2>4, <1>3 DEF Folds, none
  <2>6. g = [s \in SUBSET Funcs |-> g[s]]
    BY <2>2 DEF Folds
  <2> QED BY <2>5, <2>6
<1>9. Eq(f)
  BY <1>8
<1>10. f[{}] \in G
  BY <1>9, <1>6 DEF none
<1>11. ASSUME NEW s \in SUBSET Funcs, s # {}, f[s \ {ch[s]}] \in G PROVE f[s] \in G
  <2>1. f[s] = WithFunction(f[s \ {ch[s]}], ch[s])
    BY <1>9, <1>3, <1>11
  <2> QED BY <2>1, <1>3, <1>4, <1>11
<1> HIDE DEF f
<1>12. f[Funcs] \in G
  BY <1>2, <1>5, <1>10, <1>11, FoldEnds
<1> QED BY <1>1, <1>12 DEF G
\* The arcs of the functions, in the plain net.
LEMMA PlainFunctionsArcsAre == PlainFunctionsArcs \in Seq(AnyArc)
<1> DEFINE G == Seq(AnyArc)
           ch == [s \in SUBSET Funcs |-> CHOOSE x \in s : TRUE]
           step == [xr \in Funcs \X G |-> WithFunctionPlain(xr[2], xr[1])]
           Eq(g) == g = [s \in SUBSET Funcs |->
                          IF s = {} THEN <<>> ELSE LET x == CHOOSE x \in s : TRUE IN WithFunctionPlain(g[s \ {x}], x)]
           f == CHOOSE g : Eq(g)
           none == <<>>
<1>1. PlainFunctionsArcs = f[Funcs]
  BY Zenon DEF PlainFunctionsArcs, FoldSet, MapThenFoldSet, WithFunctionPlain
<1>2. IsFiniteSet(Funcs)
  BY ProgramAssumption
<1>3. \A s \in SUBSET Funcs : s # {} => ch[s] = (CHOOSE x \in s : TRUE) /\ ch[s] \in s /\ ch[s] \in Funcs
  OBVIOUS
<1>4. \A x \in Funcs, r \in G : WithFunctionPlain(r, x) \in G
  <2> TAKE x \in Funcs, r \in G
  <2> DEFINE a == visit_function(x)
             b == handle_compound_withoutdependence(x)
             c == handle_func(x)
  <2>1. a \in Seq(AnyArc) /\ b \in Seq(AnyArc) /\ c \in Seq(AnyArc)
    BY FunctionArcs
  <2>2. WithFunctionPlain(r, x) = r \o a \o b \o c
    BY DEF WithFunctionPlain
  <2> HIDE DEF a, b, c
  <2> QED BY <2>1, <2>2
<1>5. Picks(ch, Funcs)
  BY <1>3 DEF Picks
<1>6. none \in G
  BY Short
<1>7. \A x \in Funcs, r \in G : step[<<x, r>>] = WithFunctionPlain(r, x)
  OBVIOUS
<1> HIDE DEF step, ch, G, none
<1>8. \E g : Eq(g)
  <2>1. StaysIn(step, Funcs, G)
    BY <1>4, <1>7 DEF StaysIn
  <2>2. PICK g : Folds(g, SUBSET Funcs, none, ch, step) /\ \A s \in SUBSET Funcs : g[s] \in G
    <3>1. FoldsInto(Funcs, G, none, ch, step)
      BY <2>1, <1>2, <1>5, <1>6, FoldExists
    <3> QED BY <3>1 DEF FoldsInto
  <2>3. \A s \in SUBSET Funcs : s # {} => s \ {ch[s]} \in SUBSET Funcs
    OBVIOUS
  <2>4. \A s \in SUBSET Funcs : s # {} => step[<<ch[s], g[s \ {ch[s]}]>>] = WithFunctionPlain(g[s \ {ch[s]}], ch[s])
    BY <2>2, <2>3, <1>3, <1>7
  <2>5. \A s \in SUBSET Funcs :
          g[s] = IF s = {} THEN <<>> ELSE LET x == CHOOSE x \in s : TRUE IN WithFunctionPlain(g[s \ {x}], x)
    BY <2>2, <2>4, <1>3 DEF Folds, none
  <2>6. g = [s \in SUBSET Funcs |-> g[s]]
    BY <2>2 DEF Folds
  <2> QED BY <2>5, <2>6
<1>9. Eq(f)
  BY <1>8
<1>10. f[{}] \in G
  BY <1>9, <1>6 DEF none
<1>11. ASSUME NEW s \in SUBSET Funcs, s # {}, f[s \ {ch[s]}] \in G PROVE f[s] \in G
  <2>1. f[s] = WithFunctionPlain(f[s \ {ch[s]}], ch[s])
    BY <1>9, <1>3, <1>11
  <2> QED BY <2>1, <1>3, <1>4, <1>11
<1> HIDE DEF f
<1>12. f[Funcs] \in G
  BY <1>2, <1>5, <1>10, <1>11, FoldEnds
<1> QED BY <1>1, <1>12 DEF G

-----------------------------------------------------------------------------
(* The lists of all arcs. *)

StatementArcs(n)      == visit_statement(n) \o Traverse_ST2(n)
PlainStatementArcs(n) == visit_statement(n) \o Traverse_ST2_withoutdependence(n)

\* The arcs of a statement.
LEMMA StatementArcsAre ==
  ASSUME NEW n \in Node
  PROVE  /\ StatementArcs(n) \in Seq(AnyArc) /\ PlainStatementArcs(n) \in Seq(AnyArc)
         /\ LockArcsOf(n) \cup ToSet(ControlArcs(n)) \subseteq ToSet(StatementArcs(n))
         /\ LockArcsOf(n) \cup ToSet(PlainControlArcs(n)) \subseteq ToSet(PlainStatementArcs(n))
<1> DEFINE v == visit_statement(n)
           a == Traverse_ST2(n)
           b == Traverse_ST2_withoutdependence(n)
<1>1. v \in Seq(AnyArc)
  BY VisitArcs, FlowsAreArcs
<1>2. /\ a \in Seq(AnyArc) /\ b \in Seq(AnyArc)
      /\ LockArcsOf(n) \cup ToSet(ControlArcs(n)) \subseteq ToSet(a)
      /\ LockArcsOf(n) \cup ToSet(PlainControlArcs(n)) \subseteq ToSet(b)
  BY TraverseArcs
<1>3. StatementArcs(n) = v \o a /\ PlainStatementArcs(n) = v \o b
  BY DEF StatementArcs, PlainStatementArcs
<1> HIDE DEF v, a, b
<1>4. v \o a \in Seq(AnyArc) /\ ToSet(v \o a) = ToSet(v) \cup ToSet(a)
  BY <1>1, <1>2, ToSetJoined
<1>5. v \o b \in Seq(AnyArc) /\ ToSet(v \o b) = ToSet(v) \cup ToSet(b)
  BY <1>1, <1>2, ToSetJoined
<1> QED BY <1>2, <1>3, <1>4, <1>5

\* A list of arcs with all arcs of mutexes, and the arcs that the removal of
\* a nested block starts from.
Complete(l) ==
  /\ l \in Seq(AnyArc)
  /\ LockArcs \subseteq ToSet(l)
  /\ \A n \in Node : Nested(n) => IntoFirst(n) \in ToSet(l)

\* All statements in a row, and what follows them.
LEMMA CompleteList ==
  ASSUME NEW c, c = [n \in Node |-> c[n]],
         \A n \in Node : /\ c[n] \in Seq(AnyArc) /\ LockArcsOf(n) \subseteq ToSet(c[n])
                         /\ Nested(n) => IntoFirst(n) \in ToSet(c[n]),
         NEW d \in Seq(AnyArc)
  PROVE  /\ Complete(FlattenSeq(c) \o d)
         /\ \A n \in Node : ToSet(c[n]) \subseteq ToSet(FlattenSeq(c) \o d)
<1>1. Len(KindOf) \in Nat /\ Node = 1 .. Len(KindOf)
  BY Statements
<1>2. FlattenSeq(c) \in Seq(AnyArc) /\ \A n \in 1 .. Len(KindOf) : ToSet(c[n]) \subseteq ToSet(FlattenSeq(c))
  BY <1>1, FlattenedArcs
<1>3. FlattenSeq(c) \o d \in Seq(AnyArc) /\ ToSet(FlattenSeq(c) \o d) = ToSet(FlattenSeq(c)) \cup ToSet(d)
  BY <1>2, ToSetJoined
<1>4. \A n \in Node : ToSet(c[n]) \subseteq ToSet(FlattenSeq(c) \o d)
  BY <1>1, <1>2, <1>3
<1>5. \A a \in LockArcs : a \in ToSet(FlattenSeq(c) \o d)
  BY <1>4, LockArcsAre
<1> QED BY <1>3, <1>4, <1>5 DEF Complete

\* Both translations draw such a list; the default one has an arc from every
\* nested block to an executed place as well.
LEMMA BuiltArcsAre ==
  /\ Complete(BuiltArcs) /\ Complete(BuiltArcs_withoutdependence)
  /\ \A n \in Node : Nested(n) => AfterBlock(n) \in ToSet(BuiltArcs)
<1> DEFINE c == [n \in Node |-> StatementArcs(n)]
           e == [n \in Node |-> PlainStatementArcs(n)]
<1>1. BuiltArcs = FlattenSeq(c) \o FunctionsArcs
  BY Zenon DEF BuiltArcs, FunctionsArcs, StatementArcs
<1>2. BuiltArcs_withoutdependence = FlattenSeq(e) \o PlainFunctionsArcs
  BY Zenon DEF BuiltArcs_withoutdependence, PlainFunctionsArcs, PlainStatementArcs
<1>3. \A n \in Node : c[n] = StatementArcs(n) /\ e[n] = PlainStatementArcs(n)
  OBVIOUS
<1>4. c = [n \in Node |-> c[n]] /\ e = [n \in Node |-> e[n]]
  OBVIOUS
<1> HIDE DEF c, e
<1>5. \A n \in Node : /\ c[n] \in Seq(AnyArc) /\ LockArcsOf(n) \subseteq ToSet(c[n])
                      /\ Nested(n) => IntoFirst(n) \in ToSet(c[n])
                      /\ Nested(n) => AfterBlock(n) \in ToSet(c[n])
  BY <1>3, StatementArcsAre, ControlArcsAre
<1>6. \A n \in Node : /\ e[n] \in Seq(AnyArc) /\ LockArcsOf(n) \subseteq ToSet(e[n])
                      /\ Nested(n) => IntoFirst(n) \in ToSet(e[n])
  BY <1>3, StatementArcsAre, ControlArcsAre
<1>7. Complete(BuiltArcs) /\ \A n \in Node : ToSet(c[n]) \subseteq ToSet(BuiltArcs)
  BY <1>1, <1>4, <1>5, FunctionsArcsAre, CompleteList
<1>8. Complete(BuiltArcs_withoutdependence)
  BY <1>2, <1>4, <1>6, PlainFunctionsArcsAre, CompleteList
<1> QED BY <1>5, <1>7, <1>8

-----------------------------------------------------------------------------
(* The removal of the nested blocks. *)

\* The lists that have the arcs of list b at their places, perhaps deleted,
\* and all arcs of mutexes, not deleted.
Grown(b) ==
  {l \in Seq(AnyArc) : /\ LockArcs \subseteq ToSet(l)
                       /\ DOMAIN b \subseteq DOMAIN l
                       /\ \A k \in DOMAIN b : l[k].src = b[k].src /\ l[k].tgt = b[k].tgt}

\* The ends of an arc of a mutex are no statement's own place, no executed
\* place and no block.
LEMMA LockEnds ==
  ASSUME NEW a \in LockArcs
  PROVE  /\ ~IsExecuted(a.src) /\ ~IsExecuted(a.tgt) /\ a.deleted = FALSE
         /\ \A n \in Node : a.tgt # P(n) /\ (Kind(n) = "block" => a.src # T(n))
<1>1. PICK n \in Node : a \in LockArcsOf(n)
  BY LockArcsAre
<1>2. CASE Kind(n) \in {"init", "unlock"}
  <2>1. a = Arc(T(n), MutexP(Arg(n)), Dot)
    BY <1>1, <1>2 DEF LockArcsOf
  <2>2. a.src = T(n) /\ a.tgt = MutexP(Arg(n)) /\ a.deleted = FALSE
    BY <2>1 DEF Arc
  <2> QED BY <1>2, <2>2 DEF T, MutexP, P, IsExecuted
<1>3. CASE Kind(n) = "lock"
  <2>1. a = Arc(MutexP(Arg(n)), T(n), Dot)
    BY <1>1, <1>3 DEF LockArcsOf
  <2>2. a.tgt = T(n) /\ a.src = MutexP(Arg(n)) /\ a.deleted = FALSE
    BY <2>1 DEF Arc
  <2> QED BY <1>3, <2>2 DEF T, MutexP, P, IsExecuted
<1>4. CASE Kind(n) = "wait"
  <2>1. a = Arc(T(n), MutexP(Arg(n)[2]), Dot) \/ a = Arc(MutexP(Arg(n)[2]), RelockT(n), Dot)
    BY <1>1, <1>4 DEF LockArcsOf
  <2>2. \/ a.src = T(n) /\ a.tgt = MutexP(Arg(n)[2])
        \/ a.src = MutexP(Arg(n)[2]) /\ a.tgt = RelockT(n)
    BY <2>1 DEF Arc
  <2>3. a.deleted = FALSE
    BY <2>1 DEF Arc
  <2> QED BY <1>4, <2>2, <2>3 DEF T, RelockT, MutexP, P, IsExecuted
<1> QED BY <1>1, <1>2, <1>3, <1>4 DEF LockArcsOf

\* An arc of a list that leads to a statement's own place or from a block to
\* anything, or from or to an executed place, has no mutex.
LEMMA FlowHit ==
  ASSUME NEW l \in Seq(AnyArc), NEW i \in DOMAIN l, NEW n \in Node,
         \/ l[i].tgt = P(n)
         \/ Kind(n) = "block" /\ l[i].src = T(n)
         \/ IsExecuted(l[i].src)
  PROVE  l[i] \in FlowArcs /\ l[i].src \in Names /\ l[i].tgt \in Names
<1>1. l[i] \in AnyArc
  BY LenProperties, ElementOfSeq
<1>2. l[i] \notin LockArcs
  BY LockEnds
<1> QED BY <1>1, <1>2 DEF AnyArc, FlowArcs

\* Deleting arcs other than those of mutexes.
LEMMA DeletedArcs ==
  ASSUME NEW b, NEW l \in Grown(b), NEW gone, gone \cap LockArcs = {}
  PROVE  delete_arc(l, gone) \in Grown(b)
<1> DEFINE c(i) == IF l[i] \in gone THEN [l[i] EXCEPT !.deleted = TRUE] ELSE l[i]
           r == [i \in DOMAIN l |-> c(i)]
<1>1. delete_arc(l, gone) = r
  BY DEF delete_arc
<1>2. l \in Seq(AnyArc) /\ Len(l) \in Nat /\ DOMAIN l = 1 .. Len(l)
  BY LenProperties DEF Grown
<1>3. \A i \in DOMAIN l : c(i) \in AnyArc /\ c(i).src = l[i].src /\ c(i).tgt = l[i].tgt
  <2> TAKE i \in DOMAIN l
  <2>1. l[i] \in AnyArc
    BY <1>2, ElementOfSeq
  <2>2. CASE l[i] \in gone
    <3>1. l[i] \in FlowArcs
      BY <2>1, <2>2 DEF AnyArc
    <3>2. c(i) = [l[i] EXCEPT !.deleted = TRUE]
      BY <2>2
    <3>3. [l[i] EXCEPT !.deleted = TRUE] \in FlowArcs /\ [l[i] EXCEPT !.deleted = TRUE].src = l[i].src
          /\ [l[i] EXCEPT !.deleted = TRUE].tgt = l[i].tgt
      BY <3>1 DEF FlowArcs
    <3> QED BY <3>2, <3>3 DEF AnyArc
  <2>3. CASE l[i] \notin gone
    BY <2>1, <2>3
  <2> QED BY <2>2, <2>3
<1>4. \A i \in DOMAIN l : r[i] = c(i)
  OBVIOUS
<1>5. DOMAIN r = DOMAIN l
  OBVIOUS
<1>6. r \in Seq(AnyArc)
  <2>1. r \in [1 .. Len(l) -> AnyArc]
    <3> HIDE DEF c
    <3> QED BY <1>2, <1>3
  <2> QED BY <2>1, <1>2, SeqDef
<1>7. ASSUME NEW a \in LockArcs PROVE a \in ToSet(r)
  <2>1. PICK i \in DOMAIN l : l[i] = a
    BY DEF Grown, ToSet
  <2>2. c(i) = a
    BY <2>1
  <2> QED BY <2>2, <1>4, <1>5 DEF ToSet
<1> HIDE DEF c, r
<1>8. \A k \in DOMAIN b : k \in DOMAIN l /\ l[k].src = b[k].src /\ l[k].tgt = b[k].tgt
  BY DEF Grown
<1> QED BY <1>1, <1>3, <1>4, <1>5, <1>6, <1>7, <1>8 DEF Grown

\* Adding an arc without a mutex.
LEMMA AddedArc ==
  ASSUME NEW b, NEW l \in Grown(b), NEW a \in FlowArcs
  PROVE  Add_Arc(l, a) \in Grown(b)
<1>1. CASE FindArc(l, a.src, a.tgt)
  BY <1>1 DEF Add_Arc
<1>2. CASE ~FindArc(l, a.src, a.tgt)
  <2>1. Add_Arc(l, a) = Append(l, a)
    BY <1>2 DEF Add_Arc
  <2>2. l \in Seq(AnyArc) /\ Len(l) \in Nat /\ DOMAIN l = 1 .. Len(l) /\ a \in AnyArc
    BY LenProperties DEF Grown, AnyArc
  <2>3. Append(l, a) \in Seq(AnyArc) /\ Len(Append(l, a)) = Len(l) + 1
        /\ \A i \in 1 .. Len(l) : Append(l, a)[i] = l[i]
    BY <2>2, AppendProperties
  <2>4. DOMAIN Append(l, a) = 1 .. Len(l) + 1
    BY <2>3, LenProperties
  <2>5. \A i \in DOMAIN l : i \in DOMAIN Append(l, a) /\ Append(l, a)[i] = l[i]
    BY <2>2, <2>3, <2>4
  <2>6. LockArcs \subseteq ToSet(Append(l, a))
    BY <2>5 DEF Grown, ToSet
  <2>7. \A k \in DOMAIN b : k \in DOMAIN l /\ l[k].src = b[k].src /\ l[k].tgt = b[k].tgt
    BY DEF Grown
  <2> QED BY <2>1, <2>3, <2>5, <2>6, <2>7 DEF Grown
<1> QED BY <1>1, <1>2

\* Adding a list of them.
LEMMA AddedArcs ==
  ASSUME NEW b, NEW l \in Grown(b), NEW added \in Seq(FlowArcs)
  PROVE  FoldLeft(Add_Arc, l, added) \in Grown(b)
<1> DEFINE I == DOMAIN added
           G == Grown(b)
           ch == [s \in SUBSET I |-> Max(s)]
           step == [xr \in I \X G |-> Add_Arc(xr[2], added[xr[1]])]
           Eq(g) == g = [s \in SUBSET (DOMAIN added) |->
                          IF s = {} THEN l ELSE LET x == Max(s) IN Add_Arc(g[s \ {x}], added[x])]
           f == CHOOSE g : Eq(g)
<1>1. FoldLeft(Add_Arc, l, added) = f[I]
  BY Zenon DEF FoldLeft, MapThenFoldSet
<1>2. Len(added) \in Nat /\ I = 1 .. Len(added) /\ \A x \in I : added[x] \in FlowArcs
  BY LenProperties, ElementOfSeq
<1>3. IsFiniteSet(I)
  BY <1>2, FS_Interval
<1>4. \A s \in SUBSET I : s # {} => ch[s] = Max(s) /\ Max(s) \in I /\ ch[s] \in s
  <2> SUFFICES ASSUME NEW s \in SUBSET I, s # {} PROVE ch[s] = Max(s) /\ Max(s) \in I /\ ch[s] \in s
    OBVIOUS
  <2>1. Max(s) \in s
    BY <1>2, MaxIsThere
  <2> QED BY <2>1
<1>5. \A x \in I, r \in G : Add_Arc(r, added[x]) \in G
  BY <1>2, AddedArc
<1>6. \A x \in I, r \in G : step[<<x, r>>] = Add_Arc(r, added[x])
  OBVIOUS
<1>7. Picks(ch, I)
  BY <1>4 DEF Picks
<1>8. I = DOMAIN added /\ l \in G
  OBVIOUS
<1> HIDE DEF step, ch, G, I
<1>9. \E g : Eq(g)
  <2>1. StaysIn(step, I, G)
    BY <1>5, <1>6 DEF StaysIn
  <2>2. PICK g : Folds(g, SUBSET I, l, ch, step) /\ \A s \in SUBSET I : g[s] \in G
    <3>1. FoldsInto(I, G, l, ch, step)
      BY <2>1, <1>3, <1>7, <1>8, FoldExists
    <3> QED BY <3>1 DEF FoldsInto
  <2>3. \A s \in SUBSET I : s # {} => s \ {ch[s]} \in SUBSET I
    OBVIOUS
  <2>4. \A s \in SUBSET I : s # {} => step[<<ch[s], g[s \ {ch[s]}]>>] = Add_Arc(g[s \ {Max(s)}], added[Max(s)])
    BY <2>2, <2>3, <1>4, <1>6
  <2>5. \A s \in SUBSET I :
          g[s] = IF s = {} THEN l ELSE LET x == Max(s) IN Add_Arc(g[s \ {x}], added[x])
    BY <2>2, <2>4 DEF Folds
  <2>6. g = [s \in SUBSET I |-> g[s]]
    BY <2>2 DEF Folds
  <2> QED BY <2>5, <2>6, <1>8
<1>10. Eq(f)
  BY <1>9
<1>11. f[{}] \in G
  BY <1>8, <1>10
<1>12. ASSUME NEW s \in SUBSET I, s # {}, f[s \ {ch[s]}] \in G PROVE f[s] \in G
  <2>1. f[s] = Add_Arc(f[s \ {Max(s)}], added[Max(s)])
    BY <1>8, <1>10, <1>12
  <2> QED BY <2>1, <1>4, <1>5, <1>12
<1> HIDE DEF f
<1>13. f[I] \in G
  BY <1>3, <1>7, <1>11, <1>12, FoldEnds
<1> QED BY <1>1, <1>13 DEF G

\* The last of the arcs found is one of them.
LEMMA LastHit ==
  ASSUME NEW l \in Seq(AnyArc), NEW hit, hit \subseteq DOMAIN l, hit # {}
  PROVE  Max(hit) \in hit /\ Max(hit) \in DOMAIN l
<1>1. Len(l) \in Nat /\ DOMAIN l = 1 .. Len(l)
  BY LenProperties
<1> QED BY <1>1, MaxIsThere

\* What an arc of the list that was built says of the list as it is.
LEMMA StillThere ==
  ASSUME NEW b, NEW l \in Grown(b), NEW a \in ToSet(b)
  PROVE  \E i \in DOMAIN l : l[i].src = a.src /\ l[i].tgt = a.tgt
<1>1. PICK i \in DOMAIN b : b[i] = a
  BY DEF ToSet
<1> QED BY <1>1 DEF Grown

\* Removing a nested block from the plain net leaves the arcs of mutexes alone.
LEMMA PlainRemoval ==
  ASSUME NEW b, Complete(b), NEW l \in Grown(b), NEW n \in Node, Nested(n),
         \E i \in DOMAIN b : b[i].tgt = P(n)
  PROVE  delete_compound_withoutdependence(l, n) \in Grown(b)
<1> DEFINE H1 == {i \in DOMAIN l : l[i].tgt = P(n)}
           H2 == {i \in DOMAIN l : l[i].src = T(n)}
           pre == l[Max(H1)].src
           after == l[Max(H2)].tgt
           gone == {a \in ToSet(l) : \/ a.src = pre /\ a.tgt = P(n)
                                     \/ a.src = T(n) /\ a.tgt = after}
<1>1. delete_compound_withoutdependence(l, n) = Add_Arc(delete_arc(l, gone), Flow(pre, after))
  BY Zenon DEF delete_compound_withoutdependence, LastArc
<1>2. l \in Seq(AnyArc) /\ Kind(n) = "block"
  BY DEF Grown, Nested
<1>3. H1 # {}
  <2>1. PICK i \in DOMAIN b : b[i].tgt = P(n)
    OBVIOUS
  <2>2. i \in DOMAIN l /\ l[i].tgt = P(n)
    BY <2>1 DEF Grown
  <2> QED BY <2>2
<1>4. H2 # {}
  <2>1. IntoFirst(n) \in ToSet(b) /\ IntoFirst(n).src = T(n)
    BY DEF Complete, IntoFirst, Flow, Arc
  <2>2. PICK i \in DOMAIN l : l[i].src = T(n)
    BY <2>1, StillThere
  <2> QED BY <2>2
<1>5. Max(H1) \in H1 /\ Max(H1) \in DOMAIN l
  <2>1. H1 \subseteq DOMAIN l
    OBVIOUS
  <2> HIDE DEF H1
  <2> QED BY <2>1, <1>2, <1>3, LastHit
<1>6. Max(H2) \in H2 /\ Max(H2) \in DOMAIN l
  <2>1. H2 \subseteq DOMAIN l
    OBVIOUS
  <2> HIDE DEF H2
  <2> QED BY <2>1, <1>2, <1>4, LastHit
<1>7. pre \in Names
  <2>1. l[Max(H1)].tgt = P(n)
    BY <1>5
  <2> HIDE DEF H1
  <2> QED BY <2>1, <1>2, <1>5, FlowHit
<1>8. after \in Names
  <2>1. l[Max(H2)].src = T(n)
    BY <1>6
  <2> HIDE DEF H2
  <2> QED BY <2>1, <1>2, <1>6, FlowHit
<1>9. gone \cap LockArcs = {}
  <2> SUFFICES ASSUME NEW a \in LockArcs, a \in gone PROVE FALSE
    OBVIOUS
  <2>1. a.tgt # P(n) /\ a.src # T(n)
    BY <1>2, LockEnds
  <2> QED BY <2>1
<1> HIDE DEF pre, after, gone
<1>10. delete_arc(l, gone) \in Grown(b)
  BY <1>9, DeletedArcs
<1>11. Flow(pre, after) \in FlowArcs
  BY <1>7, <1>8, FlowIs
<1> QED BY <1>1, <1>10, <1>11, AddedArc

\* The ends of the arcs found are names, and there are some if there are arcs.
LEMMA TargetNames ==
  ASSUME NEW l \in Seq(AnyArc), NEW H, H \subseteq DOMAIN l, H # {}, \A i \in H : l[i].tgt \in Names,
         NEW ts, ts = [k \in DOMAIN InOrder(H) |-> l[InOrder(H)[k]].tgt]
  PROVE  ts \in Seq(Names) /\ ts # <<>> /\ ToSet(ts) \subseteq {l[i].tgt : i \in H}
<1>1. Len(l) \in Nat /\ DOMAIN l = 1 .. Len(l)
  BY LenProperties
<1>2. H \subseteq Nat /\ IsFiniteSet(H)
  <2>1. IsFiniteSet(1 .. Len(l)) /\ H \subseteq 1 .. Len(l)
    BY <1>1, FS_Interval
  <2> QED BY <2>1, FS_Subset
<1> DEFINE o == InOrder(H)
<1>3. o \in Seq(H) /\ Len(o) = Cardinality(H)
  BY <1>2, InOrderLists
<1>4. Cardinality(H) \in Nat /\ Cardinality(H) # 0
  BY <1>2, FS_CardinalityType, FS_EmptySet
<1>5. DOMAIN o = 1 .. Len(o) /\ Len(o) \in Nat /\ Len(o) # 0 /\ \A k \in 1 .. Len(o) : o[k] \in H
  BY <1>3, <1>4, LenProperties, ElementOfSeq
<1>6. ts = [k \in DOMAIN o |-> l[o[k]].tgt]
  OBVIOUS
<1> HIDE DEF o
<1>7. \A k \in 1 .. Len(o) : ts[k] \in Names /\ ts[k] \in {l[i].tgt : i \in H}
  BY <1>5, <1>6
<1>8. DOMAIN ts = 1 .. Len(o) /\ ts = [k \in 1 .. Len(o) |-> ts[k]]
  BY <1>5, <1>6
<1>9. ts \in Seq(Names)
  BY <1>5, <1>7, <1>8, SeqDef
<1>10. Len(ts) = Len(o)
  BY <1>5, <1>8, <1>9, LenProperties
<1>11. ts # <<>>
  BY <1>5, <1>9, <1>10, EmptySeq
<1>12. ToSet(ts) \subseteq {l[i].tgt : i \in H}
  BY <1>7, <1>8 DEF ToSet
<1> QED BY <1>9, <1>11, <1>12

\* So does removing one from the default net.
LEMMA Removal ==
  ASSUME NEW b, Complete(b), NEW l \in Grown(b), NEW n \in Node, Nested(n), AfterBlock(n) \in ToSet(b),
         \E i \in DOMAIN b : b[i].tgt = P(n),
         \E i \in DOMAIN b : b[i].tgt = T(n) /\ IsExecuted(b[i].src)
  PROVE  delete_compound(l, n) \in Grown(b)
<1> DEFINE H1 == {i \in DOMAIN l : l[i].tgt = P(n)}
           H2 == {i \in DOMAIN l : l[i].tgt = T(n) /\ IsExecuted(l[i].src)}
           H3 == {i \in DOMAIN l : l[i].src = T(n) /\ IsExecuted(l[i].tgt)}
           H4 == {i \in DOMAIN l : l[i].src = T(n) /\ ~IsExecuted(l[i].tgt)}
           father == l[Max(H1)].src
           pre    == l[Max(H2)].src
           after  == l[Max(H3)].tgt
           afterP == [k \in DOMAIN InOrder(H4) |-> l[InOrder(H4)[k]].tgt]
           iter   == \E i \in DOMAIN l : l[i].tgt = after /\ l[i].src # T(n)
           first  == EntersT(afterP[1])
           last   == EntersT(Last(afterP))
           gone   == {a \in ToSet(l) :
                       \/ a.src = father /\ a.tgt = P(n)
                       \/ after \in {a.src, a.tgt}
                       \/ a.src = pre /\ a.tgt = T(n)
                       \/ a.src = T(n) /\ a.tgt \in ToSet(afterP)}
           added1 == [i \in DOMAIN afterP |-> Flow(father, afterP[i])]
           added2 == [i \in DOMAIN first |-> Flow(pre, first[i])]
           added3 == IF iter THEN FlowAll(last, pre) ELSE <<>>
<1>1. delete_compound(l, n) = FoldLeft(Add_Arc, delete_arc(l, gone), added1 \o added2 \o added3)
  BY Zenon DEF delete_compound, LastArc, Targets
<1>2. l \in Seq(AnyArc) /\ Kind(n) = "block"
  BY DEF Grown, Nested
<1>3. H1 # {} /\ H2 # {}
  <2>1. PICK i \in DOMAIN b : b[i].tgt = P(n)
    OBVIOUS
  <2>2. i \in DOMAIN l /\ l[i].tgt = P(n)
    BY <2>1 DEF Grown
  <2>3. PICK j \in DOMAIN b : b[j].tgt = T(n) /\ IsExecuted(b[j].src)
    OBVIOUS
  <2>4. j \in DOMAIN l /\ l[j].tgt = T(n) /\ IsExecuted(l[j].src)
    BY <2>3 DEF Grown
  <2> QED BY <2>2, <2>4
<1>4. H3 # {}
  <2>1. AfterBlock(n).src = T(n) /\ IsExecuted(AfterBlock(n).tgt)
    BY DEF AfterBlock, Flow, Arc, ExecP, IsExecuted
  <2>2. PICK i \in DOMAIN l : l[i].src = T(n) /\ l[i].tgt = AfterBlock(n).tgt
    BY <2>1, StillThere
  <2> QED BY <2>1, <2>2
<1>5. H4 # {}
  <2>0. Kids(n)[1] \in Node
    <3>1. Kids(n) \in Seq(Node) /\ Kids(n) # <<>>
      BY Statements DEF Nested
    <3> QED BY <3>1, EndsOf
  <2>1. IntoFirst(n) \in ToSet(b) /\ IntoFirst(n).src = T(n) /\ ~IsExecuted(IntoFirst(n).tgt)
    <3>1. ~IsExecuted(FirstP(Kids(n)[1]))
      BY <2>0, FirstNames
    <3> QED BY <3>1 DEF Complete, IntoFirst, Flow, Arc
  <2>2. PICK i \in DOMAIN l : l[i].src = T(n) /\ l[i].tgt = IntoFirst(n).tgt
    BY <2>1, StillThere
  <2> QED BY <2>1, <2>2
<1>6. Max(H1) \in H1 /\ Max(H1) \in DOMAIN l
  <2>1. H1 \subseteq DOMAIN l
    OBVIOUS
  <2> HIDE DEF H1
  <2> QED BY <2>1, <1>2, <1>3, LastHit
<1>7. Max(H2) \in H2 /\ Max(H2) \in DOMAIN l
  <2>1. H2 \subseteq DOMAIN l
    OBVIOUS
  <2> HIDE DEF H2
  <2> QED BY <2>1, <1>2, <1>3, LastHit
<1>8. Max(H3) \in H3 /\ Max(H3) \in DOMAIN l
  <2>1. H3 \subseteq DOMAIN l
    OBVIOUS
  <2> HIDE DEF H3
  <2> QED BY <2>1, <1>2, <1>4, LastHit
<1>9. father \in Names
  <2>1. l[Max(H1)].tgt = P(n)
    BY <1>6
  <2> HIDE DEF H1
  <2> QED BY <2>1, <1>2, <1>6, FlowHit
<1>10. pre \in Names /\ IsExecuted(pre)
  <2>1. IsExecuted(l[Max(H2)].src)
    BY <1>7
  <2> HIDE DEF H2
  <2> QED BY <2>1, <1>2, <1>7, FlowHit
<1>11. after \in Names /\ IsExecuted(after)
  <2>1. l[Max(H3)].src = T(n) /\ IsExecuted(l[Max(H3)].tgt)
    BY <1>8
  <2> HIDE DEF H3
  <2> QED BY <2>1, <1>2, <1>8, FlowHit
<1>12. afterP \in Seq(Names) /\ afterP # <<>>
  <2>1. H4 \subseteq DOMAIN l
    OBVIOUS
  <2>2. \A i \in H4 : l[i].tgt \in Names
    BY <1>2, FlowHit
  <2>3. \E ts : ts = [k \in DOMAIN InOrder(H4) |-> l[InOrder(H4)[k]].tgt] /\ ts = afterP
    OBVIOUS
  <2> HIDE DEF H4, afterP
  <2> QED BY <2>1, <2>2, <2>3, <1>2, <1>5, TargetNames
<1>13. gone \cap LockArcs = {}
  <2> SUFFICES ASSUME NEW a \in LockArcs, a \in gone PROVE FALSE
    OBVIOUS
  <2>1. a.tgt # P(n) /\ a.src # T(n) /\ ~IsExecuted(a.src) /\ ~IsExecuted(a.tgt)
    BY <1>2, LockEnds
  <2>2. \/ a.src = father /\ a.tgt = P(n)
        \/ after \in {a.src, a.tgt}
        \/ a.src = pre /\ a.tgt = T(n)
        \/ a.src = T(n) /\ a.tgt \in ToSet(afterP)
    OBVIOUS
  <2> HIDE DEF father, after, pre, afterP
  <2> QED BY <2>1, <2>2, <1>10, <1>11
<1> HIDE DEF father, pre, after, afterP, iter, gone
<1>14. afterP[1] \in Names /\ Last(afterP) \in Names
  BY <1>12, EndsOf
<1>15. first \in Seq(Names) /\ last \in Seq(Names)
  BY <1>14, EntersNames
<1> HIDE DEF first, last
<1>16. added1 \in Seq(FlowArcs)
  BY <1>9, <1>12, FlowAllIs
<1>17. added2 \in Seq(FlowArcs)
  BY <1>10, <1>15, FlowAllIs
<1>18. added3 \in Seq(FlowArcs)
  <2>1. FlowAll(last, pre) \in Seq(FlowArcs)
    BY <1>10, <1>15, FlowAllIs
  <2> QED BY <2>1, FlowList
<1> HIDE DEF added1, added2, added3
<1>19. added1 \o added2 \o added3 \in Seq(FlowArcs)
  BY <1>16, <1>17, <1>18, Joined3
<1>20. delete_arc(l, gone) \in Grown(b)
  BY <1>13, DeletedArcs
<1> QED BY <1>1, <1>19, <1>20, AddedArcs

\* The list that was built is one of those.
LEMMA GrownFromItself ==
  ASSUME NEW b, Complete(b)
  PROVE  b \in Grown(b)
BY DEF Complete, Grown

\* The nested blocks in order.
LEMMA NestedBlocks ==
  /\ Len(NodesWhere(Nested)) \in Nat
  /\ DOMAIN NodesWhere(Nested) = 1 .. Len(NodesWhere(Nested))
  /\ \A i \in DOMAIN NodesWhere(Nested) : NodesWhere(Nested)[i] \in Node /\ Nested(NodesWhere(Nested)[i])
<1> DEFINE A == {n \in Node : Nested(n)}
           bs == NodesWhere(Nested)
<1>1. bs = InOrder(A)
  BY DEF NodesWhere
<1>2. InOrder(A) \in Seq(A)
  BY NodesInOrder
<1>3. \A n \in A : n \in Node /\ Nested(n)
  OBVIOUS
<1> HIDE DEF A
<1>4. bs \in Seq(A)
  BY <1>1, <1>2
<1> HIDE DEF bs
<1>5. Len(bs) \in Nat /\ DOMAIN bs = 1 .. Len(bs) /\ \A i \in 1 .. Len(bs) : bs[i] \in A
  BY <1>4, LenProperties, ElementOfSeq
<1> QED BY <1>3, <1>5 DEF bs

\* What is left of the list when all nested blocks are removed, by default.
LEMMA RemovedBlocks ==
  FoldLeft(delete_compound, BuiltArcs, NodesWhere(Nested)) \in Grown(BuiltArcs)
<1> DEFINE bs == NodesWhere(Nested)
           l == BuiltArcs
           I == DOMAIN bs
           G == Grown(l)
           ch == [s \in SUBSET I |-> Max(s)]
           step == [xr \in I \X G |-> delete_compound(xr[2], bs[xr[1]])]
           Eq(g) == g = [s \in SUBSET (DOMAIN bs) |->
                          IF s = {} THEN l ELSE LET x == Max(s) IN delete_compound(g[s \ {x}], bs[x])]
           f == CHOOSE g : Eq(g)
<1>1. FoldLeft(delete_compound, l, bs) = f[I]
  BY Zenon DEF FoldLeft, MapThenFoldSet
<1>2. Len(bs) \in Nat /\ I = 1 .. Len(bs) /\ \A x \in I : bs[x] \in Node /\ Nested(bs[x])
  BY NestedBlocks
<1>3. IsFiniteSet(I)
  BY <1>2, FS_Interval
<1>a. I = DOMAIN bs
  OBVIOUS
<1> HIDE DEF bs
<1>4. \A s \in SUBSET I : s # {} => ch[s] = Max(s) /\ Max(s) \in I /\ ch[s] \in s
  <2> SUFFICES ASSUME NEW s \in SUBSET I, s # {} PROVE ch[s] = Max(s) /\ Max(s) \in I /\ ch[s] \in s
    OBVIOUS
  <2>1. Max(s) \in s
    BY <1>2, MaxIsThere
  <2> QED BY <2>1
<1>5. Complete(l) /\ \A n \in Node : Nested(n) =>
        /\ AfterBlock(n) \in ToSet(l)
        /\ \E i \in DOMAIN l : l[i].tgt = P(n)
        /\ \E i \in DOMAIN l : l[i].tgt = T(n) /\ IsExecuted(l[i].src)
  BY BuiltArcsAre, CompoundAssumption
<1> HIDE DEF l
<1>6. \A x \in I, r \in G : delete_compound(r, bs[x]) \in G
  BY <1>2, <1>5, Removal
<1>7. \A x \in I, r \in G : step[<<x, r>>] = delete_compound(r, bs[x])
  OBVIOUS
<1>8. Picks(ch, I)
  BY <1>4 DEF Picks
<1>9. l \in G
  BY <1>5, GrownFromItself
<1> HIDE DEF step, ch, G, I
<1>10. \E g : Eq(g)
  <2>1. StaysIn(step, I, G)
    BY <1>6, <1>7 DEF StaysIn
  <2>2. PICK g : Folds(g, SUBSET I, l, ch, step) /\ \A s \in SUBSET I : g[s] \in G
    <3>1. FoldsInto(I, G, l, ch, step)
      BY <2>1, <1>3, <1>8, <1>9, FoldExists
    <3> QED BY <3>1 DEF FoldsInto
  <2>3. \A s \in SUBSET I : s # {} => s \ {ch[s]} \in SUBSET I
    OBVIOUS
  <2>4. \A s \in SUBSET I : s # {} => step[<<ch[s], g[s \ {ch[s]}]>>] = delete_compound(g[s \ {Max(s)}], bs[Max(s)])
    BY <2>2, <2>3, <1>4, <1>7
  <2>5. \A s \in SUBSET I :
          g[s] = IF s = {} THEN l ELSE LET x == Max(s) IN delete_compound(g[s \ {x}], bs[x])
    BY <2>2, <2>4 DEF Folds
  <2>6. g = [s \in SUBSET I |-> g[s]]
    BY <2>2 DEF Folds
  <2> QED BY <2>5, <2>6, <1>a
<1>11. Eq(f)
  BY <1>10
<1>12. f[{}] \in G
  BY <1>9, <1>11
<1>13. ASSUME NEW s \in SUBSET I, s # {}, f[s \ {ch[s]}] \in G PROVE f[s] \in G
  <2>1. f[s] = delete_compound(f[s \ {Max(s)}], bs[Max(s)])
    BY <1>a, <1>11, <1>13
  <2> QED BY <2>1, <1>4, <1>6, <1>13
<1> HIDE DEF f
<1>14. f[I] \in G
  BY <1>3, <1>8, <1>12, <1>13, FoldEnds
<1> QED BY <1>1, <1>14 DEF G, l, bs
\* What is left of the list when all nested blocks are removed, in the plain net.
LEMMA PlainRemovedBlocks ==
  FoldLeft(delete_compound_withoutdependence, BuiltArcs_withoutdependence, NodesWhere(Nested)) \in Grown(BuiltArcs_withoutdependence)
<1> DEFINE bs == NodesWhere(Nested)
           l == BuiltArcs_withoutdependence
           I == DOMAIN bs
           G == Grown(l)
           ch == [s \in SUBSET I |-> Max(s)]
           step == [xr \in I \X G |-> delete_compound_withoutdependence(xr[2], bs[xr[1]])]
           Eq(g) == g = [s \in SUBSET (DOMAIN bs) |->
                          IF s = {} THEN l ELSE LET x == Max(s) IN delete_compound_withoutdependence(g[s \ {x}], bs[x])]
           f == CHOOSE g : Eq(g)
<1>1. FoldLeft(delete_compound_withoutdependence, l, bs) = f[I]
  BY Zenon DEF FoldLeft, MapThenFoldSet
<1>2. Len(bs) \in Nat /\ I = 1 .. Len(bs) /\ \A x \in I : bs[x] \in Node /\ Nested(bs[x])
  BY NestedBlocks
<1>3. IsFiniteSet(I)
  BY <1>2, FS_Interval
<1>a. I = DOMAIN bs
  OBVIOUS
<1> HIDE DEF bs
<1>4. \A s \in SUBSET I : s # {} => ch[s] = Max(s) /\ Max(s) \in I /\ ch[s] \in s
  <2> SUFFICES ASSUME NEW s \in SUBSET I, s # {} PROVE ch[s] = Max(s) /\ Max(s) \in I /\ ch[s] \in s
    OBVIOUS
  <2>1. Max(s) \in s
    BY <1>2, MaxIsThere
  <2> QED BY <2>1
<1>5. Complete(l) /\ \A n \in Node : Nested(n) =>
        \E i \in DOMAIN l : l[i].tgt = P(n)
  BY BuiltArcsAre, CompoundAssumption
<1> HIDE DEF l
<1>6. \A x \in I, r \in G : delete_compound_withoutdependence(r, bs[x]) \in G
  BY <1>2, <1>5, PlainRemoval
<1>7. \A x \in I, r \in G : step[<<x, r>>] = delete_compound_withoutdependence(r, bs[x])
  OBVIOUS
<1>8. Picks(ch, I)
  BY <1>4 DEF Picks
<1>9. l \in G
  BY <1>5, GrownFromItself
<1> HIDE DEF step, ch, G, I
<1>10. \E g : Eq(g)
  <2>1. StaysIn(step, I, G)
    BY <1>6, <1>7 DEF StaysIn
  <2>2. PICK g : Folds(g, SUBSET I, l, ch, step) /\ \A s \in SUBSET I : g[s] \in G
    <3>1. FoldsInto(I, G, l, ch, step)
      BY <2>1, <1>3, <1>8, <1>9, FoldExists
    <3> QED BY <3>1 DEF FoldsInto
  <2>3. \A s \in SUBSET I : s # {} => s \ {ch[s]} \in SUBSET I
    OBVIOUS
  <2>4. \A s \in SUBSET I : s # {} => step[<<ch[s], g[s \ {ch[s]}]>>] = delete_compound_withoutdependence(g[s \ {Max(s)}], bs[Max(s)])
    BY <2>2, <2>3, <1>4, <1>7
  <2>5. \A s \in SUBSET I :
          g[s] = IF s = {} THEN l ELSE LET x == Max(s) IN delete_compound_withoutdependence(g[s \ {x}], bs[x])
    BY <2>2, <2>4 DEF Folds
  <2>6. g = [s \in SUBSET I |-> g[s]]
    BY <2>2 DEF Folds
  <2> QED BY <2>5, <2>6, <1>a
<1>11. Eq(f)
  BY <1>10
<1>12. f[{}] \in G
  BY <1>9, <1>11
<1>13. ASSUME NEW s \in SUBSET I, s # {}, f[s \ {ch[s]}] \in G PROVE f[s] \in G
  <2>1. f[s] = delete_compound_withoutdependence(f[s \ {Max(s)}], bs[Max(s)])
    BY <1>a, <1>11, <1>13
  <2> QED BY <2>1, <1>4, <1>6, <1>13
<1> HIDE DEF f
<1>14. f[I] \in G
  BY <1>3, <1>8, <1>12, <1>13, FoldEnds
<1> QED BY <1>1, <1>14 DEF G, l, bs

\* The arcs that remain are arcs with and without a mutex, and all of the former.
LEMMA ArcsAre ==
  /\ LockArcs \subseteq Arcs /\ Arcs \subseteq AnyArc
  /\ LockArcs \subseteq Arcs_withoutdependence /\ Arcs_withoutdependence \subseteq AnyArc
<1>1. ASSUME NEW b, NEW l \in Grown(b)
      PROVE  LockArcs \subseteq Remaining(l) /\ Remaining(l) \subseteq AnyArc
  <2>1. l \in Seq(AnyArc) /\ LockArcs \subseteq ToSet(l)
    BY DEF Grown
  <2>2. ToSet(l) \subseteq AnyArc
    BY <2>1, LenProperties, ElementOfSeq DEF ToSet
  <2>3. \A a \in LockArcs : ~a.deleted
    BY LockEnds
  <2> QED BY <2>1, <2>2, <2>3 DEF Remaining
<1> DEFINE d == FoldLeft(delete_compound, BuiltArcs, NodesWhere(Nested))
           p == FoldLeft(delete_compound_withoutdependence, BuiltArcs_withoutdependence, NodesWhere(Nested))
<1>2. Arcs = Remaining(d) /\ Arcs_withoutdependence = Remaining(p)
  BY DEF Arcs, Arcs_withoutdependence
<1>3. d \in Grown(BuiltArcs) /\ p \in Grown(BuiltArcs_withoutdependence)
  BY RemovedBlocks, PlainRemovedBlocks
<1> HIDE DEF d, p
<1> QED BY <1>1, <1>2, <1>3

-----------------------------------------------------------------------------
(* The tokens of the mutexes. *)

\* Transition t takes the lock of mutex m, or gives it back.
TakesLock(t, m) ==
  \E n \in Node : \/ Kind(n) = "lock" /\ Arg(n) = m /\ t = T(n)
                  \/ Kind(n) = "wait" /\ Arg(n)[2] = m /\ t = RelockT(n)
GivesLock(t, m) ==
  \E n \in Node : /\ t = T(n)
                  /\ \/ Kind(n) \in {"init", "unlock"} /\ Arg(n) = m
                     \/ Kind(n) = "wait" /\ Arg(n)[2] = m

\* In both nets a transition is bound to the token of a mutex exactly when
\* it takes the lock or gives it back.
LEMMA LockBindings ==
  ASSUME NoDependence \in BOOLEAN, NEW t \in Transitions, NEW tid, NEW m
  PROVE  /\ <<MutexP(m), Dot>> \in Bind(Needs(t), tid) <=> TakesLock(t, m)
         /\ <<MutexP(m), Dot>> \in Bind(Gives(t), tid) <=> GivesLock(t, m)
<1> DEFINE N == Nets[NoDependence]
<1>1. LockArcs \subseteq N /\ N \subseteq AnyArc
  BY ArcsAre DEF Nets
<1>2. Needs(t) = {<<a.src, a.exp>> : a \in {b \in N : b.tgt = t}}
      /\ Gives(t) = {<<a.tgt, a.exp>> : a \in {b \in N : b.src = t}}
  BY DEF Needs, Gives, producer, consumer
<1> HIDE DEF N
<1>3. \A p \in Names : p # MutexP(m)
  BY NameParts DEF MutexP, Tags2, Tags3
<1>4. \A a \in N : a.src = MutexP(m) \/ a.tgt = MutexP(m) => a \in LockArcs
  BY <1>1, <1>3 DEF AnyArc, FlowArcs
<1>5. Dot # Tid
  BY DEF Dot, Tid
<1>6. ASSUME <<MutexP(m), Dot>> \in Bind(Needs(t), tid) PROVE TakesLock(t, m)
  <2>1. PICK a \in N : a.tgt = t /\ a.src = MutexP(m)
    BY <1>2, <1>6 DEF Bind
  <2>2. PICK n \in Node : a \in LockArcsOf(n)
    BY <2>1, <1>4, LockArcsAre
  <2>3. \/ Kind(n) \in {"init", "unlock"} /\ a = Arc(T(n), MutexP(Arg(n)), Dot)
        \/ Kind(n) = "lock" /\ a = Arc(MutexP(Arg(n)), T(n), Dot)
        \/ Kind(n) = "wait" /\ a = Arc(T(n), MutexP(Arg(n)[2]), Dot)
        \/ Kind(n) = "wait" /\ a = Arc(MutexP(Arg(n)[2]), RelockT(n), Dot)
    BY <2>2 DEF LockArcsOf
  <2>4. T(n) # MutexP(m)
    BY DEF T, MutexP
  <2>5. \/ Kind(n) = "lock" /\ MutexP(Arg(n)) = MutexP(m) /\ t = T(n)
        \/ Kind(n) = "wait" /\ MutexP(Arg(n)[2]) = MutexP(m) /\ t = RelockT(n)
    BY <2>1, <2>3, <2>4 DEF Arc
  <2> QED BY <2>5 DEF TakesLock, MutexP
<1>7. ASSUME TakesLock(t, m) PROVE <<MutexP(m), Dot>> \in Bind(Needs(t), tid)
  <2>1. PICK n \in Node : \/ Kind(n) = "lock" /\ Arg(n) = m /\ t = T(n)
                          \/ Kind(n) = "wait" /\ Arg(n)[2] = m /\ t = RelockT(n)
    BY <1>7 DEF TakesLock
  <2>2. Arc(MutexP(m), t, Dot) \in LockArcs
    BY <2>1 DEF LockArcs
  <2>3. Arc(MutexP(m), t, Dot) \in N
    BY <2>2, <1>1
  <2>4. <<MutexP(m), Dot>> \in Needs(t)
    BY <2>3, <1>2 DEF Arc
  <2>5. <<(<<MutexP(m), Dot>>)[1], IF (<<MutexP(m), Dot>>)[2] = Tid THEN tid ELSE (<<MutexP(m), Dot>>)[2]>>
          \in Bind(Needs(t), tid)
    BY <2>4 DEF Bind
  <2> QED BY <2>5, <1>5
<1>8. ASSUME <<MutexP(m), Dot>> \in Bind(Gives(t), tid) PROVE GivesLock(t, m)
  <2>1. PICK a \in N : a.src = t /\ a.tgt = MutexP(m)
    BY <1>2, <1>8 DEF Bind
  <2>2. PICK n \in Node : a \in LockArcsOf(n)
    BY <2>1, <1>4, LockArcsAre
  <2>3. \/ Kind(n) \in {"init", "unlock"} /\ a = Arc(T(n), MutexP(Arg(n)), Dot)
        \/ Kind(n) = "lock" /\ a = Arc(MutexP(Arg(n)), T(n), Dot)
        \/ Kind(n) = "wait" /\ a = Arc(T(n), MutexP(Arg(n)[2]), Dot)
        \/ Kind(n) = "wait" /\ a = Arc(MutexP(Arg(n)[2]), RelockT(n), Dot)
    BY <2>2 DEF LockArcsOf
  <2>4. T(n) # MutexP(m) /\ RelockT(n) # MutexP(m)
    BY DEF T, RelockT, MutexP
  <2>5. \/ Kind(n) \in {"init", "unlock"} /\ MutexP(Arg(n)) = MutexP(m) /\ t = T(n)
        \/ Kind(n) = "wait" /\ MutexP(Arg(n)[2]) = MutexP(m) /\ t = T(n)
    BY <2>1, <2>3, <2>4 DEF Arc
  <2> QED BY <2>5 DEF GivesLock, MutexP
<1>9. ASSUME GivesLock(t, m) PROVE <<MutexP(m), Dot>> \in Bind(Gives(t), tid)
  <2>1. PICK n \in Node : /\ t = T(n)
                          /\ \/ Kind(n) \in {"init", "unlock"} /\ Arg(n) = m
                             \/ Kind(n) = "wait" /\ Arg(n)[2] = m
    BY <1>9 DEF GivesLock
  <2>2. Arc(t, MutexP(m), Dot) \in LockArcs
    BY <2>1 DEF LockArcs
  <2>3. Arc(t, MutexP(m), Dot) \in N
    BY <2>2, <1>1
  <2>4. <<MutexP(m), Dot>> \in Gives(t)
    BY <2>3, <1>2 DEF Arc
  <2>5. <<(<<MutexP(m), Dot>>)[1], IF (<<MutexP(m), Dot>>)[2] = Tid THEN tid ELSE (<<MutexP(m), Dot>>)[2]>>
          \in Bind(Gives(t), tid)
    BY <2>4 DEF Bind
  <2> QED BY <2>5, <1>5
<1> QED BY <1>6, <1>7, <1>8, <1>9

\* What a transition's name says of it.
LEMMA TransitionParts ==
  ASSUME NEW x \in Transitions
  PROVE  /\ x[1] = "T" <=> \E n \in Node : x = T(n)
         /\ x[1] = "relock" <=> \E n \in Node : Kind(n) = "wait" /\ x = RelockT(n)
BY DEF Transitions, T, T1, T2, BeginT, CallT, WakeT, RelockT

\* What the step of a thread does to the holders of the mutexes.
LEMMA HoldersStep ==
  ASSUME NEW x \in Transitions, NEW t \in Tids, CStep(x, t), DOMAIN owner = Mutexes,
         NEW m \in Mutexes
  PROVE  /\ DOMAIN owner' = Mutexes
         /\ TakesLock(x, m) => owner[m] = "free" /\ owner'[m] # "free"
         /\ GivesLock(x, m) => owner[m] # "free" /\ owner'[m] = "free"
         /\ ~TakesLock(x, m) /\ ~GivesLock(x, m) => (owner'[m] = "free" <=> owner[m] = "free")
<1>1. CASE x[1] = "T"
  <2>1. PICK n \in Node : x = T(n)
    BY <1>1, TransitionParts
  <2>2. x[2] = n /\ \A k \in Node : x = T(k) => k = n
    BY <2>1 DEF T
  <2>3. \A k \in Node : x # RelockT(k)
    BY <2>1 DEF T, RelockT
  <2>4. /\ TakesLock(x, m) <=> Kind(n) = "lock" /\ Arg(n) = m
        /\ GivesLock(x, m) <=> \/ Kind(n) \in {"init", "unlock"} /\ Arg(n) = m
                               \/ Kind(n) = "wait" /\ Arg(n)[2] = m
    BY <2>1, <2>2, <2>3 DEF TakesLock, GivesLock
  <2>5. \/ Plain(t, n) \/ Create(t, n) \/ Join(t, n) \/ Exit(t, n)
        \/ Locking(t, n) \/ Signal(t, n) \/ Wait(t, n)
    BY <1>1, <2>2 DEF CStep
  <2>6. CASE Plain(t, n) \/ Create(t, n) \/ Join(t, n) \/ Exit(t, n) \/ Signal(t, n)
    <3>1. owner' = owner /\ Kind(n) \notin {"init", "lock", "unlock", "wait"}
      BY <2>6 DEF Plain, Create, Join, Exit, Signal, Calls
    <3> QED BY <3>1, <2>4
  <2>7. CASE Locking(t, n)
    <3>1. \/ Kind(n) = "init"   /\ Takes(Arg(n), t, "none", "free")
          \/ Kind(n) = "lock"   /\ Takes(Arg(n), t, "free", t)
          \/ Kind(n) = "unlock" /\ Takes(Arg(n), t, t, "free")
      BY <2>7 DEF Locking
    <3> QED BY <3>1, <2>4, TidsAssumption DEF Takes
  <2>8. CASE Wait(t, n)
    <3>1. Kind(n) = "wait" /\ Takes(Arg(n)[2], t, t, "free")
      BY <2>8 DEF Wait
    <3> QED BY <3>1, <2>4, TidsAssumption DEF Takes
  <2> QED BY <2>5, <2>6, <2>7, <2>8
<1>2. CASE x[1] = "relock"
  <2>1. PICK n \in Node : Kind(n) = "wait" /\ x = RelockT(n)
    BY <1>2, TransitionParts
  <2>2. x[2] = n /\ \A k \in Node : x # T(k) /\ (x = RelockT(k) => k = n)
    BY <2>1 DEF T, RelockT
  <2>3. ~GivesLock(x, m) /\ (TakesLock(x, m) <=> Arg(n)[2] = m)
    BY <2>1, <2>2 DEF TakesLock, GivesLock
  <2>4. Takes(Arg(n)[2], t, "free", t)
    BY <1>2, <2>2 DEF CStep, Relock
  <2> QED BY <2>3, <2>4, TidsAssumption DEF Takes
<1>3. CASE x[1] \notin {"T", "relock"}
  <2>1. owner' = owner
    BY <1>3 DEF CStep, Begin, Call, Branch, Wake
  <2>2. ~TakesLock(x, m) /\ ~GivesLock(x, m)
    BY <1>3 DEF TakesLock, GivesLock, T, RelockT
  <2> QED BY <2>1, <2>2
<1> QED BY <1>1, <1>2, <1>3

\* The inductive invariant: the net's tokens are in their slots, every mutex
\* has a holder, and the token of a mutex is there when it is free.
LockInv == TypeOK /\ DOMAIN owner = Mutexes /\ MutexTokens

\* It holds at the start: the initialised mutexes are free and have a token.
LEMMA LockInvInit == RunInit => LockInv
<1> SUFFICES ASSUME RunInit PROVE LockInv
  OBVIOUS
<1>1. Init /\ owner = [m \in Mutexes |-> IF m \in Initialised THEN "free" ELSE "none"]
  BY DEF RunInit, CInit
<1>2. TypeOK
  BY <1>1, TypeOKInit
<1>3. PICK f \in Mains :
        marking = SetToBag({<<BeginP(f), MainTid>>} \cup {<<MutexP(m), Dot>> : m \in Initialised})
  BY <1>1 DEF Init
<1> DEFINE S == {<<BeginP(f), MainTid>>} \cup {<<MutexP(m), Dot>> : m \in Initialised}
<1>4. ASSUME NEW m \in Mutexes
      PROVE  <<MutexP(m), Dot>> \in S <=> m \in Initialised
  BY DEF MutexP, BeginP
<1>5. \A s : Copies(s, marking) = IF s \in S THEN 1 ELSE 0
  <2> HIDE DEF S
  <2>1. marking = SetToBag(S)
    BY <1>3 DEF S
  <2> QED BY <2>1 DEF Copies, SetToBag
<1> HIDE DEF S
<1>6. MutexTokens
  BY <1>1, <1>4, <1>5 DEF MutexTokens
<1> QED BY <1>1, <1>2, <1>6 DEF LockInv

\* Every firing next to a step of its thread keeps it.
LEMMA LockInvStep == LockInv /\ [RunNext]_vars => LockInv'
<1> SUFFICES ASSUME LockInv, [RunNext]_vars PROVE LockInv'
  OBVIOUS
<1>1. CASE UNCHANGED vars
  <2>1. UNCHANGED netvars /\ marking' = marking /\ owner' = owner
    BY <1>1 DEF vars, netvars, cvars
  <2>2. TypeOK'
    BY <2>1, TypeOKStep DEF LockInv
  <2>3. MutexTokens'
    BY <2>1 DEF LockInv, MutexTokens
  <2> QED BY <2>1, <2>2, <2>3 DEF LockInv
<1>2. ASSUME NEW t \in Transitions, NEW tid \in Tids, Fire(t, tid), CStep(t, tid)
      PROVE  LockInv'
  <2>1. TypeOK /\ DOMAIN owner = Mutexes /\ MutexTokens /\ NoDependence \in BOOLEAN
    BY DEF LockInv, TypeOK
  <2>2. TypeOK'
    BY <1>2, <2>1, TypeOKStep DEF Next
  <2>3. ASSUME NEW m \in Mutexes
        PROVE  /\ DOMAIN owner' = Mutexes
               /\ Copies(<<MutexP(m), Dot>>, marking') = IF owner'[m] = "free" THEN 1 ELSE 0
    <3> DEFINE s == <<MutexP(m), Dot>>
    <3>1. Copies(s, marking') = Copies(s, marking) - (IF s \in Bind(Needs(t), tid) THEN 1 ELSE 0)
                                  + (IF s \in Bind(Gives(t), tid) THEN 1 ELSE 0)
      BY <1>2, <2>1, FiringIsExact
    <3>2. /\ s \in Bind(Needs(t), tid) <=> TakesLock(t, m)
          /\ s \in Bind(Gives(t), tid) <=> GivesLock(t, m)
      BY <2>1, LockBindings
    <3>3. Copies(s, marking) = IF owner[m] = "free" THEN 1 ELSE 0
      BY <2>1 DEF MutexTokens
    <3>4. /\ DOMAIN owner' = Mutexes
          /\ TakesLock(t, m) => owner[m] = "free" /\ owner'[m] # "free"
          /\ GivesLock(t, m) => owner[m] # "free" /\ owner'[m] = "free"
          /\ ~TakesLock(t, m) /\ ~GivesLock(t, m) => (owner'[m] = "free" <=> owner[m] = "free")
      BY <1>2, <2>1, HoldersStep
    <3> HIDE DEF s
    <3>5. Copies(s, marking') = IF owner'[m] = "free" THEN 1 ELSE 0
      BY <3>1, <3>2, <3>3, <3>4
    <3> QED BY <3>4, <3>5 DEF s
  <2>4. DOMAIN owner' = Mutexes
    <3>1. CASE Mutexes # {}
      BY <2>3, <3>1
    <3>2. CASE Mutexes = {}
      BY <1>2, <2>1, <3>2 DEF CStep, Begin, Call, Branch, Plain, Create, Join, Exit, Locking, Signal,
         Wait, Wake, Relock, Takes
    <3> QED BY <3>1, <3>2
  <2> QED BY <2>2, <2>3, <2>4 DEF LockInv, MutexTokens
<1> QED BY <1>1, <1>2 DEF RunNext

\* In every run of a program, by either translation, the token on the place
\* of a mutex is the lock: one token when the mutex is free, none while a
\* thread holds it or before it is initialised.
THEOREM MutexTokenIsTheLock == RunSpec => []MutexTokens
<1>1. RunInit => LockInv
  BY LockInvInit
<1>2. LockInv /\ [RunNext]_vars => LockInv'
  BY LockInvStep
<1>3. LockInv => MutexTokens
  BY DEF LockInv
<1> QED BY <1>1, <1>2, <1>3, PTL DEF RunSpec
=============================================================================

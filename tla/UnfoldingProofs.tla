-------------------------- MODULE UnfoldingProofs --------------------------
(***************************************************************************)
(* Two theorems about the unfolding, for every net.                        *)
(*                                                                         *)
(* AnswersAreKept: an answer is never lost to the clock.  The argument is  *)
(* about the open calls of Explore.  Only the innermost one can be before  *)
(* its choice of an event; the others wait for a child.  An answer is      *)
(* found by a call that then returns, so that from then on all calls wait; *)
(* none of them opens another child, and only a call that opens looks at   *)
(* the clock.  Once the time is up, no call chooses.                       *)
(*                                                                         *)
(* ConfigurationsRun: the configurations are runs of the net.  RunInv says *)
(* that an event consumes, reads and makes the tokens of one firing of its *)
(* transition, and that every extension of an open configuration is a      *)
(* firing its cut allows.  An event that had_extend finds again consumes   *)
(* and reads the same conditions as the extension, so that it is of the    *)
(* same firing (KnownFires); a new one is of it by what add_Event writes   *)
(* (NewEventFires); and an event of a firing turns the tokens of a cut     *)
(* into those of the marking behind it (CutFires).                         *)
(***************************************************************************)
EXTENDS Unfolding, SequenceTheorems, FiniteSetTheorems, TLAPS

Waiting == {"left", "right"}

\* All open calls but the innermost wait for a child.
Stacked(s) ==
  /\ \E F : s \in Seq(F)
  /\ \A i \in 1 .. Len(s) : "pc" \in DOMAIN s[i]
  /\ \A i \in 1 .. Len(s) - 1 : s[i].pc \in Waiting

AllWait(s) == \A i \in 1 .. Len(s) : s[i].pc \in Waiting
NoneChooses(s) == \A i \in 1 .. Len(s) : s[i].pc # "choose"

AnswerInv ==
  /\ Stacked(frames)
  /\ success # "NONE" => AllWait(frames)
  /\ timeup => late /\ NoneChooses(frames)
  /\ AnswerKept

\* The positions of a sequence: the last one, and those before it.
LEMMA Positions ==
  ASSUME NEW n \in Nat
  PROVE  /\ \A i \in 1 .. n : i = n \/ i \in 1 .. n - 1
         /\ \A i \in 1 .. n - 1 : i \in 1 .. n /\ i # n
         /\ \A i \in 1 .. n + 1 : i = n + 1 \/ i \in 1 .. n
         /\ n # 0 => n - 1 \in Nat /\ n \in 1 .. n
         /\ (n + 1) - 1 = n
OBVIOUS

LEMMA FrontOfSeq ==
  ASSUME NEW F, NEW s \in Seq(F), s # <<>>
  PROVE  /\ Len(s) \in Nat \ {0}
         /\ Front(s) \in Seq(F)
         /\ Len(Front(s)) = Len(s) - 1
         /\ \A i \in 1 .. Len(s) - 1 : Front(s)[i] = s[i]
<1> DEFINE n == Len(s)
<1>1. n \in Nat /\ n # 0 /\ DOMAIN s = 1 .. n /\ \A i \in 1 .. n : s[i] \in F
  OBVIOUS
<1>2. Front(s) = SubSeq(s, 1, n - 1)
  BY DEF Front
<1> HIDE DEF n
<1>3. n - 1 \in Int /\ 1 \in Int /\ \A i \in 1 .. n - 1 : s[i] \in F
  BY <1>1
<1>4. /\ SubSeq(s, 1, n - 1) \in Seq(F)
      /\ Len(SubSeq(s, 1, n - 1)) = IF 1 <= n - 1 THEN (n - 1) - 1 + 1 ELSE 0
      /\ \A i \in 1 .. (n - 1) - 1 + 1 : SubSeq(s, 1, n - 1)[i] = s[1 + i - 1]
  BY <1>3, SubSeqProperties
<1>5. Len(SubSeq(s, 1, n - 1)) = n - 1
  BY <1>1, <1>4
<1>6. \A i \in 1 .. n - 1 : 1 + i - 1 = i /\ i \in 1 .. (n - 1) - 1 + 1
  BY <1>1
<1>7. \A i \in 1 .. n - 1 : SubSeq(s, 1, n - 1)[i] = s[i]
  BY <1>4, <1>6
<1> QED BY <1>1, <1>2, <1>4, <1>5, <1>7 DEF n

\* What is left when the innermost call returns waits.
LEMMA Popped ==
  ASSUME NEW s, Stacked(s), s # <<>>
  PROVE  Stacked(Front(s)) /\ AllWait(Front(s)) /\ NoneChooses(Front(s))
<1>1. PICK F : s \in Seq(F)
  BY DEF Stacked
<1> DEFINE n == Len(s)
<1>2. /\ n \in Nat \ {0}
      /\ Front(s) \in Seq(F)
      /\ Len(Front(s)) = n - 1
      /\ \A i \in 1 .. n - 1 : Front(s)[i] = s[i]
  BY <1>1, FrontOfSeq
<1>3. /\ \A i \in 1 .. n : "pc" \in DOMAIN s[i]
      /\ \A i \in 1 .. n - 1 : s[i].pc \in Waiting
  BY DEF Stacked
<1> HIDE DEF n
<1>4. \A i \in 1 .. n - 1 : "pc" \in DOMAIN Front(s)[i] /\ Front(s)[i].pc \in Waiting
  BY <1>2, <1>3, Positions
<1>5. \A i \in 1 .. (n - 1) - 1 : i \in 1 .. n - 1
  BY <1>2, Positions
<1> QED BY <1>2, <1>4, <1>5 DEF Stacked, AllWait, NoneChooses, Waiting

\* The innermost call goes on.
LEMMA Turned ==
  ASSUME NEW s, NEW f, Stacked(s), s # <<>>, "pc" \in DOMAIN f
  PROVE  LET t == [s EXCEPT ![Len(s)] = f]
         IN  /\ Stacked(t)
             /\ Len(t) = Len(s)
             /\ \A i \in 1 .. Len(s) - 1 : t[i].pc \in Waiting
             /\ t[Len(s)] = f
<1>1. PICK F : s \in Seq(F)
  BY DEF Stacked
<1> DEFINE n == Len(s)
           G == F \cup {f}
           t == [s EXCEPT ![n] = f]
<1>2. n \in Nat /\ n # 0 /\ n \in 1 .. Len(s)
  BY <1>1
<1>3. s \in Seq(G) /\ f \in G
  BY <1>1
<1>4. /\ \A i \in 1 .. n : "pc" \in DOMAIN s[i]
      /\ \A i \in 1 .. n - 1 : s[i].pc \in Waiting
  BY DEF Stacked
<1>5. t \in Seq(G) /\ Len(t) = n /\ \A i \in 1 .. n : t[i] = IF i = n THEN f ELSE s[i]
  <2> HIDE DEF G
  <2> QED BY <1>2, <1>3, ExceptSeq
<1> HIDE DEF t, G, n
<1>6. t[n] = f /\ \A i \in 1 .. n - 1 : t[i] = s[i]
  BY <1>2, <1>5, Positions
<1>7. /\ \A i \in 1 .. n : "pc" \in DOMAIN t[i]
      /\ \A i \in 1 .. n - 1 : t[i].pc \in Waiting
  BY <1>2, <1>4, <1>6, Positions
<1>8. Stacked(t) /\ Len(t) = n /\ (\A i \in 1 .. n - 1 : t[i].pc \in Waiting) /\ t[n] = f
  BY <1>5, <1>6, <1>7 DEF Stacked
<1> QED BY <1>8 DEF t, n

\* The innermost call waits for the child it opens.
LEMMA Pushed ==
  ASSUME NEW s, NEW f, NEW g, Stacked(s), s # <<>>,
         "pc" \in DOMAIN f, f.pc \in Waiting, "pc" \in DOMAIN g, g.pc = "enter"
  PROVE  LET t == Append([s EXCEPT ![Len(s)] = f], g)
         IN  Stacked(t) /\ NoneChooses(t)
<1> DEFINE u == [s EXCEPT ![Len(s)] = f]
           t == Append(u, g)
<1>1. /\ Stacked(u)
      /\ Len(u) = Len(s)
      /\ \A i \in 1 .. Len(s) - 1 : u[i].pc \in Waiting
      /\ u[Len(s)] = f
  BY Turned
<1> HIDE DEF u
<1>2. PICK F : u \in Seq(F)
  BY <1>1 DEF Stacked
<1> DEFINE n == Len(u)
           G == F \cup {g}
<1>3. n \in Nat /\ n = Len(s) /\ u \in Seq(G)
  BY <1>1, <1>2
<1>4. /\ t \in Seq(G)
      /\ Len(t) = n + 1
      /\ \A i \in 1 .. n : t[i] = u[i]
      /\ t[n + 1] = g
  BY <1>3
<1>5. \A i \in 1 .. n : "pc" \in DOMAIN u[i]
  BY <1>1 DEF Stacked
<1>6. u[n] = f /\ \A i \in 1 .. n - 1 : u[i].pc \in Waiting
  BY <1>1, <1>3
<1> HIDE DEF t, G, n
<1>7. \A i \in 1 .. n : t[i].pc \in Waiting
  BY <1>3, <1>4, <1>6, Positions
<1>8. \A i \in 1 .. n + 1 : "pc" \in DOMAIN t[i] /\ t[i].pc # "choose"
  BY <1>3, <1>4, <1>5, <1>7, Positions DEF Waiting
<1>9. Stacked(t)
  <2>1. (n + 1) - 1 = n
    BY <1>3, Positions
  <2> QED BY <1>4, <1>7, <1>8, <2>1 DEF Stacked
<1>10. NoneChooses(t)
  BY <1>4, <1>8 DEF NoneChooses
<1> QED BY <1>9, <1>10 DEF t, u

-----------------------------------------------------------------------------
\* The innermost call is one of the open calls.
LEMMA TopIsOpen ==
  ASSUME Stacked(frames), NEW pc, At(pc)
  PROVE  /\ frames # <<>> /\ Len(frames) \in 1 .. Len(frames)
         /\ Top = frames[Len(frames)] /\ Top.pc = pc /\ "pc" \in DOMAIN Top
<1>1. PICK F : frames \in Seq(F)
  BY DEF Stacked
<1>2. frames # <<>> /\ Top = frames[Len(frames)] /\ Top.pc = pc
  BY DEF At, Top, Last
<1>3. Len(frames) \in 1 .. Len(frames)
  BY <1>1, <1>2
<1> QED BY <1>2, <1>3 DEF Stacked

\* A call that does not wait has found no answer yet.
LEMMA NoAnswerYet ==
  ASSUME AnswerInv, NEW pc, At(pc), pc \notin Waiting
  PROVE  success = "NONE"
BY TopIsOpen DEF AnswerInv, AllWait

\* While a call chooses, the time is not up.
LEMMA InTime ==
  ASSUME AnswerInv, At("choose")
  PROVE  ~timeup
BY TopIsOpen DEF AnswerInv, NoneChooses

\* A call returns.
LEMMA Returned ==
  ASSUME AnswerInv, NEW pc, At(pc), Return
  PROVE  Stacked(frames') /\ AllWait(frames') /\ NoneChooses(frames')
BY TopIsOpen, Popped DEF AnswerInv, Return, Pop

\* The innermost call goes on with f.
LEMMA GoesOn ==
  ASSUME AnswerInv, NEW pc, At(pc), NEW f, SetTop(f), "pc" \in DOMAIN f
  PROVE  /\ Stacked(frames')
         /\ f.pc # "choose" => NoneChooses(frames')
<1>1. Stacked(frames) /\ frames # <<>>
  BY TopIsOpen DEF AnswerInv
<1>2. PICK F : frames \in Seq(F)
  BY <1>1 DEF Stacked
<1> DEFINE n == Len(frames)
<1>3. n \in Nat
  BY <1>2
<1>4. /\ Stacked(frames') /\ Len(frames') = n
      /\ \A i \in 1 .. n - 1 : frames'[i].pc \in Waiting
      /\ frames'[n] = f
  BY <1>1, Turned DEF SetTop
<1> HIDE DEF n
<1> QED BY <1>3, <1>4, Positions DEF NoneChooses, Waiting

\* A call opens a child.
LEMMA Opens ==
  ASSUME AnswerInv, NEW pc, At(pc), NEW f, NEW cfg, NEW D, NEW cexA,
         "pc" \in DOMAIN f, f.pc \in Waiting,
         frames' = Append([frames EXCEPT ![Len(frames)] = f], Frame(cfg, D, cexA))
  PROVE  Stacked(frames') /\ NoneChooses(frames')
<1>1. "pc" \in DOMAIN Frame(cfg, D, cexA) /\ Frame(cfg, D, cexA).pc = "enter"
  BY DEF Frame
<1>2. Stacked(frames) /\ frames # <<>>
  BY TopIsOpen DEF AnswerInv
<1> QED BY <1>1, <1>2, Pushed

\* A call chooses an event: it goes on, or opens a child.
LEMMA Chose ==
  ASSUME AnswerInv, At("choose"), UNCHANGED <<success, late, timeup>>,
         Stacked(frames')
  PROVE  AnswerInv'
BY NoAnswerYet, InTime DEF AnswerInv, AnswerKept, Waiting

LEMMA PassedOver ==
  ASSUME AnswerInv, At("choose"), NEW c, NEW pe, PassOver(c, pe)
  PROVE  Stacked(frames') /\ success' = success
<1>1. "pc" \in DOMAIN [Top EXCEPT !.i = c.at + 1]
  BY TopIsOpen DEF AnswerInv
<1> QED BY <1>1, GoesOn DEF PassOver

LEMMA Descended ==
  ASSUME AnswerInv, At("choose"), NEW c, NEW pe, NEW cs, NEW ev, Descend(c, pe, cs, ev)
  PROVE  Stacked(frames') /\ success' = success
<1> DEFINE f == [Top EXCEPT !.pc = "left", !.e = pe.e]
<1>1. "pc" \in DOMAIN f /\ f.pc \in Waiting
  BY TopIsOpen DEF AnswerInv, Waiting
<1>2. frames' = Append([frames EXCEPT ![Len(frames)] = f], Frame(Len(configs) + 1, Top.D, Top.cexA))
  BY DEF Descend
<1> HIDE DEF f
<1>3. Stacked(frames')
  BY <1>1, <1>2, Opens
<1> QED BY <1>3 DEF Descend

\* Every step keeps the invariant.
LEMMA AnswerStep == AnswerInv /\ [Next]_vars => AnswerInv'
<1> SUFFICES ASSUME AnswerInv, [Next]_vars PROVE AnswerInv'
  OBVIOUS
<1>1. CASE Late
  BY <1>1 DEF Late, AnswerInv, AnswerKept
<1>2. CASE TimeUp
  <2>1. success = "NONE" /\ Stacked(frames') /\ NoneChooses(frames')
    BY <1>2, NoAnswerYet, Returned DEF TimeUp, Waiting
  <2> QED BY <1>2, <2>1 DEF TimeUp, AnswerInv, AnswerKept
<1>3. CASE Cutoff
  <2>1. Stacked(frames') /\ AllWait(frames') /\ NoneChooses(frames')
    BY <1>3, Returned DEF Cutoff
  <2> QED BY <1>3, <2>1 DEF Cutoff, AnswerInv, AnswerKept
<1>4. ASSUME NEW g \in Uninitialised, Endpoint(g)
      PROVE  AnswerInv'
  <2>1. Stacked(frames') /\ AllWait(frames') /\ NoneChooses(frames')
    BY <1>4, Returned DEF Endpoint
  <2>2. ~timeup
    BY <1>4 DEF Endpoint, AnswerInv
  <2> QED BY <1>4, <2>1, <2>2 DEF Endpoint, AnswerInv, AnswerKept
<1>5. ASSUME NEW g \in Uninitialised, Extend(g)
      PROVE  AnswerInv'
  <2>1. "pc" \in DOMAIN [Top EXCEPT !.pc = "choose", !.D = EnterD, !.cexA = EnterA]
    BY <1>5, TopIsOpen DEF Extend, AnswerInv
  <2>2. Stacked(frames')
    BY <1>5, <2>1, GoesOn DEF Extend
  <2>3. success = "NONE" /\ ~timeup
    BY <1>5, NoAnswerYet DEF Extend, AnswerInv, Waiting
  <2> QED BY <1>5, <2>2, <2>3 DEF Extend, AnswerInv, AnswerKept
<1>6. CASE ChooseKnown
  <2>1. At("choose") /\ UNCHANGED <<late, timeup>>
    BY <1>6 DEF ChooseKnown
  <2>2. PICK c \in Candidates :
          LET pe == TopC.en[c.pe]
              found == Found(Reduced(pe), Reduced(pe).x, ReadB(pe.t, pe.x))
          IN  PassOver(c, found) \/ Descend(c, found, condition, event[found.e])
    BY <1>6 DEF ChooseKnown
  <2>3. Stacked(frames') /\ success' = success
    BY <2>1, <2>2, PassedOver, Descended
  <2> QED BY <2>1, <2>3, Chose
<1>7. CASE ChooseNew
  <2>1. At("choose") /\ UNCHANGED <<late, timeup>>
    BY <1>7 DEF ChooseNew
  <2>2. PICK c \in Candidates :
          LET pe == TopC.en[c.pe]
              cs == condition \o NewConditions(pe)
              ev == NewEvent(pe, Reduced(pe).x, ReadB(pe.t, pe.x), TopC.cut)
              added == [Reduced(pe) EXCEPT !.e = Len(event) + 1, !.had = TRUE]
          IN  PassOver(c, added) \/ Descend(c, added, cs, ev) \/ Return
    BY <1>7 DEF ChooseNew
  <2>3. CASE Return
    <3>1. Stacked(frames') /\ AllWait(frames') /\ NoneChooses(frames')
      BY <2>1, <2>3, Returned
    <3>2. ~timeup
      BY <2>1, InTime
    <3> QED BY <2>1, <3>1, <3>2 DEF AnswerInv, AnswerKept
  <2>4. CASE ~Return
    <3>1. Stacked(frames') /\ success' = success
      BY <2>1, <2>2, <2>4, PassedOver, Descended
    <3> QED BY <2>1, <3>1, Chose
  <2> QED BY <2>3, <2>4
<1>8. CASE NoLeftChild
  <2>1. At("choose") /\ "pc" \in DOMAIN [Top EXCEPT !.pc = "left"]
    BY <1>8, TopIsOpen DEF NoLeftChild, AnswerInv
  <2>2. Stacked(frames')
    BY <1>8, <2>1, GoesOn DEF NoLeftChild
  <2> QED BY <1>8, <2>1, <2>2, Chose DEF NoLeftChild
<1>9. ASSUME Stop \/ NoRightChild \/ RightDone
      PROVE  AnswerInv'
  <2>1. UNCHANGED <<success, late, timeup>>
    BY <1>9 DEF Stop, NoRightChild, RightDone
  <2>2. Stacked(frames') /\ AllWait(frames') /\ NoneChooses(frames')
    BY <1>9, Returned DEF Stop, NoRightChild, RightDone
  <2> QED BY <2>1, <2>2 DEF AnswerInv, AnswerKept
<1>10. CASE RightChild
  <2> DEFINE f == [Top EXCEPT !.pc = "right"]
  <2>1. At("left") /\ success = "NONE" /\ UNCHANGED <<success, late, timeup>>
    BY <1>10 DEF RightChild
  <2>2. "pc" \in DOMAIN f /\ f.pc \in Waiting
    BY <2>1, TopIsOpen DEF AnswerInv, Waiting
  <2>3. frames' = Append([frames EXCEPT ![Len(frames)] = f], Frame(Top.cfg, DPlus, Top.cexA \o Alternatives))
    BY <1>10 DEF RightChild
  <2> HIDE DEF f
  <2>4. Stacked(frames') /\ NoneChooses(frames')
    BY <2>1, <2>2, <2>3, Opens
  <2> QED BY <2>1, <2>4 DEF AnswerInv, AnswerKept
<1>11. CASE Report
  BY <1>11 DEF Report, AnswerInv, AnswerKept
<1>12. CASE UNCHANGED vars
  BY <1>12 DEF vars, AnswerInv, AnswerKept
<1> QED
  BY <1>1, <1>2, <1>3, <1>4, <1>5, <1>6, <1>7, <1>8, <1>9, <1>10, <1>11, <1>12 DEF Next, Explore

\* An answer that the unfolding found is never reported as a time out: it
\* stands with no later look at the clock, for every net.
THEOREM AnswersAreKept == Spec => []AnswerKept
<1>1. Init => AnswerInv
  <2> SUFFICES ASSUME Init PROVE AnswerInv
    OBVIOUS
  <2> DEFINE f == Frame(1, {}, <<>>)
  <2>1. frames = <<f>> /\ success = "NONE" /\ timeup = FALSE
    BY DEF Init
  <2>2. "pc" \in DOMAIN f
    BY DEF Frame
  <2> HIDE DEF f
  <2>3. frames \in Seq({f}) /\ Len(frames) = 1 /\ frames[1] = f
    BY <2>1
  <2>4. Stacked(frames)
    BY <2>2, <2>3 DEF Stacked
  <2> QED BY <2>1, <2>4 DEF AnswerInv, AnswerKept
<1>2. AnswerInv => AnswerKept
  BY DEF AnswerInv
<1> QED BY <1>1, <1>2, AnswerStep, PTL DEF Spec

-----------------------------------------------------------------------------
(* Sequences made by recursion. *)

\* A set of numbers has a least one, which Min picks.
LEMMA MinIsLeast ==
  ASSUME NEW A, A \subseteq Nat, A # {}
  PROVE  Min(A) \in A /\ \A n \in A : Min(A) <= n
<1> DEFINE R == OpToRel(<, Nat)
<1>1. PICK x \in A : \A y \in A : ~(<<y, x>> \in R)
  BY WFMin, NatLessThanWellFounded
<1>2. \A y \in A : ~(y < x)
  BY <1>1 DEF OpToRel
<1>3. \E k \in A : \A m \in A : k <= m
  BY <1>2
<1> QED BY <1>3 DEF Min

\* A set of positions of a sequence has a greatest one, which Max picks.
LEMMA MaxIsThere ==
  ASSUME NEW n \in Nat, NEW A, A \subseteq 1 .. n, A # {}
  PROVE  Max(A) \in A
<1> DEFINE K == {k \in Nat : \A a \in A : a <= k}
<1>1. n \in K
  OBVIOUS
<1>2. Min(K) \in K /\ \A k \in K : Min(K) <= k
  BY <1>1, MinIsLeast
<1>3. PICK m \in K : \A k \in K : m <= k
  BY <1>2
<1>4. m \in A
  <2> SUFFICES ASSUME m \notin A PROVE FALSE
    OBVIOUS
  <2>1. \A a \in A : a <= m - 1
    BY <1>3
  <2>2. m - 1 \in Nat
    <3>1. m \in Nat
      BY <1>3
    <3>2. PICK a \in A : TRUE
      OBVIOUS
    <3>3. a \in 1 .. n /\ a <= m - 1
      BY <2>1
    <3> QED BY <3>1, <3>3
  <2>3. m - 1 \in K
    BY <2>1, <2>2
  <2> QED BY <2>3, <1>3
<1>5. \A a \in A : m >= a
  BY <1>3
<1>6. \E a \in A : \A b \in A : a >= b
  BY <1>4, <1>5
<1> QED BY <1>6, Zenon DEF Max

\* Induction over the natural numbers, on a set instead of a formula.
LEMMA Induction ==
  ASSUME NEW K, 0 \in K, \A n \in Nat : n \in K => n + 1 \in K
  PROVE  Nat \subseteq K
<1> SUFFICES ASSUME Nat \ K # {} PROVE FALSE
  OBVIOUS
<1>1. PICK n \in Nat \ K : \A m \in Nat \ K : n <= m
  BY MinIsLeast
<1>2. n # 0 /\ n - 1 \in Nat
  BY <1>1
<1>3. n - 1 \in K
  BY <1>1, <1>2
<1>4. (n - 1) + 1 \in K
  BY <1>2, <1>3
<1> QED BY <1>1, <1>4

\* The concatenations of the first members of a sequence.
Flattened(f, n, s) == f = [i \in 1 .. n |-> IF i = 1 THEN s[i] ELSE f[i - 1] \o s[i]]

\* They exist, for every length.
LEMMA FlattenedExists ==
  ASSUME NEW s, NEW n \in Nat
  PROVE  \E f : Flattened(f, n, s)
<1> DEFINE K == {k \in Nat : \E f : Flattened(f, k, s)}
<1>1. 0 \in K
  <2> DEFINE f == [i \in 1 .. 0 |-> <<>>]
  <2>1. f = [i \in 1 .. 0 |-> IF i = 1 THEN s[i] ELSE f[i - 1] \o s[i]]
    OBVIOUS
  <2> QED BY <2>1 DEF Flattened
<1>2. ASSUME NEW k \in Nat, k \in K PROVE k + 1 \in K
  <2>1. PICK f : Flattened(f, k, s)
    BY <1>2
  <2> DEFINE g == [i \in 1 .. k + 1 |-> IF i = k + 1 THEN IF k = 0 THEN s[i] ELSE f[k] \o s[i] ELSE f[i]]
  <2>2. \A i \in 1 .. k + 1 : g[i] = IF i = 1 THEN s[i] ELSE g[i - 1] \o s[i]
    <3> TAKE i \in 1 .. k + 1
    <3>1. CASE i = k + 1
      <4>1. k # 0 => i - 1 = k /\ k \in 1 .. k + 1 /\ k # k + 1
        BY <3>1
      <4>2. i = 1 <=> k = 0
        BY <3>1
      <4>3. g[i] = IF k = 0 THEN s[i] ELSE f[k] \o s[i]
        BY <3>1
      <4>4. k # 0 => g[i - 1] = f[k]
        BY <4>1
      <4> HIDE DEF g
      <4> QED BY <4>2, <4>3, <4>4
    <3>2. CASE i # k + 1
      <4>1. i \in 1 .. k /\ (i # 1 => i - 1 \in 1 .. k + 1 /\ i - 1 # k + 1)
        BY <3>2
      <4>2. f[i] = IF i = 1 THEN s[i] ELSE f[i - 1] \o s[i]
        BY <2>1, <4>1 DEF Flattened
      <4>3. g[i] = f[i] /\ (i # 1 => g[i - 1] = f[i - 1])
        BY <4>1, <3>2
      <4> HIDE DEF g
      <4> QED BY <4>2, <4>3
    <3> QED BY <3>1, <3>2
  <2>3. g = [i \in 1 .. k + 1 |-> g[i]]
    OBVIOUS
  <2> HIDE DEF g
  <2>4. Flattened(g, k + 1, s)
    BY <2>2, <2>3 DEF Flattened
  <2> QED BY <2>4
<1> HIDE DEF K
<1>3. Nat \subseteq K
  BY <1>1, <1>2, Induction
<1> QED BY <1>3 DEF K

\* FlattenSeq makes a sequence of the members of its members.
LEMMA FlattenSeqOf ==
  ASSUME NEW G, NEW s, NEW n \in Nat, DOMAIN s = 1 .. n, \A i \in 1 .. n : s[i] \in Seq(G),
         s = [i \in DOMAIN s |-> s[i]]
  PROVE  FlattenSeq(s) \in Seq(G)
<1>1. s \in Seq(Seq(G)) /\ Len(s) = n
  BY SeqDef
<1> DEFINE f == CHOOSE h : Flattened(h, n, s)
           K == {k \in Nat : k + 1 <= n => f[k + 1] \in Seq(G)}
<1>2. FlattenSeq(s) = IF n = 0 THEN s ELSE f[n]
  <2>1. FlattenSeq(s) = IF Len(s) = 0 THEN s ELSE (CHOOSE h : Flattened(h, Len(s), s))[Len(s)]
    BY Zenon DEF FlattenSeq, Flattened
  <2> QED BY <2>1, <1>1
<1>3. Flattened(f, n, s)
  BY FlattenedExists
<1> HIDE DEF f
<1>4. \A i \in 1 .. n : f[i] = IF i = 1 THEN s[i] ELSE f[i - 1] \o s[i]
  BY <1>3 DEF Flattened
<1>5. 0 \in K
  <2>1. 1 <= n => 1 \in 1 .. n
    OBVIOUS
  <2> QED BY <1>4, <2>1
<1>6. ASSUME NEW k \in Nat, k \in K PROVE k + 1 \in K
  <2> SUFFICES ASSUME (k + 1) + 1 <= n PROVE f[(k + 1) + 1] \in Seq(G)
    OBVIOUS
  <2>1. (k + 1) + 1 \in 1 .. n /\ (k + 1) + 1 # 1 /\ ((k + 1) + 1) - 1 = k + 1 /\ k + 1 <= n
    OBVIOUS
  <2>2. f[k + 1] \in Seq(G)
    BY <1>6, <2>1
  <2>3. f[(k + 1) + 1] = f[k + 1] \o s[(k + 1) + 1]
    BY <1>4, <2>1
  <2> QED BY <2>1, <2>2, <2>3
<1> HIDE DEF K
<1>7. Nat \subseteq K
  BY <1>5, <1>6, Induction
<1>8. CASE n = 0
  <2>1. s = <<>>
    BY <1>1, <1>8
  <2> QED BY <1>2, <1>8, <2>1
<1>9. CASE n # 0
  <2>1. n - 1 \in Nat /\ (n - 1) + 1 = n /\ n <= n
    BY <1>9
  <2>2. n - 1 \in K
    BY <2>1, <1>7
  <2>3. f[(n - 1) + 1] \in Seq(G)
    BY <2>1, <2>2 DEF K
  <2> QED BY <1>2, <1>9, <2>1, <2>3
<1> QED BY <1>8, <1>9

\* The sequences Listed makes of the sets in D.
Lists(f, D) == f = [s \in D |-> IF s = {} THEN <<>>
                      ELSE Append(f[s \ {CHOOSE x \in s : TRUE}], CHOOSE x \in s : TRUE)]

UpTo(A, n) == {s \in SUBSET A : Cardinality(s) <= n}

\* The step of Listed: a set without the member that is chosen.
LEMMA Without ==
  ASSUME NEW A, IsFiniteSet(A), NEW n \in Nat, NEW s \in UpTo(A, n), s # {}
  PROVE  LET x == CHOOSE y \in s : TRUE
         IN  /\ x \in s /\ s \ {x} \in SUBSET A
             /\ Cardinality(s) \in Nat /\ Cardinality(s) # 0
             /\ Cardinality(s \ {x}) = Cardinality(s) - 1
<1> DEFINE x == CHOOSE y \in s : TRUE
<1>1. x \in s /\ s \subseteq A
  BY DEF UpTo
<1>2. IsFiniteSet(s)
  BY <1>1, FS_Subset
<1>3. IsFiniteSet(s \ {x}) /\ Cardinality(s \ {x}) = Cardinality(s) - 1
  BY <1>1, <1>2, FS_RemoveElement
<1>4. Cardinality(s) \in Nat /\ Cardinality(s) # 0
  BY <1>2, FS_CardinalityType, FS_EmptySet
<1> QED BY <1>1, <1>3, <1>4

\* They exist, for every size.
LEMMA ListsExist ==
  ASSUME NEW A, IsFiniteSet(A), NEW n \in Nat
  PROVE  \E f : Lists(f, UpTo(A, n))
<1> DEFINE K == {k \in Nat : \E f : Lists(f, UpTo(A, k))}
<1>1. 0 \in K
  <2> DEFINE f == [s \in UpTo(A, 0) |-> <<>>]
  <2>1. \A s \in UpTo(A, 0) : s = {}
    <3> TAKE s \in UpTo(A, 0)
    <3>1. Cardinality(s) <= 0
      BY DEF UpTo
    <3>2. s # {} => Cardinality(s) \in Nat /\ Cardinality(s) # 0
      BY Without, 0 \in Nat
    <3> QED BY <3>1, <3>2
  <2>2. f = [s \in UpTo(A, 0) |-> IF s = {} THEN <<>>
                      ELSE Append(f[s \ {CHOOSE x \in s : TRUE}], CHOOSE x \in s : TRUE)]
    BY <2>1
  <2> HIDE DEF f
  <2> QED BY <2>2 DEF Lists
<1>2. ASSUME NEW k \in Nat, k \in K PROVE k + 1 \in K
  <2>1. PICK f : Lists(f, UpTo(A, k))
    BY <1>2
  <2> DEFINE x(s) == CHOOSE y \in s : TRUE
             g == [s \in UpTo(A, k + 1) |-> IF s \in UpTo(A, k) THEN f[s] ELSE Append(f[s \ {x(s)}], x(s))]
  <2>2. ASSUME NEW s \in UpTo(A, k + 1)
        PROVE  g[s] = IF s = {} THEN <<>> ELSE Append(g[s \ {x(s)}], x(s))
    <3>1. CASE s = {}
      <4>1. s \in UpTo(A, k)
        BY <3>1, FS_EmptySet DEF UpTo
      <4>2. f[s] = <<>>
        BY <4>1, <3>1, <2>1 DEF Lists
      <4> QED BY <4>1, <4>2, <3>1
    <3>2. CASE s # {}
      <4>1. /\ s \ {x(s)} \in SUBSET A /\ Cardinality(s) \in Nat
            /\ Cardinality(s \ {x(s)}) = Cardinality(s) - 1
        BY <3>2, Without
      <4>2. s \ {x(s)} \in UpTo(A, k)
        <5>1. Cardinality(s) <= k + 1
          BY DEF UpTo
        <5>2. Cardinality(s) - 1 <= k
          BY <4>1, <5>1
        <5> QED BY <4>1, <5>2 DEF UpTo
      <4>3. s \ {x(s)} \in UpTo(A, k + 1)
        <5>1. Cardinality(s \ {x(s)}) <= k
          BY <4>2 DEF UpTo
        <5>2. Cardinality(s \ {x(s)}) <= k + 1
          BY <4>1, <5>1
        <5> QED BY <4>1, <5>2 DEF UpTo
      <4>4. g[s \ {x(s)}] = f[s \ {x(s)}]
        BY <4>2, <4>3
      <4>5. g[s] = Append(f[s \ {x(s)}], x(s))
        <5>1. s \in UpTo(A, k) => f[s] = Append(f[s \ {x(s)}], x(s))
          BY <3>2, <2>1 DEF Lists
        <5> QED BY <5>1
      <4> HIDE DEF g
      <4> QED BY <3>2, <4>4, <4>5
    <3> QED BY <3>1, <3>2
  <2>3. g = [s \in UpTo(A, k + 1) |-> g[s]]
    OBVIOUS
  <2> HIDE DEF g
  <2>4. g = [s \in UpTo(A, k + 1) |-> IF s = {} THEN <<>> ELSE Append(g[s \ {x(s)}], x(s))]
    BY <2>2, <2>3
  <2>5. Lists(g, UpTo(A, k + 1))
    BY <2>4 DEF Lists
  <2> QED BY <2>5
<1> HIDE DEF K
<1>3. Nat \subseteq K
  BY <1>1, <1>2, Induction
<1> QED BY <1>3 DEF K

\* Listed gives all members of a finite set, and no others.
Listing(q, s) == q \in Seq(s) /\ s = {q[k] : k \in DOMAIN q}

\* So does Listed, whose recursion runs over all subsets.
LEMMA ListedIsListing ==
  ASSUME NEW A, IsFiniteSet(A)
  PROVE  Listing(Listed(A), A)
<1> DEFINE f == CHOOSE h : Lists(h, SUBSET A)
           N == Cardinality(A)
           K == {k \in Nat : \A s \in UpTo(A, k) : Listing(f[s], s)}
<1>1. Listed(A) = f[A]
  BY Zenon DEF Listed, FoldSet, MapThenFoldSet, Lists
<1>2. N \in Nat /\ UpTo(A, N) = SUBSET A
  BY FS_Subset, FS_CardinalityType DEF UpTo
<1>3. Lists(f, SUBSET A)
  <2>1. \E h : Lists(h, SUBSET A)
    <3>1. PICK h : Lists(h, UpTo(A, N))
      BY <1>2, ListsExist
    <3> QED BY <1>2, <3>1
  <2> QED BY <2>1
<1> HIDE DEF f
<1>4. 0 \in K
  <2> SUFFICES ASSUME NEW s \in UpTo(A, 0) PROVE Listing(f[s], s)
    OBVIOUS
  <2>1. s = {}
    <3>1. Cardinality(s) <= 0
      BY DEF UpTo
    <3>2. s # {} => Cardinality(s) \in Nat /\ Cardinality(s) # 0
      BY Without, 0 \in Nat
    <3> QED BY <3>1, <3>2
  <2>2. f[s] = <<>>
    BY <2>1, <1>3 DEF Lists
  <2> QED BY <2>1, <2>2 DEF Listing
<1>5. ASSUME NEW k \in Nat, k \in K PROVE k + 1 \in K
  <2> SUFFICES ASSUME NEW s \in UpTo(A, k + 1) PROVE Listing(f[s], s)
    OBVIOUS
  <2>1. CASE s = {}
    <3>1. f[s] = <<>>
      BY <2>1, <1>3 DEF Lists
    <3> QED BY <2>1, <3>1 DEF Listing
  <2>2. CASE s # {}
    <3> DEFINE x == CHOOSE y \in s : TRUE
               r == s \ {x}
               q == f[r]
    <3>1. x \in s /\ r \in SUBSET A /\ Cardinality(s) \in Nat /\ Cardinality(r) = Cardinality(s) - 1
      BY <2>2, Without
    <3>2. f[s] = Append(q, x)
      BY <2>2, <1>3 DEF Lists, UpTo
    <3>3. r \in UpTo(A, k)
      <4>1. Cardinality(s) <= k + 1
        BY DEF UpTo
      <4>2. Cardinality(s) - 1 <= k
        BY <3>1, <4>1
      <4> QED BY <3>1, <4>2 DEF UpTo
    <3>4. Listing(q, r)
      BY <1>5, <3>3
    <3> HIDE DEF x, q
    <3>5. q \in Seq(r) /\ r = {q[j] : j \in DOMAIN q}
      BY <3>4 DEF Listing
    <3>6. q \in Seq(s)
      BY <3>5
    <3>7. PICK u : u = Append(q, x)
      OBVIOUS
    <3>8. /\ u \in Seq(s) /\ DOMAIN u = 1 .. Len(q) + 1 /\ DOMAIN q = 1 .. Len(q)
          /\ Len(q) \in Nat
          /\ u[Len(q) + 1] = x
          /\ \A j \in 1 .. Len(q) : u[j] = q[j]
      BY <3>6, <3>7, <3>1
    <3>9. \A j \in DOMAIN u : j = Len(q) + 1 \/ j \in DOMAIN q
      BY <3>8
    <3>10. Len(q) + 1 \in DOMAIN u /\ DOMAIN q \subseteq DOMAIN u
      BY <3>8
    <3>11. s = {u[j] : j \in DOMAIN u}
      <4>1. ASSUME NEW z \in s PROVE \E j \in DOMAIN u : u[j] = z
        <5>1. CASE z = x
          BY <5>1, <3>8, <3>10
        <5>2. CASE z # x
          <6>1. PICK j \in DOMAIN q : q[j] = z
            BY <5>2, <3>5
          <6> QED BY <6>1, <3>8, <3>10
        <5> QED BY <5>1, <5>2
      <4>2. \A j \in DOMAIN u : u[j] \in s
        BY <3>8, <3>9, <3>5, <3>1
      <4> QED BY <4>1, <4>2
    <3> QED BY <3>2, <3>7, <3>8, <3>11 DEF Listing
  <2> QED BY <2>1, <2>2
<1> HIDE DEF K
<1>6. Nat \subseteq K
  BY <1>4, <1>5, Induction
<1>7. A \in UpTo(A, N)
  BY <1>2
<1> QED BY <1>1, <1>2, <1>6, <1>7 DEF K

-----------------------------------------------------------------------------
(* What the unfolding keeps: events and extensions stand for firings. *)

IsSeq(s) == \E F : s \in Seq(F)

\* The conditions of x that add_Event leaves in an extension.
Kept(t, x) == x \ ReadB(t, x)

Mode(t, m) == \E k \in DOMAIN net.modes[t] : m = net.modes[t][k]

\* An extension of the cut c, which may have lost what it reads.
ExtensionOK(c, pe) ==
  /\ {"t", "mode", "x", "call", "e", "had"} \subseteq DOMAIN pe
  /\ pe.t \in T(net) /\ Mode(pe.t, pe.mode)
  /\ is_firable(pe.t, pe.mode, c)
  /\ pe.x = get_x(c, pe.mode) \/ pe.x = Kept(pe.t, get_x(c, pe.mode))

ConfigOK(C) ==
  /\ {"cut", "en"} \subseteq DOMAIN C
  /\ C.cut \subseteq DOMAIN condition
  /\ IsSeq(C.en)
  /\ \A k \in DOMAIN C.en : ExtensionOK(C.cut, C.en[k])

\* What a firing takes and puts on the places that are not only read.
Consumed(t, m) == {s \in m.in : s[1] \notin ReadP(t)}
Produced(t, m) == {s \in m.out : s[1] \notin ReadP(t)}
ReadTokens(t, m) == {s \in m.in : s[1] \in ReadP(t)}

Inputs(t, x) == {b \in x : \E a \in net.trans[t].in : a.p = condition[b].p}

EventMode(ev, m) ==
  /\ Mode(ev.t, m)
  /\ Tokens(ev.out) = Produced(ev.t, m)
  /\ Tokens(Inputs(ev.t, ev.in)) = Consumed(ev.t, m)
  /\ ev.read # {} => Tokens(ev.read) = ReadTokens(ev.t, m)

EventOK(ev) ==
  /\ ev.t \in T(net)
  /\ ev.in \subseteq DOMAIN condition /\ ev.out \subseteq DOMAIN condition
  /\ ev.read \subseteq DOMAIN condition
  /\ ev.in \cap ev.out = {}
  /\ \E m : EventMode(ev, m)

Grows ==
  /\ UNCHANGED <<net, tbl>>
  /\ DOMAIN condition \subseteq DOMAIN condition'
  /\ \A b \in DOMAIN condition : condition'[b] = condition[b]

\* The conditions there are stay as they are.
LEMMA TokensStay ==
  ASSUME Grows, NEW c, c \subseteq DOMAIN condition
  PROVE  /\ Tokens(c)' = Tokens(c)
         /\ \A t : ReadB(t, c)' = ReadB(t, c) /\ Kept(t, c)' = Kept(t, c) /\ Inputs(t, c)' = Inputs(t, c)
         /\ \A m : get_x(c, m)' = get_x(c, m)
<1>1. \A b \in c : condition'[b] = condition[b]
  BY DEF Grows
<1>2. net' = net /\ tbl' = tbl
  BY DEF Grows
<1>3. Tokens(c)' = Tokens(c)
  BY <1>1 DEF Tokens, TokensOf
<1>4. \A t : ReadB(t, c)' = ReadB(t, c)
  BY <1>1, <1>2 DEF ReadB, ReadP, Reads
<1>5. \A t : Kept(t, c)' = Kept(t, c)
  BY <1>4 DEF Kept
<1>6. \A t : Inputs(t, c)' = Inputs(t, c)
  BY <1>1, <1>2 DEF Inputs
<1>7. \A m : get_x(c, m)' = get_x(c, m)
  BY <1>1 DEF get_x
<1> QED BY <1>3, <1>4, <1>5, <1>6, <1>7

\* What can be fired at a cut can still be fired when the prefix has grown.
LEMMA FirableStays ==
  ASSUME Grows, NEW c, c \subseteq DOMAIN condition, NEW t, NEW m, is_firable(t, m, c)
  PROVE  is_firable(t, m, c)'
<1>1. Tokens(c)' = Tokens(c) /\ net' = net
  BY TokensStay DEF Grows
<1>2. \A a : Satisfied(a, c)' <=> Satisfied(a, c)
  BY <1>1 DEF Satisfied
<1> QED BY <1>1, <1>2 DEF is_firable

\* A sound extension stays sound when the prefix grows.
LEMMA ExtensionStays ==
  ASSUME Grows, NEW c, c \subseteq DOMAIN condition, NEW pe, ExtensionOK(c, pe)
  PROVE  ExtensionOK(c, pe)'
<1>1. net' = net
  BY DEF Grows
<1>2. is_firable(pe.t, pe.mode, c)'
  BY FirableStays DEF ExtensionOK
<1>3. get_x(c, pe.mode)' = get_x(c, pe.mode)
  BY TokensStay
<1>4. get_x(c, pe.mode) \subseteq DOMAIN condition
  BY DEF get_x
<1> DEFINE x == get_x(c, pe.mode)
<1>5. PICK y : y = x
  OBVIOUS
<1>6. Kept(pe.t, y)' = Kept(pe.t, y)
  BY <1>4, <1>5, TokensStay
<1>7. Kept(pe.t, get_x(c, pe.mode))' = Kept(pe.t, get_x(c, pe.mode))
  BY <1>1, <1>3, <1>5, <1>6
<1> QED BY <1>1, <1>2, <1>3, <1>7 DEF ExtensionOK, Mode, T

\* So does a configuration.
LEMMA ConfigStays ==
  ASSUME Grows, NEW C, ConfigOK(C)
  PROVE  ConfigOK(C)'
<1>1. \A k \in DOMAIN C.en : ExtensionOK(C.cut, C.en[k])'
  BY ExtensionStays DEF ConfigOK
<1>2. C.cut \subseteq DOMAIN condition'
  BY DEF ConfigOK, Grows
<1> QED BY <1>1, <1>2 DEF ConfigOK

\* And an event.
LEMMA EventStays ==
  ASSUME Grows, NEW ev, EventOK(ev)
  PROVE  EventOK(ev)'
<1>1. net' = net /\ tbl' = tbl
  BY DEF Grows
<1>2. PICK m : EventMode(ev, m)
  BY DEF EventOK
<1>3. Tokens(ev.out)' = Tokens(ev.out) /\ Tokens(ev.read)' = Tokens(ev.read)
  BY TokensStay DEF EventOK
<1>4. PICK y : y = Inputs(ev.t, ev.in)
  OBVIOUS
<1>5. Inputs(ev.t, ev.in)' = y
  BY <1>4, TokensStay DEF EventOK
<1>6. y \subseteq DOMAIN condition
  BY <1>4 DEF Inputs, EventOK
<1>7. Tokens(y)' = Tokens(y)
  BY <1>6, TokensStay
<1>8. Tokens(Inputs(ev.t, ev.in))' = Tokens(Inputs(ev.t, ev.in))
  BY <1>4, <1>5, <1>7
<1>9. EventMode(ev, m)'
  BY <1>1, <1>2, <1>3, <1>8 DEF EventMode, Mode, Produced, Consumed, ReadTokens, ReadP
<1>10. ev.in \subseteq DOMAIN condition' /\ ev.out \subseteq DOMAIN condition' /\ ev.read \subseteq DOMAIN condition'
  BY DEF EventOK, Grows
<1> QED BY <1>1, <1>9, <1>10 DEF EventOK, T

-----------------------------------------------------------------------------
(* Firings. *)

NetKnown == net \in ToSet(Nets) /\ tbl = Tables(net)

\* What NetsAssumption says of one firing.
LEMMA ModeFacts ==
  ASSUME NetKnown, NEW t \in T(net), NEW m, Mode(t, m)
  PROVE  /\ \A s \in m.in \cup m.out : s = <<s[1], s[2]>>
         /\ IsFiniteSet(m.out)
         /\ \A s \in m.in : \E a \in net.trans[t].in : a.p = s[1]
         /\ {s \in m.out : s[1] \in ReadP(t)} = ReadTokens(t, m)
         /\ \A l : Mode(t, l) /\ l.in = m.in => l.out = m.out
<1>1. NetOK(net)
  BY NetsAssumption DEF NetKnown
<1>2. tbl.read = map_readT(net)
  BY DEF NetKnown, Tables
<1>3. TransitionOK(net, tbl.read, t)
  BY <1>1, <1>2 DEF NetOK
<1>4. FiringOK(net, tbl.read, t, m)
  BY <1>3 DEF TransitionOK, Mode
<1>5. \A l : Mode(t, l) /\ l.in = m.in => l.out = m.out
  BY <1>3 DEF TransitionOK, Mode
<1> QED BY <1>4, <1>5 DEF FiringOK, OnPlaces, ReadP, ReadTokens

Tok(b) == <<condition[b].p, condition[b].color>>

\* The tokens of conditions, one by one.
LEMMA TokensAre ==
  ASSUME NEW c
  PROVE  \A s : s \in Tokens(c) <=> \E b \in c : s = Tok(b)
BY DEF Tokens, TokensOf, Tok

\* The place of a token is that of its condition.
LEMMA TokPlace ==
  ASSUME NEW b
  PROVE  Tok(b)[1] = condition[b].p
BY DEF Tok

\* What an extension finds at the cut has the tokens of its firing.
LEMMA FoundTokens ==
  ASSUME NetKnown, NEW t \in T(net), NEW m, Mode(t, m), NEW c, m.in \subseteq Tokens(c)
  PROVE  /\ Tokens(Kept(t, get_x(c, m))) = Consumed(t, m)
         /\ Tokens(ReadB(t, get_x(c, m))) = ReadTokens(t, m)
         /\ \A b \in get_x(c, m) : \E a \in net.trans[t].in : a.p = condition[b].p
         /\ Kept(t, get_x(c, m)) = {b \in c : Tok(b) \in m.in /\ condition[b].p \notin ReadP(t)}
<1>1. get_x(c, m) = {b \in c : Tok(b) \in m.in}
  BY DEF get_x, Tok
<1>2. Kept(t, get_x(c, m)) = {b \in c : Tok(b) \in m.in /\ condition[b].p \notin ReadP(t)}
  BY <1>1 DEF Kept, ReadB
<1>3. ReadB(t, get_x(c, m)) = {b \in c : Tok(b) \in m.in /\ condition[b].p \in ReadP(t)}
  BY <1>1 DEF ReadB
<1>4. \A s \in m.in : \E b \in c : s = Tok(b)
  BY TokensAre
<1>5. Tokens(Kept(t, get_x(c, m))) = Consumed(t, m)
  <2>1. ASSUME NEW s \in Consumed(t, m) PROVE s \in Tokens(Kept(t, get_x(c, m)))
    <3>1. s \in m.in /\ s[1] \notin ReadP(t)
      BY <2>1 DEF Consumed
    <3>2. PICK b \in c : s = Tok(b)
      BY <3>1, <1>4
    <3>3. b \in Kept(t, get_x(c, m))
      BY <3>1, <3>2, <1>2, TokPlace
    <3> QED BY <3>2, <3>3, TokensAre
  <2>2. ASSUME NEW s \in Tokens(Kept(t, get_x(c, m))) PROVE s \in Consumed(t, m)
    <3>1. PICK b \in Kept(t, get_x(c, m)) : s = Tok(b)
      BY <2>2, TokensAre
    <3> QED BY <3>1, <1>2, TokPlace DEF Consumed
  <2> QED BY <2>1, <2>2
<1>6. Tokens(ReadB(t, get_x(c, m))) = ReadTokens(t, m)
  <2>1. ASSUME NEW s \in ReadTokens(t, m) PROVE s \in Tokens(ReadB(t, get_x(c, m)))
    <3>1. s \in m.in /\ s[1] \in ReadP(t)
      BY <2>1 DEF ReadTokens
    <3>2. PICK b \in c : s = Tok(b)
      BY <3>1, <1>4
    <3>3. b \in ReadB(t, get_x(c, m))
      BY <3>1, <3>2, <1>3, TokPlace
    <3> QED BY <3>2, <3>3, TokensAre
  <2>2. ASSUME NEW s \in Tokens(ReadB(t, get_x(c, m))) PROVE s \in ReadTokens(t, m)
    <3>1. PICK b \in ReadB(t, get_x(c, m)) : s = Tok(b)
      BY <2>2, TokensAre
    <3> QED BY <3>1, <1>3, TokPlace DEF ReadTokens
  <2> QED BY <2>1, <2>2
<1>7. \A b \in get_x(c, m) : \E a \in net.trans[t].in : a.p = condition[b].p
  BY <1>1, ModeFacts, TokPlace
<1> QED BY <1>2, <1>5, <1>6, <1>7

\* Firing m of transition t at the cut c consumes the conditions in, of which
\* ov hold values that are lost, and makes the conditions out.
FiringAt(t, m, c, cs, ov, in, out) ==
  /\ t \in T(net) /\ Mode(t, m) /\ m.in \subseteq Tokens(c)
  /\ \A b \in c : cs[b] = condition[b]
  /\ ov \subseteq c /\ \A b \in ov : \A a \in net.trans[t].in : a.p # condition[b].p
  /\ in = Kept(t, get_x(c, m)) \cup ov
  /\ in \cap out = {} /\ TokensOf(cs, out) = Produced(t, m)

\* The cut behind an event of a firing has the tokens of the marking behind it.
LEMMA CutFires ==
  ASSUME NetKnown, NEW t, NEW m, NEW c, NEW cs, NEW ov, NEW in, NEW out,
         FiringAt(t, m, c, cs, ov, in, out)
  PROVE  TokensOf(cs, (c \cup out) \ in) = (Tokens(c \ ov) \ m.in) \cup m.out
<1>0. /\ t \in T(net) /\ Mode(t, m) /\ m.in \subseteq Tokens(c)
      /\ \A b \in c : cs[b] = condition[b]
      /\ ov \subseteq c /\ \A b \in ov : \A a \in net.trans[t].in : a.p # condition[b].p
      /\ in = Kept(t, get_x(c, m)) \cup ov
      /\ in \cap out = {} /\ TokensOf(cs, out) = Produced(t, m)
  BY DEF FiringAt
<1> DEFINE left == c \ in
<1>1. TokensOf(cs, (c \cup out) \ in) = Tokens(left) \cup Produced(t, m)
  <2>1. (c \cup out) \ in = left \cup out
    BY <1>0
  <2>2. TokensOf(cs, left \cup out) = TokensOf(cs, left) \cup TokensOf(cs, out)
    BY DEF TokensOf
  <2>3. TokensOf(cs, left) = Tokens(left)
    BY <1>0 DEF TokensOf, Tokens
  <2> QED BY <2>1, <2>2, <2>3, <1>0
<1>2. left = {b \in c \ ov : Tok(b) \notin m.in \/ condition[b].p \in ReadP(t)}
  BY <1>0, FoundTokens
<1>3. \A b \in ov : Tok(b) \notin m.in
  BY <1>0, ModeFacts, TokPlace
<1>4. Tokens(left) = (Tokens(c \ ov) \ m.in) \cup ReadTokens(t, m)
  <2>1. ASSUME NEW s \in Tokens(left) PROVE s \in (Tokens(c \ ov) \ m.in) \cup ReadTokens(t, m)
    <3>1. PICK b \in left : s = Tok(b)
      BY <2>1, TokensAre
    <3>2. s \in Tokens(c \ ov)
      BY <3>1, <1>2, TokensAre
    <3> QED BY <3>1, <3>2, <1>2, TokPlace DEF ReadTokens
  <2>2. ASSUME NEW s \in Tokens(c \ ov), s \notin m.in PROVE s \in Tokens(left)
    <3>1. PICK b \in c \ ov : s = Tok(b)
      BY <2>2, TokensAre
    <3>2. b \in left
      BY <3>1, <2>2, <1>2
    <3> QED BY <3>1, <3>2, TokensAre
  <2>3. ASSUME NEW s \in ReadTokens(t, m) PROVE s \in Tokens(left)
    <3>1. s \in m.in /\ s[1] \in ReadP(t)
      BY <2>3 DEF ReadTokens
    <3>2. PICK b \in c : s = Tok(b)
      BY <3>1, <1>0, TokensAre
    <3>3. b \in left
      BY <3>1, <3>2, <1>2, <1>3, TokPlace
    <3> QED BY <3>2, <3>3, TokensAre
  <2> QED BY <2>1, <2>2, <2>3
<1>5. m.out = ReadTokens(t, m) \cup Produced(t, m)
  <2>1. {s \in m.out : s[1] \in ReadP(t)} = ReadTokens(t, m)
    BY <1>0, ModeFacts
  <2> QED BY <2>1 DEF Produced
<1> QED BY <1>1, <1>4, <1>5

-----------------------------------------------------------------------------
(* Extensions. *)

\* An extension without what it reads consumes what its firing consumes.
LEMMA ReducedOK ==
  ASSUME NEW c, NEW pe, ExtensionOK(c, pe)
  PROVE  /\ Reduced(pe).x = Kept(pe.t, get_x(c, pe.mode))
         /\ Reduced(pe).t = pe.t /\ Reduced(pe).mode = pe.mode /\ Reduced(pe).call = pe.call
         /\ ExtensionOK(c, Reduced(pe))
<1> DEFINE x == pe.x \ ReadB(pe.t, pe.x)
<1>1. x = Kept(pe.t, get_x(c, pe.mode))
  BY DEF ExtensionOK, Kept, ReadB
<1>2. {"t", "mode", "x", "call", "e", "had"} \subseteq DOMAIN pe
  BY DEF ExtensionOK
<1> HIDE DEF x
<1>3. [pe EXCEPT !.x = x].x = x /\ [pe EXCEPT !.x = x].t = pe.t /\ [pe EXCEPT !.x = x].mode = pe.mode
      /\ [pe EXCEPT !.x = x].call = pe.call
      /\ DOMAIN [pe EXCEPT !.x = x] = DOMAIN pe
  BY <1>2
<1>4. Reduced(pe) = [pe EXCEPT !.x = x]
  BY DEF Reduced, x
<1> HIDE DEF Reduced
<1>5. /\ Reduced(pe).x = x /\ Reduced(pe).t = pe.t /\ Reduced(pe).mode = pe.mode /\ Reduced(pe).call = pe.call
      /\ DOMAIN Reduced(pe) = DOMAIN pe
  BY <1>3, <1>4
<1>6. ExtensionOK(c, Reduced(pe))
  BY <1>1, <1>5 DEF ExtensionOK
<1> QED BY <1>1, <1>5, <1>6

\* What had_extend writes into an extension leaves the rest of it.
LEMMA NumberedOK ==
  ASSUME NEW c, NEW pe, ExtensionOK(c, pe), NEW e, NEW had
  PROVE  LET found == [pe EXCEPT !.e = e, !.had = had]
         IN  ExtensionOK(c, found) /\ found.e = e
<1>1. {"t", "mode", "x", "call", "e", "had"} \subseteq DOMAIN pe
  BY DEF ExtensionOK
<1> DEFINE found == [pe EXCEPT !.e = e, !.had = had]
<1>2. /\ found.e = e /\ found.t = pe.t /\ found.mode = pe.mode /\ found.x = pe.x
      /\ DOMAIN found = DOMAIN pe
  BY <1>1
<1> HIDE DEF found
<1>3. ExtensionOK(c, found)
  BY <1>2 DEF ExtensionOK
<1> QED BY <1>2, <1>3 DEF found

\* An extension that had_extend has looked up is sound.
LEMMA FoundOK ==
  ASSUME NEW c, NEW pe, ExtensionOK(c, pe), NEW x, NEW r
  PROVE  ExtensionOK(c, Found(pe, x, r))
<1>1. CASE Existing(pe, x, r) = {}
  BY <1>1 DEF Found
<1>2. CASE Existing(pe, x, r) # {}
  <2>1. Found(pe, x, r) = [pe EXCEPT !.e = Min(Existing(pe, x, r)), !.had = TRUE]
    BY <1>2, Zenon DEF Found
  <2>2. PICK e : e = Min(Existing(pe, x, r))
    OBVIOUS
  <2>3. ExtensionOK(c, [pe EXCEPT !.e = e, !.had = TRUE])
    BY NumberedOK
  <2> QED BY <2>1, <2>2, <2>3
<1> QED BY <1>1, <1>2

\* What Extend makes of a firing is a sound extension.
LEMMA ExtensionIsOK ==
  ASSUME NEW c, NEW t \in T(net), NEW k \in DOMAIN net.modes[t], NEW g,
         is_firable(t, net.modes[t][k], c)
  PROVE  ExtensionOK(c, Extension(t, net.modes[t][k], c, g))
<1> DEFINE m == net.modes[t][k]
           x == get_x(c, m)
           call == cal_call(t, x, g)
           pe == [t |-> t, mode |-> m, x |-> x, call |-> call, e |-> 0, had |-> FALSE]
<1>1. Extension(t, m, c, g) = Found(pe, x, ReadB(t, x))
  BY Zenon DEF Extension
<1>2. Mode(t, m)
  BY DEF Mode
<1> HIDE DEF call, m
<1>3. ExtensionOK(c, pe)
  BY <1>2 DEF ExtensionOK, m
<1> QED BY <1>1, <1>3, FoundOK DEF m

\* Extend's list has only extensions that can be fired.
LEMMA ExtensionsOK ==
  ASSUME NetKnown, NEW c, NEW g
  PROVE  IsSeq(Extensions(c, g)) /\ \A k \in DOMAIN Extensions(c, g) : ExtensionOK(c, Extensions(c, g)[k])
<1> DEFINE all == {Extension(t, net.modes[t][k], c, g) : t \in T(net), k \in Nat}
           G == {pe \in all : ExtensionOK(c, pe)}
           of(t, m) == IF t \notin net.abort /\ is_firable(t, m, c) THEN <<Extension(t, m, c, g)>> ELSE <<>>
           ofT(t) == [k \in DOMAIN net.modes[t] |-> of(t, net.modes[t][k])]
           flat == [t \in T(net) |-> FlattenSeq(ofT(t))]
<1>1. NetOK(net)
  BY NetsAssumption DEF NetKnown
<1>2. Len(net.trans) \in Nat /\ T(net) = 1 .. Len(net.trans)
  BY <1>1 DEF NetOK
<1>3. \A t \in T(net) : Len(net.modes[t]) \in Nat /\ DOMAIN net.modes[t] = 1 .. Len(net.modes[t])
  BY <1>1 DEF NetOK, TransitionOK
<1>4. ASSUME NEW t \in T(net), NEW k \in DOMAIN net.modes[t]
      PROVE  of(t, net.modes[t][k]) \in Seq(G)
  <2>1. CASE t \notin net.abort /\ is_firable(t, net.modes[t][k], c)
    <3>1. ExtensionOK(c, Extension(t, net.modes[t][k], c, g))
      BY <2>1, ExtensionIsOK
    <3>2. k \in Nat
      BY <1>3
    <3>3. PICK pe : pe = Extension(t, net.modes[t][k], c, g)
      OBVIOUS
    <3>4. pe \in G
      BY <3>1, <3>2, <3>3
    <3>5. of(t, net.modes[t][k]) = <<pe>>
      BY <2>1, <3>3
    <3> HIDE DEF G
    <3> QED BY <3>4, <3>5
  <2>2. CASE ~ (t \notin net.abort /\ is_firable(t, net.modes[t][k], c))
    <3>1. of(t, net.modes[t][k]) = <<>>
      BY <2>2
    <3> QED BY <3>1
  <2> QED BY <2>1, <2>2
<1> HIDE DEF of, G
<1>5. ASSUME NEW t \in T(net) PROVE FlattenSeq(ofT(t)) \in Seq(G)
  <2> DEFINE n == Len(net.modes[t])
             s == ofT(t)
  <2>1. n \in Nat /\ DOMAIN s = 1 .. n
    BY <1>3
  <2>2. \A i \in 1 .. n : s[i] \in Seq(G)
    BY <1>3, <1>4
  <2>3. s = [i \in DOMAIN s |-> s[i]]
    OBVIOUS
  <2> HIDE DEF n, s
  <2>4. FlattenSeq(s) \in Seq(G)
    BY <2>1, <2>2, <2>3, FlattenSeqOf
  <2> QED BY <2>4 DEF s
<1> HIDE DEF ofT
<1>6. FlattenSeq(flat) \in Seq(G)
  <2> DEFINE n == Len(net.trans)
  <2>1. n \in Nat /\ DOMAIN flat = 1 .. n
    BY <1>2
  <2>2. \A i \in 1 .. n : flat[i] \in Seq(G)
    BY <1>2, <1>5
  <2>3. flat = [i \in DOMAIN flat |-> flat[i]]
    OBVIOUS
  <2> HIDE DEF n, flat
  <2> QED BY <2>1, <2>2, <2>3, FlattenSeqOf
<1>7. Extensions(c, g) = Reverse(FlattenSeq(flat))
  BY Zenon DEF Extensions, flat, ofT, of
<1>8. PICK s : s = FlattenSeq(flat)
  OBVIOUS
<1> HIDE DEF flat
<1>9. Reverse(s) \in Seq(G)
  <2>1. s \in Seq(G)
    BY <1>6, <1>8
  <2>2. Len(s) \in Nat /\ \A i \in 1 .. Len(s) : s[i] \in G /\ (Len(s) - i) + 1 \in 1 .. Len(s)
    BY <2>1
  <2> QED BY <2>2 DEF Reverse
<1>10. PICK r : r = Reverse(s)
  OBVIOUS
<1>11. r \in Seq(G) /\ Extensions(c, g) = r
  BY <1>7, <1>8, <1>9, <1>10
<1>12. \A k \in DOMAIN r : r[k] \in G
  BY <1>11
<1>13. \A k \in DOMAIN r : ExtensionOK(c, r[k])
  BY <1>12 DEF G
<1> QED BY <1>11, <1>13 DEF IsSeq

-----------------------------------------------------------------------------
(* Events. *)

EventsOK == \A e \in DOMAIN event : EventOK(event[e])

\* An extension that has what it reads is as it was found.
LEMMA StillReads ==
  ASSUME NEW c, NEW pe, ExtensionOK(c, pe), ReadB(pe.t, pe.x) # {}
  PROVE  ReadB(pe.t, pe.x) = ReadB(pe.t, get_x(c, pe.mode))
BY DEF ExtensionOK, Kept, ReadB

\* An event of the prefix that an extension finds, with what it reads, is one
\* of the same firing.
LEMMA KnownFires ==
  ASSUME NetKnown, EventsOK, NEW c, c \subseteq DOMAIN condition, NEW pe, ExtensionOK(c, pe),
         ReadP(pe.t) # {} => ReadB(pe.t, pe.x) # {}, Overwritten(pe.t, c) = {},
         NEW e \in Existing(Reduced(pe), Reduced(pe).x, ReadB(pe.t, pe.x))
  PROVE  /\ e \in DOMAIN event /\ event[e].t = pe.t
         /\ TokensOf(condition, (c \cup event[e].out) \ event[e].in)
              = (Tokens(c \ Overwritten(pe.t, c)) \ pe.mode.in) \cup pe.mode.out
<1> DEFINE t == pe.t
           m == pe.mode
           ev == event[e]
           x == get_x(c, m)
<1>1. /\ Reduced(pe).x = Kept(t, x) /\ Reduced(pe).t = t
      /\ t \in T(net) /\ Mode(t, m) /\ m.in \subseteq Tokens(c)
  BY ReducedOK DEF ExtensionOK, is_firable
<1>2. /\ e \in DOMAIN event /\ ev.t = t /\ ev.in = Kept(t, x)
      /\ t \in DOMAIN tbl.read => ev.read = ReadB(t, pe.x)
  BY <1>1 DEF Existing, ConsumersOf
<1>3. EventOK(ev)
  BY <1>2 DEF EventsOK
<1>4. PICK l : EventMode(ev, l)
  BY <1>3 DEF EventOK
<1>5. /\ Tokens(Kept(t, x)) = Consumed(t, m)
      /\ Tokens(ReadB(t, x)) = ReadTokens(t, m)
      /\ \A b \in x : \E a \in net.trans[t].in : a.p = condition[b].p
  BY <1>1, FoundTokens
<1>6. Consumed(t, l) = Consumed(t, m)
  <2>1. Kept(t, x) \subseteq x
    BY DEF Kept
  <2>2. Inputs(t, Kept(t, x)) = Kept(t, x)
    BY <1>5, <2>1 DEF Inputs
  <2>3. Tokens(Inputs(t, Kept(t, x))) = Consumed(t, l)
    BY <1>2, <1>4 DEF EventMode
  <2> QED BY <1>5, <2>2, <2>3
<1>7. ReadTokens(t, l) = ReadTokens(t, m)
  <2>1. CASE ReadP(t) = {}
    BY <2>1 DEF ReadTokens
  <2>2. CASE ReadP(t) # {}
    <3>1. t \in DOMAIN tbl.read
      BY <2>2 DEF ReadP, Reads
    <3>2. ev.read = ReadB(t, x) /\ ev.read # {}
      BY <3>1, <2>2, <1>2, StillReads
    <3>3. Tokens(ev.read) = ReadTokens(t, l)
      BY <3>2, <1>2, <1>4 DEF EventMode
    <3> QED BY <3>2, <3>3, <1>5
  <2> QED BY <2>1, <2>2
<1>8. l.in = m.in
  <2>1. l.in = Consumed(t, l) \cup ReadTokens(t, l) /\ m.in = Consumed(t, m) \cup ReadTokens(t, m)
    BY DEF Consumed, ReadTokens
  <2> QED BY <2>1, <1>6, <1>7
<1>9. l.out = m.out
  <2>1. Mode(t, l)
    BY <1>2, <1>4 DEF EventMode
  <2> QED BY <2>1, <1>1, <1>8, ModeFacts
<1>10. Tokens(ev.out) = Produced(t, m)
  BY <1>2, <1>4, <1>9 DEF EventMode, Produced
<1>11. PICK in : in = ev.in
  OBVIOUS
<1>12. PICK out : out = ev.out
  OBVIOUS
<1>13. in = Kept(t, x) \cup Overwritten(t, c) /\ in \cap out = {} /\ TokensOf(condition, out) = Produced(t, m)
  BY <1>2, <1>3, <1>10, <1>11, <1>12 DEF EventOK, Tokens
<1>14. TokensOf(condition, (c \cup out) \ in) = (Tokens(c \ Overwritten(t, c)) \ m.in) \cup m.out
  <2>1. PICK ov : ov = Overwritten(t, c)
    OBVIOUS
  <2>2. FiringAt(t, m, c, condition, ov, in, out)
    BY <1>1, <1>13, <2>1 DEF FiringAt
  <2>3. TokensOf(condition, (c \cup out) \ in) = (Tokens(c \ ov) \ m.in) \cup m.out
    BY <2>2, CutFires
  <2> QED BY <2>1, <2>3
<1> QED BY <1>2, <1>11, <1>12, <1>14

\* The conditions of a new event are new, and have the tokens its firing puts.
LEMMA NewConditionsOK ==
  ASSUME NetKnown, IsSeq(condition), NEW c, NEW pe, ExtensionOK(c, pe)
  PROVE  LET new == NewConditions(pe)
             cs  == condition \o new
             out == Len(condition) + 1 .. Len(condition) + Len(new)
         IN  /\ IsSeq(cs)
             /\ DOMAIN cs = DOMAIN condition \cup out
             /\ DOMAIN condition \cap out = {}
             /\ \A b \in DOMAIN condition : cs[b] = condition[b]
             /\ TokensOf(cs, out) = Produced(pe.t, pe.mode)
<1> DEFINE S == Produced(pe.t, pe.mode)
           put == Listed(S)
           made(s) == [p |-> s[1], color |-> s[2], producer |-> Len(event) + 1]
           G == {made(s) : s \in S}
<1>1. IsFiniteSet(S)
  <2>1. IsFiniteSet(pe.mode.out)
    BY ModeFacts DEF ExtensionOK
  <2> QED BY <2>1, FS_Subset DEF Produced
<1>2. \A s \in S : s = <<s[1], s[2]>>
  BY ModeFacts DEF ExtensionOK, Produced
<1>3. PICK q : q = put
  OBVIOUS
<1>4. q \in Seq(S) /\ S = {q[k] : k \in DOMAIN q}
  BY <1>1, <1>3, ListedIsListing DEF Listing
<1>5. NewConditions(pe) = [k \in DOMAIN q |-> made(q[k])]
  BY <1>3 DEF NewConditions, Produced
<1> HIDE DEF put, made, G, S
<1> DEFINE n == Len(q)
<1>6. n \in Nat /\ DOMAIN q = 1 .. n /\ \A k \in 1 .. n : q[k] \in S
  BY <1>4
<1>7. PICK new : new = NewConditions(pe)
  OBVIOUS
<1>8. new \in Seq(G) /\ Len(new) = n /\ \A k \in 1 .. n : new[k] = made(q[k])
  <2>1. \A k \in 1 .. n : made(q[k]) \in G
    BY <1>6 DEF G
  <2>2. new = [k \in 1 .. n |-> made(q[k])]
    BY <1>5, <1>6, <1>7
  <2> HIDE DEF n
  <2> QED BY <2>1, <2>2, <1>6
<1>9. PICK F : condition \in Seq(F)
  BY DEF IsSeq
<1> DEFINE N == Len(condition)
           H == F \cup G
           cs == condition \o new
           out == N + 1 .. N + n
<1>10. N \in Nat /\ DOMAIN condition = 1 .. N
  BY <1>9
<1>11. condition \in Seq(H) /\ new \in Seq(H)
  BY <1>8, <1>9
<1>12. /\ cs \in Seq(H) /\ DOMAIN cs = 1 .. N + n
       /\ \A b \in 1 .. N : cs[b] = condition[b]
       /\ \A k \in 1 .. n : cs[N + k] = new[k]
  <2> HIDE DEF H, n
  <2> QED BY <1>8, <1>10, <1>11
<1> HIDE DEF cs, N, H, n
<1>13. 1 .. N + n = 1 .. N \cup out /\ 1 .. N \cap out = {}
  BY <1>6, <1>10
<1>14. TokensOf(cs, out) = S
  <2>1. \A k \in 1 .. n : <<cs[N + k].p, cs[N + k].color>> = q[k]
    <3> TAKE k \in 1 .. n
    <3>1. cs[N + k] = made(q[k])
      BY <1>8, <1>12
    <3>2. q[k] = <<q[k][1], q[k][2]>>
      BY <1>2, <1>6
    <3> QED BY <3>1, <3>2 DEF made
  <2>2. \A b \in out : \E k \in 1 .. n : b = N + k
    <3> TAKE b \in out
    <3>1. b - N \in 1 .. n /\ b = N + (b - N)
      BY <1>6, <1>10
    <3> QED BY <3>1
  <2>3. \A k \in 1 .. n : N + k \in out
    BY <1>6, <1>10
  <2>4. ASSUME NEW s \in S PROVE s \in TokensOf(cs, out)
    <3>1. PICK k \in 1 .. n : s = q[k]
      BY <1>4, <1>6
    <3>2. N + k \in out /\ s = <<cs[N + k].p, cs[N + k].color>>
      BY <2>1, <2>3, <3>1
    <3> QED BY <3>2 DEF TokensOf
  <2>5. ASSUME NEW s \in TokensOf(cs, out) PROVE s \in S
    <3>1. PICK b \in out : s = <<cs[b].p, cs[b].color>>
      BY <2>5 DEF TokensOf
    <3>2. PICK k \in 1 .. n : b = N + k
      BY <2>2
    <3> QED BY <3>1, <3>2, <2>1, <1>6
  <2> QED BY <2>4, <2>5
<1>15. /\ IsSeq(cs) /\ DOMAIN cs = DOMAIN condition \cup out /\ DOMAIN condition \cap out = {}
       /\ \A b \in DOMAIN condition : cs[b] = condition[b]
       /\ TokensOf(cs, out) = Produced(pe.t, pe.mode)
  BY <1>10, <1>12, <1>13, <1>14 DEF IsSeq, S
<1> QED BY <1>15, <1>7, <1>8 DEF cs, N

\* What add_Event writes into a new event.
LEMMA NewEventIs ==
  ASSUME NEW pe, NEW x, NEW r, NEW c, NEW cutoff
  PROVE  LET ev == NewEvent(pe, x, r, c)
             marked == [ev EXCEPT !.cutoff = cutoff]
         IN  /\ ev.t = pe.t /\ ev.in = x \cup Overwritten(pe.t, c) /\ ev.read = r
             /\ ev.out = Len(condition) + 1 .. Len(condition) + Len(NewConditions(pe))
             /\ marked.t = ev.t /\ marked.in = ev.in /\ marked.out = ev.out /\ marked.read = ev.read
<1> DEFINE ev == NewEvent(pe, x, r, c)
<1>1. PICK vec : vec = LocalVec(x)
  OBVIOUS
<1>2. PICK in : in = x \cup Overwritten(pe.t, c)
  OBVIOUS
<1>3. PICK out : out = Len(condition) + 1 .. Len(condition) + Len(NewConditions(pe))
  OBVIOUS
<1>4. PICK cut : cut = LocalCut(in, out, vec)
  OBVIOUS
<1>5. ev = [t |-> pe.t, call |-> pe.call, in |-> in, out |-> out, read |-> r,
            vec |-> vec, cut |-> cut, cutoff |-> FALSE]
  BY <1>1, <1>2, <1>3, <1>4, Zenon DEF NewEvent
<1> HIDE DEF ev
<1>6. LET marked == [ev EXCEPT !.cutoff = cutoff]
      IN  /\ ev.t = pe.t /\ ev.in = in /\ ev.read = r /\ ev.out = out
          /\ marked.t = ev.t /\ marked.in = ev.in /\ marked.out = ev.out /\ marked.read = ev.read
  BY <1>5
<1> QED BY <1>2, <1>3, <1>6 DEF ev

\* add_Event makes ev of extension pe at the cut c.
Makes(c, pe, cutoff, ev) ==
  /\ c \subseteq DOMAIN condition /\ ExtensionOK(c, pe)
  /\ UNCHANGED <<net, tbl>> /\ condition' = condition \o NewConditions(pe)
  /\ ev = [NewEvent(pe, Reduced(pe).x, ReadB(pe.t, pe.x), c) EXCEPT !.cutoff = cutoff]

\* The cut c with ev has the tokens of the marking behind pe's firing.
FiresAs(cs, c, pe, ev) ==
  TokensOf(cs, (c \cup ev.out) \ ev.in) = (Tokens(c \ Overwritten(pe.t, c)) \ pe.mode.in) \cup pe.mode.out

\* A new event fires what it was found for, and stands for it from then on.
LEMMA NewEventFires ==
  ASSUME NetKnown, IsSeq(condition), NEW c, NEW pe, NEW cutoff, NEW ev, Makes(c, pe, cutoff, ev)
  PROVE  /\ Grows /\ IsSeq(condition)' /\ EventOK(ev)' /\ ev.t = pe.t
         /\ FiresAs(condition', c, pe, ev)
<1> DEFINE t == pe.t
           m == pe.mode
           x == get_x(c, m)
           ov == Overwritten(t, c)
<1>0. /\ c \subseteq DOMAIN condition /\ ExtensionOK(c, pe)
      /\ UNCHANGED <<net, tbl>> /\ condition' = condition \o NewConditions(pe)
      /\ ev = [NewEvent(pe, Reduced(pe).x, ReadB(pe.t, pe.x), c) EXCEPT !.cutoff = cutoff]
  BY DEF Makes
<1>1. /\ Reduced(pe).x = Kept(t, x)
      /\ t \in T(net) /\ Mode(t, m) /\ m.in \subseteq Tokens(c)
  BY <1>0, ReducedOK DEF ExtensionOK, is_firable
<1>2. PICK in : in = Kept(t, x) \cup ov
  OBVIOUS
<1>3. PICK out : out = Len(condition) + 1 .. Len(condition) + Len(NewConditions(pe))
  OBVIOUS
<1>4. PICK r : r = ReadB(t, pe.x)
  OBVIOUS
<1>5. ev.t = t /\ ev.in = in /\ ev.out = out /\ ev.read = r
  BY <1>0, <1>1, <1>2, <1>3, <1>4, NewEventIs
<1>6. /\ IsSeq(condition)' /\ DOMAIN condition' = DOMAIN condition \cup out
      /\ DOMAIN condition \cap out = {}
      /\ \A b \in DOMAIN condition : condition'[b] = condition[b]
      /\ TokensOf(condition', out) = Produced(t, m)
  BY <1>0, <1>3, NewConditionsOK DEF IsSeq
<1>7. Grows
  BY <1>0, <1>6 DEF Grows
<1>8. /\ Tokens(Kept(t, x)) = Consumed(t, m)
      /\ Tokens(ReadB(t, x)) = ReadTokens(t, m)
      /\ \A b \in x : \E a \in net.trans[t].in : a.p = condition[b].p
  BY <1>1, FoundTokens
<1>9. /\ ov \subseteq c /\ \A b \in ov : \A a \in net.trans[t].in : a.p # condition[b].p
      /\ Kept(t, x) \subseteq x /\ x \subseteq c /\ ReadB(t, x) \subseteq x
  BY DEF Overwritten, Kept, get_x, ReadB
<1>10. in \subseteq DOMAIN condition /\ in \cap out = {}
  BY <1>0, <1>2, <1>6, <1>9
<1>11. TokensOf(condition', (c \cup ev.out) \ ev.in) = (Tokens(c \ ov) \ m.in) \cup m.out
  <2>1. PICK lost : lost = ov
    OBVIOUS
  <2>2. PICK cs : cs = condition'
    OBVIOUS
  <2>3. FiringAt(t, m, c, cs, lost, in, out)
    <3>1. \A b \in c : cs[b] = condition[b]
      BY <1>0, <1>6, <2>2
    <3>2. TokensOf(cs, out) = Produced(t, m)
      BY <1>6, <2>2
    <3>3. lost \subseteq c /\ \A b \in lost : \A a \in net.trans[t].in : a.p # condition[b].p
      BY <1>9, <2>1
    <3>4. in = Kept(t, get_x(c, m)) \cup lost
      BY <1>2, <2>1
    <3> QED BY <1>1, <1>10, <3>1, <3>2, <3>3, <3>4 DEF FiringAt
  <2>4. TokensOf(cs, (c \cup out) \ in) = (Tokens(c \ lost) \ m.in) \cup m.out
    <3> HIDE DEF t, m, ov
    <3>1. NetKnown
      OBVIOUS
    <3> QED BY <2>3, <3>1, CutFires
  <2> QED BY <2>1, <2>2, <2>4, <1>5
<1>12. Inputs(t, in) = Kept(t, x)
  BY <1>2, <1>8, <1>9 DEF Inputs
<1>13. Tokens(Inputs(t, in))' = Consumed(t, m)
  <2>1. PICK y : y = Kept(t, x)
    OBVIOUS
  <2>2. y \subseteq DOMAIN condition
    BY <1>0, <2>1, <1>9
  <2>3. Tokens(y)' = Tokens(y)
    BY <1>7, <2>2, TokensStay
  <2>4. PICK u : u = t
    OBVIOUS
  <2>5. Inputs(u, in)' = Inputs(u, in)
    BY <1>7, <1>10, TokensStay
  <2>6. Inputs(u, in)' = y
    BY <2>1, <2>4, <2>5, <1>12
  <2>7. Tokens(Inputs(u, in))' = Tokens(y)'
    BY <2>6 DEF Tokens
  <2> QED BY <2>1, <2>3, <2>4, <2>7, <1>8
<1>14. r # {} => Tokens(r)' = ReadTokens(t, m) /\ r \subseteq DOMAIN condition
  <2> SUFFICES ASSUME r # {} PROVE Tokens(r)' = ReadTokens(t, m) /\ r \subseteq DOMAIN condition
    OBVIOUS
  <2>1. r = ReadB(t, x)
    BY <1>0, <1>4, StillReads
  <2>2. r \subseteq DOMAIN condition
    BY <1>0, <2>1, <1>9
  <2>3. Tokens(r)' = Tokens(r)
    BY <1>7, <2>2, TokensStay
  <2> QED BY <2>1, <2>2, <2>3, <1>8
<1>15. EventMode(ev, m)'
  <2>1. net' = net /\ tbl' = tbl
    BY <1>0
  <2>2. PICK l : l = m
    OBVIOUS
  <2>3. PICK u : u = t
    OBVIOUS
  <2>4. Mode(u, l)'
    BY <1>1, <2>1, <2>2, <2>3 DEF Mode
  <2>5. Tokens(out)' = Produced(u, l)'
    BY <1>6, <2>1, <2>2, <2>3 DEF Tokens, Produced, ReadP
  <2>6. Tokens(Inputs(u, in))' = Consumed(u, l)'
    BY <1>13, <2>1, <2>2, <2>3 DEF Consumed, ReadP
  <2>7. r # {} => Tokens(r)' = ReadTokens(u, l)'
    BY <1>14, <2>1, <2>2, <2>3 DEF ReadTokens, ReadP
  <2>8. EventMode(ev, l)'
    BY <2>3, <2>4, <2>5, <2>6, <2>7, <1>5 DEF EventMode
  <2> QED BY <2>2, <2>8
<1>16. EventOK(ev)'
  <2>1. ev.in \subseteq DOMAIN condition' /\ ev.out \subseteq DOMAIN condition'
        /\ ev.read \subseteq DOMAIN condition' /\ ev.in \cap ev.out = {}
    BY <1>5, <1>6, <1>10, <1>14
  <2>2. ev.t \in T(net)'
    BY <1>0, <1>1, <1>5 DEF T
  <2> QED BY <2>1, <2>2, <1>15 DEF EventOK
<1> QED BY <1>5, <1>6, <1>7, <1>11, <1>16 DEF FiresAs

-----------------------------------------------------------------------------
(* The open calls, and their configurations. *)

FrameOK(f, n) == {"cfg", "i"} \subseteq DOMAIN f /\ f.cfg \in 1 .. n /\ f.i \in Nat \ {0}

\* The open calls of s have configurations among the first n, later calls
\* later ones.
Framed(s, n) ==
  /\ IsSeq(s)
  /\ \A k \in DOMAIN s : FrameOK(s[k], n)
  /\ \A j, k \in DOMAIN s : j <= k => s[j].cfg <= s[k].cfg

\* The positions of a sequence.
LEMMA SeqIs ==
  ASSUME NEW s, IsSeq(s)
  PROVE  Len(s) \in Nat /\ DOMAIN s = 1 .. Len(s) /\ (s # <<>> => Len(s) \in DOMAIN s)
BY DEF IsSeq

\* A sequence with one element replaced.
LEMMA SeqReplaced ==
  ASSUME NEW s, IsSeq(s), NEW k, NEW x
  PROVE  LET t == [s EXCEPT ![k] = x]
         IN  /\ IsSeq(t) /\ Len(t) = Len(s) /\ DOMAIN t = DOMAIN s
             /\ \A j \in DOMAIN s : t[j] = IF j = k THEN x ELSE s[j]
<1>1. PICK F : s \in Seq(F)
  BY DEF IsSeq
<1> DEFINE G == F \cup {x}
           t == [s EXCEPT ![k] = x]
<1>2. Len(s) \in Nat /\ DOMAIN s = 1 .. Len(s) /\ \A j \in DOMAIN s : s[j] \in F
  BY <1>1
<1>3. DOMAIN t = DOMAIN s /\ \A j \in DOMAIN s : t[j] = IF j = k THEN x ELSE s[j]
  OBVIOUS
<1>4. t = [j \in 1 .. Len(s) |-> t[j]]
  BY <1>2, <1>3
<1>5. \A j \in 1 .. Len(s) : t[j] \in G
  BY <1>2, <1>3
<1> HIDE DEF t, G
<1>6. t \in Seq(G) /\ Len(t) = Len(s)
  BY <1>2, <1>4, <1>5
<1> QED BY <1>3, <1>6 DEF IsSeq, t

\* A sequence with one element more.
LEMMA SeqAppended ==
  ASSUME NEW s, IsSeq(s), NEW x
  PROVE  LET t == Append(s, x)
         IN  /\ IsSeq(t) /\ Len(t) = Len(s) + 1 /\ DOMAIN t = DOMAIN s \cup {Len(s) + 1}
             /\ \A j \in DOMAIN s : t[j] = s[j]
             /\ t[Len(s) + 1] = x /\ Last(t) = x
<1>1. PICK F : s \in Seq(F)
  BY DEF IsSeq
<1> DEFINE G == F \cup {x}
           n == Len(s)
<1>2. n \in Nat /\ DOMAIN s = 1 .. n /\ s \in Seq(G)
  BY <1>1
<1> HIDE DEF G
<1>3. PICK t : t = Append(s, x)
  OBVIOUS
<1>4. x \in G
  BY DEF G
<1>5. t \in Seq(G) /\ Len(t) = n + 1 /\ (\A j \in 1 .. n : t[j] = s[j]) /\ t[n + 1] = x
  BY <1>2, <1>3, <1>4
<1>6. DOMAIN t = 1 .. n + 1
  BY <1>5
<1> HIDE DEF n
<1>7. 1 .. n + 1 = 1 .. n \cup {n + 1}
  BY <1>2
<1>8. Last(t) = x
  BY <1>5 DEF Last
<1>9. /\ IsSeq(t) /\ Len(t) = n + 1 /\ DOMAIN t = DOMAIN s \cup {n + 1}
      /\ \A j \in DOMAIN s : t[j] = s[j]
      /\ t[n + 1] = x /\ Last(t) = x
  BY <1>2, <1>5, <1>6, <1>7, <1>8 DEF IsSeq
<1> QED BY <1>3, <1>9 DEF n

\* The innermost call goes on, with the configuration it has.
LEMMA FramedOn ==
  ASSUME NEW s, NEW n, Framed(s, n), s # <<>>, NEW f, FrameOK(f, n), f.cfg = s[Len(s)].cfg
  PROVE  Framed([s EXCEPT ![Len(s)] = f], n)
<1> DEFINE t == [s EXCEPT ![Len(s)] = f]
<1>1. IsSeq(s)
  BY DEF Framed
<1>2. /\ IsSeq(t) /\ DOMAIN t = DOMAIN s
      /\ \A j \in DOMAIN s : t[j] = IF j = Len(s) THEN f ELSE s[j]
  BY <1>1, SeqReplaced
<1> HIDE DEF t
<1>3. \A j \in DOMAIN s : t[j].cfg = s[j].cfg /\ FrameOK(t[j], n)
  BY <1>2 DEF Framed
<1>4. \A j, k \in DOMAIN s : j <= k => t[j].cfg <= t[k].cfg
  BY <1>3 DEF Framed
<1> QED BY <1>2, <1>3, <1>4 DEF Framed, t

\* A call opens another one.
LEMMA FramedOpens ==
  ASSUME NEW s, NEW n \in Nat, Framed(s, n), s # <<>>, NEW m \in Nat, n <= m,
         NEW g, FrameOK(g, m), s[Len(s)].cfg <= g.cfg
  PROVE  Framed(Append(s, g), m)
<1>1. IsSeq(s)
  BY DEF Framed
<1>2. Len(s) \in Nat /\ DOMAIN s = 1 .. Len(s) /\ Len(s) \in DOMAIN s
  BY <1>1, SeqIs
<1>3. PICK t : t = Append(s, g)
  OBVIOUS
<1>4. /\ IsSeq(t) /\ DOMAIN t = DOMAIN s \cup {Len(s) + 1}
      /\ \A j \in DOMAIN s : t[j] = s[j]
      /\ t[Len(s) + 1] = g
  BY <1>1, <1>3, SeqAppended
<1>5. \A j \in DOMAIN s : FrameOK(s[j], n) /\ s[j].cfg <= s[Len(s)].cfg /\ s[j].cfg \in Nat
  BY <1>2 DEF Framed, FrameOK
<1>6. \A j \in DOMAIN s : FrameOK(s[j], m)
  BY <1>5 DEF FrameOK
<1>7. g.cfg \in Nat /\ \A j \in DOMAIN s : s[j].cfg <= g.cfg
  BY <1>2, <1>5 DEF FrameOK
<1>8. \A j \in DOMAIN t : FrameOK(t[j], m)
  BY <1>4, <1>6
<1>9. \A j, k \in DOMAIN t : j <= k => t[j].cfg <= t[k].cfg
  <2> SUFFICES ASSUME NEW j \in DOMAIN t, NEW k \in DOMAIN t, j <= k PROVE t[j].cfg <= t[k].cfg
    OBVIOUS
  <2>1. CASE k = Len(s) + 1
    BY <2>1, <1>4, <1>7
  <2>2. CASE k # Len(s) + 1
    <3>1. k \in DOMAIN s /\ j \in DOMAIN s
      BY <2>2, <1>2, <1>4
    <3> QED BY <3>1, <1>4 DEF Framed
  <2> QED BY <2>1, <2>2
<1> QED BY <1>3, <1>4, <1>8, <1>9 DEF Framed

\* A call returns.
LEMMA FramedReturns ==
  ASSUME NEW s, NEW n \in Nat, Framed(s, n), s # <<>>
  PROVE  /\ Len(s) = 1 => Framed(Front(s), 0)
         /\ Len(s) # 1 => s[Len(s) - 1].cfg \in 1 .. n /\ Framed(Front(s), s[Len(s) - 1].cfg)
<1>1. PICK F : s \in Seq(F)
  BY DEF Framed, IsSeq
<1> DEFINE l == Len(s)
<1>2. /\ l \in Nat \ {0} /\ Front(s) \in Seq(F) /\ Len(Front(s)) = l - 1
      /\ \A i \in 1 .. l - 1 : Front(s)[i] = s[i]
  BY <1>1, FrontOfSeq
<1>3. DOMAIN s = 1 .. l
  BY <1>1
<1>4. PICK r : r = Front(s)
  OBVIOUS
<1>5. IsSeq(r) /\ DOMAIN r = 1 .. l - 1 /\ \A i \in 1 .. l - 1 : r[i] = s[i]
  BY <1>2, <1>4 DEF IsSeq
<1> HIDE DEF l
<1>6. CASE l = 1
  <2>1. DOMAIN r = {}
    BY <1>5, <1>6
  <2>2. Framed(r, 0)
    BY <1>5, <2>1 DEF Framed
  <2> QED BY <2>2, <1>4, <1>6 DEF l
<1>7. CASE l # 1
  <2>1. l - 1 \in 1 .. l /\ \A i \in 1 .. l - 1 : i \in 1 .. l /\ i <= l - 1
    BY <1>2, <1>7
  <2>2. /\ \A i \in 1 .. l : FrameOK(s[i], n)
        /\ \A i, k \in 1 .. l : i <= k => s[i].cfg <= s[k].cfg
    BY <1>3 DEF Framed
  <2>3. s[l - 1].cfg \in 1 .. n
    BY <2>1, <2>2 DEF FrameOK
  <2>4. \A i \in 1 .. l - 1 : s[i].cfg <= s[l - 1].cfg /\ s[i].cfg \in 1 .. n /\ FrameOK(s[i], n)
    BY <2>1, <2>2 DEF FrameOK
  <2>5. \A i \in 1 .. l - 1 : FrameOK(s[i], s[l - 1].cfg)
    BY <2>3, <2>4 DEF FrameOK
  <2>6. Framed(r, s[l - 1].cfg)
    BY <1>5, <2>1, <2>2, <2>5 DEF Framed
  <2> QED BY <2>3, <2>6, <1>4, <1>7 DEF l
<1> QED BY <1>6, <1>7 DEF l

ConfigsOK(s) == IsSeq(s) /\ \A k \in DOMAIN s : ConfigOK(s[k])

RunInv ==
  /\ NetKnown
  /\ IsSeq(condition) /\ IsSeq(event) /\ EventsOK
  /\ ConfigsOK(configs)
  /\ Framed(frames, Len(configs))

\* The innermost call and its configuration.
LEMMA TopOK ==
  ASSUME RunInv, frames # <<>>
  PROVE  /\ Top = frames[Len(frames)] /\ FrameOK(Top, Len(configs))
         /\ Len(configs) \in Nat /\ Top.cfg \in DOMAIN configs
         /\ ConfigOK(TopC)
<1>1. IsSeq(frames) /\ IsSeq(configs)
  BY DEF RunInv, Framed, ConfigsOK
<1>2. Len(frames) \in DOMAIN frames /\ Len(configs) \in Nat /\ DOMAIN configs = 1 .. Len(configs)
  BY <1>1, SeqIs
<1>3. Top = frames[Len(frames)]
  BY DEF Top, Last
<1>4. FrameOK(Top, Len(configs))
  BY <1>2, <1>3 DEF RunInv, Framed
<1>5. Top.cfg \in DOMAIN configs
  BY <1>2, <1>4 DEF FrameOK
<1>6. ConfigOK(TopC)
  BY <1>5 DEF RunInv, ConfigsOK, TopC
<1> QED BY <1>2, <1>3, <1>4, <1>5, <1>6

\* An extension that is tried is one of the list.
LEMMA CandidateOK ==
  ASSUME RunInv, At("choose"), NEW c \in Candidates
  PROVE  /\ c.at \in Nat \ {0}
         /\ c.pe \in DOMAIN TopC.en /\ ExtensionOK(TopC.cut, TopC.en[c.pe])
<1> DEFINE en == TopC.en
           n == Len(en)
           rest == {k \in DOMAIN en : k >= Top.i}
           accepting == {k \in rest : en[k].t \in net.I}
           onPath == {k \in rest : <<en[k].t, en[k].call>> \in Last(Top.cexA).path}
<1>1. frames # <<>>
  BY DEF At
<1>2. ConfigOK(TopC) /\ Top.i \in Nat \ {0}
  BY <1>1, TopOK DEF FrameOK
<1>3. n \in Nat /\ DOMAIN en = 1 .. n
  BY <1>2, SeqIs DEF ConfigOK
<1>4. \/ onPath # {} /\ c = [at |-> Min(onPath), pe |-> Min(onPath)]
      \/ rest # {} /\ c = [at |-> Top.i, pe |-> IF accepting = {} THEN Top.i ELSE Max(accepting)]
  BY DEF Candidates
<1> HIDE DEF n
<1>5. c.at \in Nat \ {0} /\ c.pe \in DOMAIN en
  <2>1. CASE onPath # {} /\ c = [at |-> Min(onPath), pe |-> Min(onPath)]
    <3>1. onPath \subseteq 1 .. n /\ onPath \subseteq Nat
      BY <1>3
    <3> HIDE DEF onPath
    <3>2. Min(onPath) \in 1 .. n
      BY <2>1, <3>1, MinIsLeast
    <3>3. PICK k : k = Min(onPath)
      OBVIOUS
    <3>4. c.at = k /\ c.pe = k /\ k \in 1 .. n
      BY <2>1, <3>2, <3>3
    <3> QED BY <3>4, <1>3
  <2>2. CASE rest # {} /\ c = [at |-> Top.i, pe |-> IF accepting = {} THEN Top.i ELSE Max(accepting)]
    <3>1. c.at = Top.i /\ c.pe = IF accepting = {} THEN Top.i ELSE Max(accepting)
      BY <2>2
    <3>2. Top.i \in 1 .. n
      BY <2>2, <1>2, <1>3
    <3>3. accepting # {} => Max(accepting) \in accepting
      <4>1. accepting \subseteq 1 .. n
        BY <1>3
      <4> HIDE DEF accepting
      <4> QED BY <4>1, <1>3, MaxIsThere
    <3> QED BY <3>1, <3>2, <3>3, <1>2, <1>3
  <2> QED BY <1>4, <2>1, <2>2
<1> QED BY <1>2, <1>5 DEF ConfigOK

\* A prefix that stays has grown by nothing.
LEMMA Standing ==
  ASSUME UNCHANGED <<net, tbl, prefix>>
  PROVE  Grows
BY DEF Grows, prefix

\* The configurations that stay on the way down stay sound.
LEMMA ConfigsStay ==
  ASSUME Grows, ConfigsOK(configs), NEW s, IsSeq(s),
         \A k \in DOMAIN s : \/ k \in DOMAIN configs /\ s[k] = configs[k]
                             \/ ConfigOK(s[k])'
  PROVE  ConfigsOK(s)'
<1>1. ASSUME NEW k \in DOMAIN s PROVE ConfigOK(s[k])'
  <2>1. PICK C : C = s[k]
    OBVIOUS
  <2>2. CASE k \in DOMAIN configs /\ s[k] = configs[k]
    <3>1. ConfigOK(C)
      BY <2>1, <2>2 DEF ConfigsOK
    <3>2. ConfigOK(C)'
      BY <3>1, ConfigStays
    <3> QED BY <2>1, <3>2
  <2> QED BY <1>1, <2>2
<1> QED BY <1>1 DEF ConfigsOK

\* A call that returns leaves sound configurations and calls.
LEMMA ReturnKeeps ==
  ASSUME RunInv, frames # <<>>, Return, Grows
  PROVE  ConfigsOK(configs)' /\ Framed(frames, Len(configs))' /\ ~Deeper
<1>1. /\ frames' = Front(frames)
      /\ configs' = IF Len(frames) = 1 THEN <<>> ELSE SubSeq(configs, 1, frames[Len(frames) - 1].cfg)
  BY DEF Return, Pop
<1>2. PICK F : configs \in Seq(F)
  BY DEF RunInv, ConfigsOK, IsSeq
<1> DEFINE n == Len(configs)
<1>3. n \in Nat /\ DOMAIN configs = 1 .. n
  BY <1>2
<1>4. /\ Len(frames) = 1 => Framed(Front(frames), 0)
      /\ Len(frames) # 1 => /\ frames[Len(frames) - 1].cfg \in 1 .. n
                            /\ Framed(Front(frames), frames[Len(frames) - 1].cfg)
  BY <1>3, FramedReturns DEF RunInv
<1>5. PICK s : s = configs'
  OBVIOUS
<1>6. PICK r : r = frames'
  OBVIOUS
<1>7. IsSeq(s) /\ Len(s) \in Nat /\ Len(s) <= n /\ Framed(r, Len(s))
      /\ \A k \in DOMAIN s : k \in DOMAIN configs /\ s[k] = configs[k]
  <2>1. CASE Len(frames) = 1
    <3>1. s = <<>> /\ r = Front(frames)
      BY <2>1, <1>1, <1>5, <1>6
    <3>2. s \in Seq({}) /\ Len(s) = 0 /\ DOMAIN s = {}
      BY <3>1
    <3> QED BY <2>1, <3>1, <3>2, <1>3, <1>4 DEF IsSeq
  <2>2. CASE Len(frames) # 1
    <3>1. PICK j : j = frames[Len(frames) - 1].cfg
      OBVIOUS
    <3>2. s = SubSeq(configs, 1, j) /\ r = Front(frames) /\ j \in 1 .. n /\ Framed(r, j)
      BY <2>2, <3>1, <1>1, <1>4, <1>5, <1>6
    <3>3. \A i \in 1 .. j : i \in 1 .. n
      BY <3>2, <1>3
    <3>4. \A i \in 1 .. j : configs[i] \in F
      BY <3>3, <1>2, <1>3
    <3>5. 1 \in Int /\ j \in Int
      BY <3>2
    <3>6. /\ SubSeq(configs, 1, j) \in Seq(F)
          /\ Len(SubSeq(configs, 1, j)) = IF 1 <= j THEN j - 1 + 1 ELSE 0
          /\ \A i \in 1 .. j - 1 + 1 : SubSeq(configs, 1, j)[i] = configs[1 + i - 1]
      BY <3>4, <3>5, SubSeqProperties
    <3>7. j - 1 + 1 = j /\ 1 <= j /\ j <= n /\ j \in Nat /\ \A i \in 1 .. j : 1 + i - 1 = i
      BY <3>2, <1>3
    <3>8. s \in Seq(F) /\ Len(s) = j /\ \A i \in 1 .. j : s[i] = configs[i]
      BY <3>2, <3>6, <3>7
    <3>9. DOMAIN s = 1 .. j
      BY <3>8
    <3> QED BY <3>2, <3>3, <3>7, <3>8, <3>9, <1>3 DEF IsSeq
  <2> QED BY <2>1, <2>2
<1>8. ConfigsOK(s)'
  BY <1>7, ConfigsStay DEF RunInv
<1>9. ~Deeper
  BY <1>3, <1>5, <1>7 DEF Deeper
<1>10. ConfigsOK(configs)'
  BY <1>5, <1>8 DEF ConfigsOK
<1>11. Framed(frames, Len(configs))'
  BY <1>5, <1>6, <1>7 DEF Framed
<1> QED BY <1>9, <1>10, <1>11

\* The innermost configuration is replaced by D.
LEMMA ConfigReplaced ==
  ASSUME RunInv, frames # <<>>, Grows, NEW D, ConfigOK(D)',
         NEW s, s = [configs EXCEPT ![Top.cfg] = D]
  PROVE  ConfigsOK(s)' /\ IsSeq(s) /\ Len(s) = Len(configs)
<1>1. PICK c : c = Top.cfg
  OBVIOUS
<1>2. s = [configs EXCEPT ![c] = D]
  BY <1>1
<1>3. /\ IsSeq(s) /\ Len(s) = Len(configs) /\ DOMAIN s = DOMAIN configs
      /\ \A j \in DOMAIN configs : s[j] = IF j = c THEN D ELSE configs[j]
  <2>1. IsSeq(configs)
    BY DEF RunInv, ConfigsOK
  <2>2. PICK q : q = configs
    OBVIOUS
  <2>3. IsSeq(q) /\ s = [q EXCEPT ![c] = D]
    BY <1>2, <2>1, <2>2
  <2> DEFINE t == [q EXCEPT ![c] = D]
  <2>4. /\ IsSeq(t) /\ Len(t) = Len(q) /\ DOMAIN t = DOMAIN q
        /\ \A j \in DOMAIN q : t[j] = IF j = c THEN D ELSE q[j]
    BY <2>3, SeqReplaced
  <2>5. s = t
    BY <2>3
  <2> HIDE DEF t
  <2> QED BY <2>2, <2>4, <2>5
<1>4. ASSUME NEW k \in DOMAIN s
      PROVE  (k \in DOMAIN configs /\ s[k] = configs[k]) \/ ConfigOK(s[k])'
  <2>1. CASE k = c
    <3>1. s[k] = D
      BY <2>1, <1>3
    <3> QED BY <3>1
  <2>2. CASE k # c
    BY <2>2, <1>3
  <2> QED BY <2>1, <2>2
<1>5. ConfigsOK(s)'
  BY <1>3, <1>4, ConfigsStay DEF RunInv
<1> QED BY <1>3, <1>5

\* The same with a new configuration C behind it.
LEMMA ConfigAdded ==
  ASSUME NEW s, ConfigsOK(s)', IsSeq(s), NEW C, ConfigOK(C)', NEW u, u = Append(s, C)
  PROVE  ConfigsOK(u)' /\ Len(u) = Len(s) + 1 /\ Last(u) = C
<1>1. /\ IsSeq(u) /\ Len(u) = Len(s) + 1 /\ DOMAIN u = DOMAIN s \cup {Len(s) + 1}
      /\ \A j \in DOMAIN s : u[j] = s[j]
      /\ u[Len(s) + 1] = C /\ Last(u) = C
  BY SeqAppended
<1>2. ASSUME NEW k \in DOMAIN u PROVE ConfigOK(u[k])'
  <2>1. CASE k = Len(s) + 1
    <3>1. u[k] = C
      BY <2>1, <1>1
    <3> QED BY <3>1
  <2>2. CASE k # Len(s) + 1
    <3>1. k \in DOMAIN s /\ u[k] = s[k]
      BY <2>2, <1>1
    <3>2. PICK D : D = s[k]
      OBVIOUS
    <3>3. ConfigOK(D)'
      BY <3>1, <3>2 DEF ConfigsOK
    <3> QED BY <3>1, <3>2, <3>3
  <2> QED BY <2>1, <2>2
<1> QED BY <1>1, <1>2 DEF ConfigsOK

\* An extension of the innermost configuration is written back, or the list.
LEMMA WithEnOK ==
  ASSUME RunInv, frames # <<>>, Grows, NEW k, NEW pe, ExtensionOK(TopC.cut, pe)
  PROVE  \E D : ConfigOK(D)' /\ WithEn(k, pe) = [configs EXCEPT ![Top.cfg] = D]
<1>1. PICK C : C = TopC
  OBVIOUS
<1>2. ConfigOK(C) /\ ExtensionOK(C.cut, pe)
  BY <1>1, TopOK
<1>3. PICK en : en = ReplaceAt(C.en, k, pe)
  OBVIOUS
<1>4. IsSeq(en) /\ \A j \in DOMAIN en : ExtensionOK(C.cut, en[j])
  <2>1. /\ IsSeq(en) /\ DOMAIN en = DOMAIN C.en
        /\ \A j \in DOMAIN C.en : en[j] = IF j = k THEN pe ELSE C.en[j]
    BY <1>2, <1>3, SeqReplaced DEF ReplaceAt, ConfigOK
  <2>2. \A j \in DOMAIN C.en : ExtensionOK(C.cut, C.en[j])
    BY <1>2 DEF ConfigOK
  <2> QED BY <2>1, <2>2, <1>2
<1>5. PICK D : D = [C EXCEPT !.en = en]
  OBVIOUS
<1>6. D.cut = C.cut /\ D.en = en /\ DOMAIN D = DOMAIN C
  BY <1>2, <1>5 DEF ConfigOK
<1>7. ConfigOK(D)
  BY <1>2, <1>4, <1>6 DEF ConfigOK
<1>8. ConfigOK(D)'
  BY <1>7, ConfigStays
<1>9. WithEn(k, pe) = [configs EXCEPT ![Top.cfg] = D]
  BY <1>1, <1>3, <1>5 DEF WithEn
<1> QED BY <1>8, <1>9

\* So does a choice that is passed over.
LEMMA PassKeeps ==
  ASSUME RunInv, At("choose"), Grows, NEW c \in Candidates, NEW pe, ExtensionOK(TopC.cut, pe),
         PassOver(c, pe)
  PROVE  ConfigsOK(configs)' /\ Framed(frames, Len(configs))' /\ ~Deeper
<1>1. frames # <<>> /\ c.at \in Nat \ {0}
  BY CandidateOK DEF At
<1>2. PICK D : ConfigOK(D)' /\ WithEn(c.pe, pe) = [configs EXCEPT ![Top.cfg] = D]
  BY <1>1, WithEnOK
<1>3. PICK s : s = configs'
  OBVIOUS
<1>4. s = [configs EXCEPT ![Top.cfg] = D]
  BY <1>2, <1>3 DEF PassOver
<1>5. ConfigsOK(s)' /\ Len(s) = Len(configs)
  BY <1>1, <1>2, <1>4, ConfigReplaced
<1>6. FrameOK(Top, Len(configs)) /\ Top = frames[Len(frames)] /\ Len(configs) \in Nat
  BY <1>1, TopOK
<1>7. PICK f : f = [Top EXCEPT !.i = c.at + 1]
  OBVIOUS
<1>8. f.cfg = Top.cfg /\ f.i = c.at + 1 /\ DOMAIN f = DOMAIN Top
  BY <1>6, <1>7 DEF FrameOK
<1>9. FrameOK(f, Len(configs)) /\ f.cfg = frames[Len(frames)].cfg
  BY <1>1, <1>6, <1>8 DEF FrameOK
<1>10. Framed([frames EXCEPT ![Len(frames)] = f], Len(configs))
  BY <1>1, <1>9, FramedOn DEF RunInv
<1>11. frames' = [frames EXCEPT ![Len(frames)] = f]
  BY <1>7 DEF PassOver, SetTop
<1>12. Framed(frames, Len(configs))'
  <2>1. PICK r : r = frames'
    OBVIOUS
  <2>2. Framed(r, Len(s))
    BY <2>1, <1>5, <1>10, <1>11
  <2> QED BY <2>1, <2>2, <1>3 DEF Framed
<1>13. ~Deeper
  BY <1>3, <1>5, <1>6 DEF Deeper
<1> QED BY <1>3, <1>5, <1>12, <1>13 DEF ConfigsOK

\* So does the left child, whose cut is that of its parent with the event.
LEMMA DescendKeeps ==
  ASSUME RunInv, At("choose"), Grows, NEW c \in Candidates, NEW pe, ExtensionOK(TopC.cut, pe),
         NEW cs, NEW ev, ev.out \subseteq DOMAIN condition', Descend(c, pe, cs, ev)
  PROVE  /\ ConfigsOK(configs)' /\ Framed(frames, Len(configs))'
         /\ Last(configs').cut = (TopC.cut \cup ev.out) \ ev.in
         /\ Last(configs').e_last = pe.e
<1> DEFINE n == Len(configs)
<1>1. frames # <<>>
  BY DEF At
<1>2. /\ FrameOK(Top, n) /\ Top = frames[Len(frames)] /\ n \in Nat
      /\ ConfigOK(TopC)
  BY <1>1, TopOK
<1>3. PICK D : ConfigOK(D)' /\ WithEn(c.pe, pe) = [configs EXCEPT ![Top.cfg] = D]
  BY <1>1, WithEnOK
<1>4. PICK s : s = [configs EXCEPT ![Top.cfg] = D]
  OBVIOUS
<1>5. ConfigsOK(s)' /\ IsSeq(s) /\ Len(s) = n
  BY <1>1, <1>3, <1>4, ConfigReplaced
<1>6. PICK C : C = NewConfig(cs, TopC, pe.e, ev, Top.cexA)
  OBVIOUS
<1>7. /\ C.cut = (TopC.cut \cup ev.out) \ ev.in /\ C.e_last = pe.e /\ C.en = <<>>
      /\ {"cut", "en"} \subseteq DOMAIN C
  BY <1>6 DEF NewConfig
<1>8. C.cut \subseteq DOMAIN condition'
  BY <1>2, <1>7 DEF ConfigOK, Grows
<1>9. ConfigOK(C)'
  <2>1. IsSeq(C.en) /\ DOMAIN C.en = {}
    <3>1. C.en \in Seq({}) /\ DOMAIN C.en = {}
      BY <1>7
    <3> QED BY <3>1 DEF IsSeq
  <2> QED BY <2>1, <1>7, <1>8 DEF ConfigOK
<1>10. PICK u : u = configs'
  OBVIOUS
<1>11. u = Append(s, C)
  BY <1>3, <1>4, <1>6, <1>10 DEF Descend
<1>12. ConfigsOK(u)' /\ Len(u) = n + 1 /\ Last(u) = C
  BY <1>5, <1>9, <1>11, ConfigAdded
<1>13. PICK f : f = [Top EXCEPT !.pc = "left", !.e = pe.e]
  OBVIOUS
<1>14. FrameOK(f, n) /\ f.cfg = frames[Len(frames)].cfg
  <2>1. f.cfg = Top.cfg /\ f.i = Top.i /\ DOMAIN f = DOMAIN Top
    BY <1>2, <1>13 DEF FrameOK
  <2> QED BY <2>1, <1>2 DEF FrameOK
<1>15. PICK g : g = Frame(n + 1, Top.D, Top.cexA)
  OBVIOUS
<1>16. g.cfg = n + 1 /\ FrameOK(g, n + 1)
  <2>1. g.cfg = n + 1 /\ g.i = 1 /\ {"cfg", "i"} \subseteq DOMAIN g
    BY <1>15 DEF Frame
  <2> HIDE DEF n
  <2> QED BY <2>1, <1>2 DEF FrameOK
<1>17. PICK r : r = [frames EXCEPT ![Len(frames)] = f]
  OBVIOUS
<1>18. frames' = Append(r, g)
  BY <1>13, <1>15, <1>17 DEF Descend
<1>19. Framed(r, n) /\ Len(r) = Len(frames) /\ r # <<>> /\ r[Len(r)].cfg <= n + 1
  <2>1. Framed(frames, n)
    BY DEF RunInv
  <2>2. Framed(r, n)
    BY <1>1, <1>14, <1>17, <2>1, FramedOn
  <2> DEFINE t == [frames EXCEPT ![Len(frames)] = f]
  <2>3. IsSeq(frames) /\ Len(frames) \in DOMAIN frames
    BY <1>1, <2>1, SeqIs DEF Framed
  <2>4. Len(t) = Len(frames) /\ DOMAIN t = DOMAIN frames /\ t[Len(frames)] = f
    BY <2>3, SeqReplaced
  <2> HIDE DEF t, n
  <2>5. r = t
    BY <1>17 DEF t
  <2>6. r[Len(r)].cfg \in 1 .. n
    BY <1>14, <2>4, <2>5 DEF FrameOK
  <2>7. r # <<>>
    BY <2>3, <2>4, <2>5
  <2> QED BY <1>2, <2>2, <2>4, <2>5, <2>6, <2>7
<1> HIDE DEF n
<1>20. Framed(Append(r, g), n + 1)
  <2>1. n + 1 \in Nat /\ n <= n + 1
    BY <1>2
  <2>2. PICK l : l = n + 1
    OBVIOUS
  <2> QED BY <1>2, <1>16, <1>19, <2>1, <2>2, FramedOpens
<1>21. Framed(frames, Len(configs))'
  <2>1. PICK q : q = frames'
    OBVIOUS
  <2>2. Framed(q, Len(u))
    BY <2>1, <1>12, <1>18, <1>20
  <2> QED BY <2>1, <2>2, <1>10 DEF Framed
<1> QED BY <1>7, <1>10, <1>12, <1>21 DEF ConfigsOK

\* A run of the net to a new configuration.
Run == Deeper /\ (event' # event \/ \A c \in Candidates : AsFound(TopC.en[c.pe])) => Fires

KeepsUp == RunInv' /\ Run

\* The prefix stays sound as long as nothing is added.
LEMMA PrefixStays ==
  ASSUME RunInv, UNCHANGED <<net, tbl, prefix>>
  PROVE  NetKnown' /\ IsSeq(condition)' /\ IsSeq(event)' /\ EventsOK' /\ Grows
<1>1. Grows
  BY Standing
<1>2. ASSUME NEW e \in DOMAIN event PROVE EventOK(event[e])'
  <2>1. PICK ev : ev = event[e] /\ ev = event'[e]
    BY DEF prefix
  <2>2. EventOK(ev)
    BY <2>1 DEF RunInv, EventsOK
  <2>3. EventOK(ev)'
    BY <1>1, <2>2, EventStays
  <2> QED BY <2>1, <2>3
<1> QED BY <1>1, <1>2 DEF RunInv, NetKnown, Tables, IsSeq, EventsOK, prefix

\* Steps that leave the prefix.
LEMMA QuietKeeps ==
  ASSUME RunInv, UNCHANGED <<net, tbl, prefix>>, ConfigsOK(configs)', Framed(frames, Len(configs))', ~Deeper
  PROVE  KeepsUp
BY PrefixStays DEF KeepsUp, Run, RunInv

\* A choice whose event is there.
LEMMA KnownKeeps ==
  ASSUME RunInv, ChooseKnown
  PROVE  KeepsUp
<1>1. At("choose") /\ UNCHANGED <<net, tbl, prefix>> /\ frames # <<>>
  BY DEF ChooseKnown, At
<1>2. Grows /\ ConfigOK(TopC) /\ EventsOK /\ NetKnown /\ IsSeq(event)
  BY <1>1, Standing, TopOK DEF RunInv
<1>3. PICK c \in Candidates :
        LET pe == TopC.en[c.pe]
            found == Found(Reduced(pe), Reduced(pe).x, ReadB(pe.t, pe.x))
        IN  /\ IsKnown(pe)
            /\ IF event[found.e].cutoff THEN PassOver(c, found)
               ELSE Descend(c, found, condition, event[found.e])
  BY DEF ChooseKnown
<1>4. PICK pe : pe = TopC.en[c.pe]
  OBVIOUS
<1>5. PICK red : red = Reduced(pe)
  OBVIOUS
<1>6. PICK es : es = Existing(red, red.x, ReadB(pe.t, pe.x))
  OBVIOUS
<1>7. PICK found : found = Found(red, red.x, ReadB(pe.t, pe.x))
  OBVIOUS
<1>9. ExtensionOK(TopC.cut, pe)
  BY <1>1, <1>4, CandidateOK
<1>8. /\ es # {}
      /\ \/ PassOver(c, found)
         \/ Descend(c, found, condition, event[found.e])
  <2>1. Existing(pe, red.x, ReadB(pe.t, pe.x)) = es
    BY <1>2, <1>5, <1>6, <1>9, ReducedOK DEF Existing
  <2> QED BY <2>1, <1>3, <1>4, <1>5, <1>7 DEF IsKnown
<1>10. ExtensionOK(TopC.cut, red)
  BY <1>5, <1>9, ReducedOK
<1>11. ExtensionOK(TopC.cut, found)
  BY <1>7, <1>10, FoundOK
<1>12. found.e \in es /\ es \subseteq DOMAIN event
  <2>1. es \subseteq DOMAIN event
    BY <1>6 DEF Existing, ConsumersOf
  <2>2. es \subseteq Nat
    BY <2>1, <1>2, SeqIs
  <2>3. Min(es) \in es
    BY <1>8, <2>2, MinIsLeast
  <2>4. PICK e : e = Min(es)
    OBVIOUS
  <2>5. found = [red EXCEPT !.e = e, !.had = TRUE]
    BY <1>6, <1>7, <1>8, <2>4, Zenon DEF Found
  <2>6. found.e = e
    BY <2>5, <1>10 DEF ExtensionOK
  <2> QED BY <2>1, <2>3, <2>4, <2>6
<1>13. CASE PassOver(c, found)
  <2>1. ConfigsOK(configs)' /\ Framed(frames, Len(configs))' /\ ~Deeper
    BY <1>1, <1>2, <1>11, <1>13, PassKeeps
  <2> QED BY <1>1, <2>1, QuietKeeps
<1>14. CASE Descend(c, found, condition, event[found.e])
  <2>1. PICK e : e = found.e
    OBVIOUS
  <2>2. PICK ev : ev = event[e]
    OBVIOUS
  <2>3. e \in DOMAIN event /\ EventOK(ev)
    BY <2>1, <2>2, <1>12, <1>2 DEF EventsOK
  <2>4. ev.out \subseteq DOMAIN condition'
    BY <2>3, <1>2 DEF EventOK, Grows
  <2>5. Descend(c, found, condition, ev)
    BY <1>14, <2>1, <2>2
  <2>6. /\ ConfigsOK(configs)' /\ Framed(frames, Len(configs))'
        /\ Last(configs').cut = (TopC.cut \cup ev.out) \ ev.in
        /\ Last(configs').e_last = e
    BY <1>1, <1>2, <1>11, <2>1, <2>4, <2>5, DescendKeeps
  <2>7. RunInv'
    BY <1>1, <2>6, PrefixStays DEF RunInv
  <2>8. ASSUME event' # event \/ \A d \in Candidates : AsFound(TopC.en[d.pe])
        PROVE  Fires
    <3>1. AsFound(pe)
      BY <2>8, <1>1, <1>4 DEF prefix
    <3>2. ReadP(pe.t) # {} => ReadB(pe.t, pe.x) # {}
      BY <3>1 DEF AsFound
    <3>3. PICK cut : cut = TopC.cut
      OBVIOUS
    <3>4. Overwritten(pe.t, cut) = {} /\ cut \subseteq DOMAIN condition /\ ExtensionOK(cut, pe)
      BY <3>1, <3>3, <1>2, <1>9 DEF AsFound, ConfigOK
    <3>5. e \in Existing(Reduced(pe), Reduced(pe).x, ReadB(pe.t, pe.x))
      BY <2>1, <1>5, <1>6, <1>12
    <3>6. /\ ev.t = pe.t
          /\ TokensOf(condition, (cut \cup ev.out) \ ev.in)
               = (Tokens(cut \ Overwritten(pe.t, cut)) \ pe.mode.in) \cup pe.mode.out
      BY <3>2, <3>4, <3>5, <1>2, <2>2, KnownFires
    <3>7. condition' = condition /\ event' = event
      BY <1>1 DEF prefix
    <3>8. TokensOf(condition', Last(configs').cut)
            = (Tokens(cut \ Overwritten(pe.t, cut)) \ pe.mode.in) \cup pe.mode.out
      BY <2>6, <3>3, <3>6, <3>7
    <3>9. event'[Last(configs').e_last].t = pe.t
      BY <2>2, <2>6, <3>6, <3>7
    <3>10. PICK k \in DOMAIN net.modes[pe.t] : pe.mode = net.modes[pe.t][k]
      BY <1>9 DEF ExtensionOK, Mode
    <3>11. is_firable(pe.t, net.modes[pe.t][k], TopC.cut)
      BY <1>9, <3>10 DEF ExtensionOK
    <3> QED BY <3>3, <3>8, <3>9, <3>10, <3>11 DEF Fires, FiringTo
  <2> QED BY <2>7, <2>8 DEF KeepsUp, Run
<1> QED BY <1>8, <1>13, <1>14

\* add_Event adds an event.
LEMMA EventAdded ==
  ASSUME RunInv, NEW c, NEW pe, NEW cutoff, NEW ev, Makes(c, pe, cutoff, ev), event' = Append(event, ev)
  PROVE  /\ Grows /\ NetKnown' /\ IsSeq(condition)' /\ IsSeq(event)' /\ EventsOK'
         /\ event'[Len(event) + 1] = ev
         /\ ev.t = pe.t /\ ev.out \subseteq DOMAIN condition'
         /\ FiresAs(condition', c, pe, ev)
<1>1. NetKnown /\ IsSeq(condition) /\ IsSeq(event) /\ EventsOK
  BY DEF RunInv
<1>2. /\ Grows /\ IsSeq(condition)' /\ EventOK(ev)' /\ ev.t = pe.t
      /\ FiresAs(condition', c, pe, ev)
  BY <1>1, NewEventFires
<1>3. NetKnown'
  BY <1>1 DEF NetKnown, Tables, Makes
<1>4. PICK u : u = event'
  OBVIOUS
<1>5. /\ IsSeq(u) /\ DOMAIN u = DOMAIN event \cup {Len(event) + 1}
      /\ \A e \in DOMAIN event : u[e] = event[e]
      /\ u[Len(event) + 1] = ev
  <2>1. PICK q : q = event
    OBVIOUS
  <2>2. IsSeq(q) /\ u = Append(q, ev)
    BY <1>1, <1>4, <2>1
  <2>3. /\ IsSeq(u) /\ DOMAIN u = DOMAIN q \cup {Len(q) + 1}
        /\ \A e \in DOMAIN q : u[e] = q[e]
        /\ u[Len(q) + 1] = ev
    BY <2>2, SeqAppended
  <2> QED BY <2>1, <2>3
<1>6. ASSUME NEW e \in DOMAIN u PROVE EventOK(u[e])'
  <2>1. CASE e = Len(event) + 1
    <3>1. u[e] = ev
      BY <2>1, <1>5
    <3> QED BY <3>1, <1>2
  <2>2. CASE e # Len(event) + 1
    <3>1. PICK f : f = event[e]
      OBVIOUS
    <3>2. e \in DOMAIN event /\ u[e] = f
      BY <2>2, <3>1, <1>5
    <3>3. EventOK(f)
      BY <3>1, <3>2, <1>1 DEF EventsOK
    <3>4. EventOK(f)'
      BY <3>3, <1>2, EventStays
    <3> QED BY <3>2, <3>4
  <2> QED BY <2>1, <2>2
<1>7. EventsOK'
  BY <1>4, <1>6 DEF EventsOK
<1>8. ev.out \subseteq DOMAIN condition'
  BY <1>2 DEF EventOK
<1> QED BY <1>2, <1>3, <1>4, <1>5, <1>7, <1>8 DEF IsSeq

\* A choice whose event is added.
LEMMA NewKeeps ==
  ASSUME RunInv, ChooseNew
  PROVE  KeepsUp
<1>1. At("choose") /\ UNCHANGED <<net, tbl>> /\ frames # <<>>
  BY DEF ChooseNew, At
<1>2. PICK c \in Candidates :
       LET pe == TopC.en[c.pe]
           cs == condition \o NewConditions(pe)
           ev == NewEvent(pe, Reduced(pe).x, ReadB(pe.t, pe.x), TopC.cut)
           same == SameCutBefore(cs, ev)
           added == [Reduced(pe) EXCEPT !.e = Len(event) + 1, !.had = TRUE]
       IN  /\ ~IsKnown(pe)
           /\ condition' = cs
           /\ event' = Append(event, [ev EXCEPT !.cutoff = (same # {})])
           /\ IF same = {} THEN Descend(c, added, cs, ev)
              ELSE \E f \in same :
                     IF Counterexample(ev, f, TopC) = "NONE" THEN PassOver(c, added)
                     ELSE /\ success' = Counterexample(ev, f, TopC)
                          /\ Return
                          /\ UNCHANGED cutC
  BY DEF ChooseNew
<1>3. PICK pe : pe = TopC.en[c.pe]
  OBVIOUS
<1>4. PICK cut : cut = TopC.cut
  OBVIOUS
<1>5. PICK cs : cs = condition \o NewConditions(pe)
  OBVIOUS
<1>6. PICK ev : ev = NewEvent(pe, Reduced(pe).x, ReadB(pe.t, pe.x), cut)
  OBVIOUS
<1>7. PICK marked : \E cutoff : marked = [ev EXCEPT !.cutoff = cutoff] /\ event' = Append(event, marked)
  BY <1>2, <1>3, <1>4, <1>6
<1>8. PICK added : added = [Reduced(pe) EXCEPT !.e = Len(event) + 1, !.had = TRUE]
  OBVIOUS
<1>9. /\ condition' = cs
      /\ Descend(c, added, cs, ev) \/ PassOver(c, added) \/ Return
  BY <1>2, <1>3, <1>4, <1>5, <1>6, <1>8
<1>10. cut \subseteq DOMAIN condition /\ ExtensionOK(cut, pe)
  BY <1>1, <1>3, <1>4, TopOK, CandidateOK DEF ConfigOK
<1>11. ExtensionOK(cut, added) /\ added.e = Len(event) + 1
  <2>1. ExtensionOK(cut, Reduced(pe))
    BY <1>10, ReducedOK
  <2>2. PICK e : e = Len(event) + 1
    OBVIOUS
  <2>3. PICK red : red = Reduced(pe)
    OBVIOUS
  <2>4. ExtensionOK(cut, [red EXCEPT !.e = e, !.had = TRUE])
    BY <2>1, <2>3, NumberedOK
  <2>5. added.e = e
    BY <2>1, <2>2, <2>3, <1>8 DEF ExtensionOK
  <2> QED BY <2>2, <2>3, <2>4, <2>5, <1>8
<1>12. PICK cutoff : marked = [ev EXCEPT !.cutoff = cutoff] /\ event' = Append(event, marked)
  BY <1>7
<1>13. marked = [NewEvent(pe, Reduced(pe).x, ReadB(pe.t, pe.x), cut) EXCEPT !.cutoff = cutoff]
  BY <1>6, <1>12
<1>14. condition' = condition \o NewConditions(pe)
  BY <1>5, <1>9
<1>15. /\ Grows /\ NetKnown' /\ IsSeq(condition)' /\ IsSeq(event)' /\ EventsOK'
       /\ event'[Len(event) + 1] = marked
       /\ marked.t = pe.t /\ marked.out \subseteq DOMAIN condition'
       /\ FiresAs(condition', cut, pe, marked)
  <2>1. Makes(cut, pe, cutoff, marked)
    BY <1>1, <1>10, <1>13, <1>14 DEF Makes
  <2> QED BY <1>12, <2>1, EventAdded
<1>17. ev.out = marked.out /\ ev.in = marked.in
  BY <1>6, <1>13, NewEventIs
<1>18. CASE Descend(c, added, cs, ev)
  <2>1. ev.out \subseteq DOMAIN condition'
    BY <1>15, <1>17
  <2>2. /\ ConfigsOK(configs)' /\ Framed(frames, Len(configs))'
        /\ Last(configs').cut = (TopC.cut \cup ev.out) \ ev.in
        /\ Last(configs').e_last = added.e
    BY <1>1, <1>4, <1>11, <1>15, <1>18, <2>1, DescendKeeps
  <2>3. RunInv'
    BY <1>15, <2>2 DEF RunInv
  <2>4. TokensOf(condition', Last(configs').cut)
          = (Tokens(cut \ Overwritten(pe.t, cut)) \ pe.mode.in) \cup pe.mode.out
    BY <1>4, <1>15, <1>17, <2>2 DEF FiresAs
  <2>5. event'[Last(configs').e_last].t = pe.t
    BY <1>11, <1>15, <2>2
  <2>6. PICK k \in DOMAIN net.modes[pe.t] : pe.mode = net.modes[pe.t][k]
    BY <1>10 DEF ExtensionOK, Mode
  <2>7. is_firable(pe.t, net.modes[pe.t][k], TopC.cut)
    BY <1>4, <1>10, <2>6 DEF ExtensionOK
  <2>8. Fires
    BY <1>4, <2>4, <2>5, <2>6, <2>7 DEF Fires, FiringTo
  <2> QED BY <2>3, <2>8 DEF KeepsUp, Run
<1>19. CASE PassOver(c, added)
  <2>1. ConfigsOK(configs)' /\ Framed(frames, Len(configs))' /\ ~Deeper
    BY <1>1, <1>4, <1>11, <1>15, <1>19, PassKeeps
  <2> QED BY <2>1, <1>15 DEF KeepsUp, Run, RunInv
<1>20. CASE Return
  <2>1. ConfigsOK(configs)' /\ Framed(frames, Len(configs))' /\ ~Deeper
    BY <1>1, <1>15, <1>20, ReturnKeeps
  <2> QED BY <2>1, <1>15 DEF KeepsUp, Run, RunInv
<1> QED BY <1>9, <1>18, <1>19, <1>20

\* A call returns and leaves the prefix.
LEMMA QuietReturn ==
  ASSUME RunInv, frames # <<>>, Return, UNCHANGED <<net, tbl, prefix>>
  PROVE  KeepsUp
<1>1. Grows
  BY Standing
<1>2. ConfigsOK(configs)' /\ Framed(frames, Len(configs))' /\ ~Deeper
  BY <1>1, ReturnKeeps
<1> QED BY <1>2, QuietKeeps

\* Without a further configuration the walk is no deeper.
LEMMA NotDeeper ==
  ASSUME Len(configs) \in Nat, Len(configs') = Len(configs)
  PROVE  ~Deeper
BY DEF Deeper

\* The innermost call goes on as f, and its configuration as D.
LEMMA QuietOn ==
  ASSUME RunInv, frames # <<>>, UNCHANGED <<net, tbl, prefix>>,
         NEW D, ConfigOK(D), configs' = [configs EXCEPT ![Top.cfg] = D],
         NEW f, FrameOK(f, Len(configs)), f.cfg = Top.cfg, SetTop(f)
  PROVE  KeepsUp
<1>1. Grows
  BY Standing
<1>2. ConfigOK(D)'
  BY <1>1, ConfigStays
<1>3. PICK s : s = configs'
  OBVIOUS
<1>4. ConfigsOK(s)' /\ Len(s) = Len(configs)
  BY <1>1, <1>2, <1>3, ConfigReplaced
<1>5. Framed([frames EXCEPT ![Len(frames)] = f], Len(configs))
  <2>1. Top = frames[Len(frames)] /\ Framed(frames, Len(configs))
    BY TopOK DEF RunInv
  <2> QED BY <2>1, FramedOn
<1>6. PICK r : r = frames'
  OBVIOUS
<1>7. Framed(r, Len(s))
  BY <1>4, <1>5, <1>6 DEF SetTop
<1>8. Framed(frames, Len(configs))'
  BY <1>3, <1>6, <1>7 DEF Framed
<1>9. Len(configs) \in Nat
  BY TopOK
<1>10. ~Deeper
  <2>1. Len(configs') = Len(configs)
    BY <1>3, <1>4
  <2> QED BY <2>1, <1>9, NotDeeper
<1>11. ConfigsOK(configs)'
  BY <1>3, <1>4 DEF ConfigsOK
<1> QED BY <1>8, <1>10, <1>11, QuietKeeps

\* A node is extended.
LEMMA ExtendKeeps ==
  ASSUME RunInv, NEW g, Extend(g)
  PROVE  KeepsUp
<1>1. frames # <<>> /\ UNCHANGED <<net, tbl, prefix>>
  BY DEF Extend, At
<1>2. ConfigOK(TopC) /\ FrameOK(Top, Len(configs))
  BY <1>1, TopOK
<1>3. PICK C : C = TopC
  OBVIOUS
<1>4. PICK en : en = Extended(g)
  OBVIOUS
<1>5. IsSeq(en) /\ \A k \in DOMAIN en : ExtensionOK(C.cut, en[k])
  <2>1. CASE TopC.en # <<>>
    <3>1. en = C.en
      BY <2>1, <1>3, <1>4 DEF Extended
    <3> QED BY <3>1, <1>2, <1>3 DEF ConfigOK
  <2>2. CASE ~(TopC.en # <<>>)
    <3>1. en = Extensions(C.cut, g)
      BY <2>2, <1>3, <1>4 DEF Extended
    <3>2. PICK c : c = C.cut
      OBVIOUS
    <3> QED BY <3>1, <3>2, ExtensionsOK DEF RunInv
  <2> QED BY <2>1, <2>2
<1>6. PICK D : D = [C EXCEPT !.en = en, !.firstStep = TRUE]
  OBVIOUS
<1>7. ConfigOK(D)
  <2>1. D.cut = C.cut /\ D.en = en /\ {"cut", "en"} \subseteq DOMAIN D
    BY <1>2, <1>3, <1>6 DEF ConfigOK
  <2> QED BY <2>1, <1>2, <1>3, <1>5 DEF ConfigOK
<1>8. PICK d : d = EnterD
  OBVIOUS
<1>9. PICK a : a = EnterA
  OBVIOUS
<1>10. PICK f : f = [Top EXCEPT !.pc = "choose", !.D = d, !.cexA = a]
  OBVIOUS
<1>11. FrameOK(f, Len(configs)) /\ f.cfg = Top.cfg
  <2>1. f.cfg = Top.cfg /\ f.i = Top.i /\ DOMAIN f = DOMAIN Top
    BY <1>2, <1>10 DEF FrameOK
  <2> QED BY <2>1, <1>2 DEF FrameOK
<1>12. configs' = [configs EXCEPT ![Top.cfg] = D] /\ SetTop(f)
  BY <1>3, <1>4, <1>6, <1>8, <1>9, <1>10 DEF Extend
<1> QED BY <1>1, <1>7, <1>11, <1>12, QuietOn

\* There is nothing left to choose.
LEMMA NoLeftChildKeeps ==
  ASSUME RunInv, NoLeftChild
  PROVE  KeepsUp
<1>1. frames # <<>> /\ UNCHANGED <<net, tbl, prefix>> /\ configs' = configs
  BY DEF NoLeftChild, At
<1>2. ConfigOK(TopC) /\ FrameOK(Top, Len(configs)) /\ Top.cfg \in DOMAIN configs
  BY <1>1, TopOK
<1>3. PICK f : f = [Top EXCEPT !.pc = "left"]
  OBVIOUS
<1>4. FrameOK(f, Len(configs)) /\ f.cfg = Top.cfg
  <2>1. f.cfg = Top.cfg /\ f.i = Top.i /\ DOMAIN f = DOMAIN Top
    BY <1>2, <1>3 DEF FrameOK
  <2> QED BY <2>1, <1>2 DEF FrameOK
<1>5. PICK D : D = TopC
  OBVIOUS
<1>6. configs' = [configs EXCEPT ![Top.cfg] = D]
  <2>1. PICK F : configs \in Seq(F)
    BY DEF RunInv, ConfigsOK, IsSeq
  <2>2. configs = [k \in DOMAIN configs |-> configs[k]]
    BY <2>1
  <2>3. D = configs[Top.cfg]
    BY <1>5 DEF TopC
  <2> QED BY <2>2, <2>3, <1>1
<1>7. SetTop(f)
  BY <1>3 DEF NoLeftChild
<1> QED BY <1>1, <1>2, <1>4, <1>5, <1>6, <1>7, QuietOn

\* The right child starts from the configuration of its node.
LEMMA RightChildKeeps ==
  ASSUME RunInv, RightChild
  PROVE  KeepsUp
<1> DEFINE n == Len(configs)
<1>1. frames # <<>> /\ UNCHANGED <<net, tbl, prefix>>
  BY DEF RightChild, At
<1>2. Grows
  BY <1>1, Standing
<1>3. /\ Top = frames[Len(frames)] /\ ConfigOK(TopC) /\ FrameOK(Top, n) /\ n \in Nat
      /\ Framed(frames, n)
  BY <1>1, TopOK DEF RunInv
<1>4. PICK C : C = TopC
  OBVIOUS
<1>5. PICK D : D = [C EXCEPT !.firstStep = FALSE]
  OBVIOUS
<1>6. ConfigOK(D)
  <2>1. D.cut = C.cut /\ D.en = C.en /\ {"cut", "en"} \subseteq DOMAIN D
    BY <1>3, <1>4, <1>5 DEF ConfigOK
  <2> QED BY <2>1, <1>3, <1>4 DEF ConfigOK
<1>7. ConfigOK(D)'
  BY <1>2, <1>6, ConfigStays
<1>8. PICK s : s = configs'
  OBVIOUS
<1>9. s = [configs EXCEPT ![Top.cfg] = D]
  BY <1>4, <1>5, <1>8 DEF RightChild
<1>10. ConfigsOK(s)' /\ Len(s) = n
  BY <1>1, <1>2, <1>7, <1>9, ConfigReplaced
<1>11. PICK f : f = [Top EXCEPT !.pc = "right"]
  OBVIOUS
<1>12. FrameOK(f, n) /\ f.cfg = frames[Len(frames)].cfg
  <2>1. f.cfg = Top.cfg /\ f.i = Top.i /\ DOMAIN f = DOMAIN Top
    BY <1>3, <1>11 DEF FrameOK
  <2> QED BY <2>1, <1>3 DEF FrameOK
<1>13. PICK d : d = DPlus
  OBVIOUS
<1>14. PICK a : a = Top.cexA \o Alternatives
  OBVIOUS
<1>15. PICK g : g = Frame(Top.cfg, d, a)
  OBVIOUS
<1>16. g.cfg = Top.cfg /\ FrameOK(g, n)
  <2>1. g.cfg = Top.cfg /\ g.i = 1 /\ {"cfg", "i"} \subseteq DOMAIN g
    BY <1>15 DEF Frame
  <2> QED BY <2>1, <1>3 DEF FrameOK
<1>17. PICK r : r = [frames EXCEPT ![Len(frames)] = f]
  OBVIOUS
<1>18. frames' = Append(r, g)
  BY <1>11, <1>13, <1>14, <1>15, <1>17 DEF RightChild
<1>19. Framed(r, n)
  BY <1>1, <1>3, <1>12, <1>17, FramedOn
<1>20. r # <<>> /\ r[Len(r)].cfg <= g.cfg
  <2> DEFINE t == [frames EXCEPT ![Len(frames)] = f]
  <2>1. IsSeq(frames) /\ Len(frames) \in DOMAIN frames
    BY <1>1, <1>3, SeqIs DEF Framed
  <2>2. Len(t) = Len(frames) /\ DOMAIN t = DOMAIN frames /\ t[Len(frames)] = f
    BY <2>1, SeqReplaced
  <2> HIDE DEF t
  <2>3. r = t
    BY <1>17 DEF t
  <2>4. r[Len(r)].cfg = Top.cfg /\ r # <<>>
    BY <1>3, <1>12, <2>1, <2>2, <2>3
  <2> QED BY <2>4, <1>3, <1>16 DEF FrameOK
<1> HIDE DEF n
<1>21. Framed(Append(r, g), n)
  <2>1. n <= n
    BY <1>3
  <2> QED BY <2>1, <1>3, <1>16, <1>19, <1>20, FramedOpens
<1>22. Framed(frames, Len(configs))'
  <2>1. PICK q : q = frames'
    OBVIOUS
  <2>2. Framed(q, Len(s))
    BY <2>1, <1>10, <1>18, <1>21
  <2> QED BY <2>1, <2>2, <1>8 DEF Framed
<1>23. ~Deeper
  BY <1>3, <1>8, <1>10 DEF Deeper, n
<1>24. ConfigsOK(configs)'
  BY <1>8, <1>10 DEF ConfigsOK
<1> QED BY <1>1, <1>22, <1>23, <1>24, QuietKeeps

\* Steps that open and close no call.
LEMMA StillKeeps ==
  ASSUME RunInv, UNCHANGED <<net, tbl, prefix, configs, frames>>
  PROVE  KeepsUp
<1>1. Grows
  BY Standing
<1>2. ConfigsOK(configs)'
  <2>1. PICK s : s = configs
    OBVIOUS
  <2>2. ConfigsOK(s)'
    BY <1>1, <2>1, ConfigsStay DEF RunInv, ConfigsOK
  <2>3. configs' = s
    BY <2>1
  <2> QED BY <2>2, <2>3 DEF ConfigsOK
<1>3. Framed(frames, Len(configs))'
  <2>1. Framed(frames, Len(configs))
    BY DEF RunInv
  <2> QED BY <2>1 DEF Framed
<1>4. Len(configs) \in Nat
  BY SeqIs DEF RunInv, ConfigsOK
<1>5. ~Deeper
  BY <1>4 DEF Deeper
<1> QED BY <1>2, <1>3, <1>5, QuietKeeps

\* RunInv is inductive, and with it every step to a new configuration fires.
LEMMA StepKeeps ==
  ASSUME RunInv, [Next]_vars
  PROVE  KeepsUp
<1>1. CASE Late
  BY <1>1, StillKeeps DEF Late
<1>2. CASE TimeUp
  BY <1>2, QuietReturn DEF TimeUp, At
<1>3. CASE Cutoff
  BY <1>3, QuietReturn DEF Cutoff, At
<1>4. ASSUME NEW g \in Uninitialised, Endpoint(g) PROVE KeepsUp
  BY <1>4, QuietReturn DEF Endpoint, At
<1>5. ASSUME NEW g \in Uninitialised, Extend(g) PROVE KeepsUp
  BY <1>5, ExtendKeeps
<1>6. CASE ChooseKnown
  BY <1>6, KnownKeeps
<1>7. CASE ChooseNew
  BY <1>7, NewKeeps
<1>8. CASE NoLeftChild
  BY <1>8, NoLeftChildKeeps
<1>9. CASE Stop
  BY <1>9, QuietReturn DEF Stop, At
<1>10. CASE RightChild
  BY <1>10, RightChildKeeps
<1>11. CASE NoRightChild
  BY <1>11, QuietReturn DEF NoRightChild, At
<1>12. CASE RightDone
  BY <1>12, QuietReturn DEF RightDone, At
<1>13. CASE Report
  BY <1>13, StillKeeps DEF Report
<1>14. CASE UNCHANGED vars
  BY <1>14, StillKeeps DEF vars, prefix
<1> QED BY <1>1, <1>2, <1>3, <1>4, <1>5, <1>6, <1>7, <1>8, <1>9, <1>10, <1>11, <1>12, <1>13, <1>14 DEF Next, Explore

\* The root is sound.
LEMMA InitRuns == Init => RunInv
<1> SUFFICES ASSUME Init PROVE RunInv
  OBVIOUS
<1>1. NetKnown
  BY DEF Init, NetKnown
<1>2. NetOK(net)
  BY <1>1, NetsAssumption DEF NetKnown
<1>3. IsSeq(condition)
  <2>1. PICK q : q = Listed(net.m0)
    OBVIOUS
  <2>2. q \in Seq(net.m0)
    BY <1>2, <2>1, ListedIsListing DEF Listing, NetOK
  <2> DEFINE made(s) == [p |-> s[1], color |-> s[2], producer |-> 0]
             G == {made(s) : s \in net.m0}
  <2>3. condition = [k \in DOMAIN q |-> made(q[k])]
    BY <2>1 DEF Init
  <2>4. Len(q) \in Nat /\ DOMAIN q = 1 .. Len(q) /\ \A k \in 1 .. Len(q) : q[k] \in net.m0
    BY <2>2
  <2>5. \A k \in 1 .. Len(q) : made(q[k]) \in G
    BY <2>4
  <2> HIDE DEF made, G
  <2>6. condition \in Seq(G)
    BY <2>3, <2>4, <2>5
  <2> QED BY <2>6 DEF IsSeq
<1>4. IsSeq(event) /\ EventsOK
  <2>1. event = <<>>
    BY DEF Init
  <2>2. event \in Seq({}) /\ DOMAIN event = {}
    BY <2>1
  <2> QED BY <2>2 DEF IsSeq, EventsOK
<1>5. PICK C : C = [Root EXCEPT !.cut = DOMAIN condition]
  OBVIOUS
<1>6. ConfigOK(C)
  <2>1. C.cut = DOMAIN condition /\ C.en = <<>> /\ {"cut", "en"} \subseteq DOMAIN C
    BY <1>5 DEF Root
  <2>2. IsSeq(C.en) /\ DOMAIN C.en = {}
    <3>1. C.en \in Seq({}) /\ DOMAIN C.en = {}
      BY <2>1
    <3> QED BY <3>1 DEF IsSeq
  <2> QED BY <2>1, <2>2 DEF ConfigOK
<1>7. ConfigsOK(configs) /\ Len(configs) = 1
  <2>1. configs = <<C>>
    BY <1>5 DEF Init
  <2>2. configs \in Seq({C}) /\ Len(configs) = 1 /\ \A k \in DOMAIN configs : configs[k] = C
    BY <2>1
  <2> QED BY <2>2, <1>6 DEF ConfigsOK, IsSeq
<1>8. Framed(frames, 1)
  <2>1. PICK f : f = Frame(1, {}, <<>>)
    OBVIOUS
  <2>2. FrameOK(f, 1) /\ f.cfg = 1
    <3>1. f.cfg = 1 /\ f.i = 1 /\ {"cfg", "i"} \subseteq DOMAIN f
      BY <2>1 DEF Frame
    <3> QED BY <3>1 DEF FrameOK
  <2>3. frames = <<f>>
    BY <2>1 DEF Init
  <2>4. frames \in Seq({f}) /\ \A k \in DOMAIN frames : frames[k] = f
    BY <2>3
  <2> QED BY <2>2, <2>4 DEF Framed, IsSeq
<1> QED BY <1>1, <1>3, <1>4, <1>7, <1>8 DEF RunInv

\* Every configuration of the walk is a run of the net, for all nets that
\* NetsAssumption admits and any bound of the prefix.
THEOREM ConfigurationsRun == Spec => ConfigurationsAreRuns
<1>1. Init => RunInv
  BY InitRuns
<1>2. RunInv /\ [Next]_vars => RunInv'
  BY StepKeeps DEF KeepsUp
<1>3. RunInv /\ [Next]_vars => [Deeper /\ (event' # event \/ \A c \in Candidates : AsFound(TopC.en[c.pe])) => Fires]_vars
  BY StepKeeps DEF KeepsUp, Run
<1> QED BY <1>1, <1>2, <1>3, PTL DEF Spec, ConfigurationsAreRuns
=============================================================================

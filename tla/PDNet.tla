------------------------------- MODULE PDNet -------------------------------
(***************************************************************************)
(* A PDNet and the firing rule (cpn_rg.cpp) on its control flow: the net   *)
(* of a program, in one of its two translations, and its marking.          *)
(***************************************************************************)
EXTENDS PDNetBuild

CONSTANT DefaultMains     \* the programs that have the default net, too

ASSUME DefaultAssumption == DefaultMains \subseteq Mains

VARIABLES
  NoDependence, \* the option: which translation the net is from
  marking       \* marking[<<p, c>>]: the tokens of colour c on place p

(* The input and output arcs of each transition, as place and colour.     *)
Nets == [plain \in BOOLEAN |-> IF plain THEN Arcs_withoutdependence ELSE Arcs]

producer == [plain \in BOOLEAN |-> [t \in Transitions |->
               {<<a.src, a.exp>> : a \in {b \in Nets[plain] : b.tgt = t}}]]
consumer == [plain \in BOOLEAN |-> [t \in Transitions |->
               {<<a.tgt, a.exp>> : a \in {b \in Nets[plain] : b.src = t}}]]

Needs(t) == producer[NoDependence][t]
Gives(t) == consumer[NoDependence][t]

-----------------------------------------------------------------------------
Init ==
  /\ NoDependence \in BOOLEAN
  /\ \E f \in Mains :
       /\ NoDependence \/ f \in DefaultMains
       /\ marking = SetToBag({<<BeginP(f), MainTid>>} \cup {<<MutexP(m), Dot>> : m \in Initialised})

(* A binding of the thread is possible when every control place before the *)
(* transition holds a token of the colour the binding gives its arc; the   *)
(* transitions of abort never fire.                                        *)
is_Fireable(t, tid) ==
  /\ t # BeginT("abort")
  /\ LET marked(in) == in # {} /\ Bind(in, tid) \subseteq BagToSet(marking)
     IN  marked(Needs(t))

(* Slip: the tokens produced keep the variable of the arc as colour. *)
MarkingUnbound(t, tid) ==
  (marking (-) SetToBag(Bind(Needs(t), tid))) (+) SetToBag(Gives(t))

(* Slip: the tokens produced are added twice. *)
MarkingTwice(t, tid) ==
  LET out == SetToBag(Bind(Gives(t), tid))
  IN  (marking (-) SetToBag(Bind(Needs(t), tid))) (+) out (+) out

Marking_after_fire(t, tid) ==
  (marking (-) SetToBag(Bind(Needs(t), tid))) (+) SetToBag(Bind(Gives(t), tid))

Fire(t, tid) ==
  /\ is_Fireable(t, tid)
  /\ marking' = Marking_after_fire(t, tid)
  /\ UNCHANGED NoDependence

Next == \E t \in Transitions, tid \in Tids : Fire(t, tid)
netvars == <<NoDependence, marking>>
Spec == Init /\ [][Next]_netvars

(* How many copies of token s a marking holds. *)
Copies(s, m) == IF s \in DOMAIN m THEN m[s] ELSE 0

(* The tokens a net can hold: threads on the places of the control flow,  *)
(* dots on those of mutexes and conditions.                               *)
Slots(plain) ==
  (UNION {Bind(producer[plain][t] \cup consumer[plain][t], tid) : t \in Transitions, tid \in Tids})
    \cup {<<BeginP(f), MainTid>> : f \in Mains}
    \cup {<<MutexP(m), Dot>> : m \in Initialised}

TypeOK ==
  /\ NoDependence \in BOOLEAN
  /\ IsABag(marking) /\ BagToSet(marking) \subseteq Slots(NoDependence)
=============================================================================

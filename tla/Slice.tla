-------------------------------- MODULE Slice --------------------------------
(***************************************************************************)
(* The slice of a net with respect to a formula: two_phrase_slicing with   *)
(* post_process (slice.cpp), the option -PDNetSlice, and the slice by arcs *)
(* (traditionalSlice.cpp), the option -TraditionalSlice.  When the slice   *)
(* is complete, the net and its slice run side by side: the slice follows  *)
(* each step of the net that it keeps.  And the forward slice of a change  *)
(* (preWardSlicing), the option -CIA: the statements it reaches.           *)
(*                                                                         *)
(* The places of variables are part of this net, but not their values; of  *)
(* a value it is known which transition wrote it.  Left out are the        *)
(* distances of places, which only order the search for a counterexample,  *)
(* and malloc's places, which are kept with the statement.                 *)
(***************************************************************************)
EXTENDS PDNetBuild

CONSTANTS
  Reads,        \* Reads[t]: the variables transition t reads, in the order of its arcs
  Writes,       \* Writes[t]: the variables it writes
  Endless,      \* the loops over ";" and those with the condition 1
  GlobalVars,   \* the global variables; of others each thread has its own
  Observed,     \* Observed[f]: the transitions and variables that the formula
                \* for the program with main function f names
  Changed       \* Changed[f]: the statements of that program one of which was
                \* changed since it was checked

VARIABLES
  main,         \* the main function of the program
  net,          \* the arcs before and behind each transition, what it reads and
                \* writes, and the places that correspond to each place
  phase,        \* "first", "second", "traditional", then "run"; for the
                \* forward slice "forward", "forward again", then "impact"
  final_P, final_T,     \* the places and transitions of the slice
  done,         \* the places that were looked at in this phase
  cor_Ps,       \* places to be kept if they lead to one that is kept
  slice,        \* the arcs of the slice
  marking,      \* the marking of the net
  sliced,       \* the marking of the slice
  writer        \* who wrote the value that a thread finds in a variable

runvars == <<slice, marking, sliced, writer>>
slicevars == <<main, net, phase, final_P, final_T, done, cor_Ps, runvars>>

-----------------------------------------------------------------------------
(* The net with the types of its arcs. *)

Var(v)     == <<"var", v>>
Touched(t) == ToSet(net.reads[t]) \cup net.writes[t]

iscontrolP(p) == p[1] # "var"

(* The places whose statements are looked at: not "executed" places. *)
OfStatement(p) == iscontrolP(p) /\ ~IsExecuted(p)

(* The arcs by which iter_extra leads back to the head of a loop. *)
LoopsBack == UNION {ToSet(FalseExitT(n)) \X {P(n), FirstP(n)} : n \in {m \in Node : Kind(m) = "while"}}

(* The types of the arcs from a transition; those to one are "control".   *)
ArcType(a, back) ==
  CASE IsExecuted(a.tgt) \/ <<a.src, a.tgt>> \in back -> "executed"
    [] a.src[1] = "call" -> IF a.tgt[1] = "beginP" THEN "call_enter" ELSE "call_connect"
    [] a.tgt[1] = "endP" ->
         IF a.src[1] = "begin" \/ (a.src[1] = "T" /\ Kind(a.src[2]) = "exit") THEN "executed" ELSE "call_exit"
    [] a.tgt[1] = "signalP" /\ a.tgt[3] = 3 -> "executed"
    [] OTHER -> "control"

DataType(reads, writes, v) == IF v \notin writes THEN "readArc"
                              ELSE IF v \in ToSet(reads) THEN "readwrite" ELSE "writeArc"
judge_write == {"writeArc", "readwrite"}
judge_read  == {"readArc", "readwrite"}

TypedArc(p, exp, type) == [place |-> p, exp |-> exp, type |-> type]

(* The arcs between a transition and the places of variables: a token that *)
(* is only read is given back as it was.                                   *)
DataArcs(reads, writes) ==
  LET arc(v, exp) == TypedArc(Var(v), exp, DataType(reads, writes, v))
  IN  [in  |-> {arc(v, "value") : v \in ToSet(reads) \cup writes},
       out |-> {arc(v, IF v \in writes THEN "new value" ELSE "value") : v \in ToSet(reads) \cup writes}]

(* The places to be kept with p if they lead to a place that is kept: the  *)
(* statement of a call, the breaks and continues of a loop, the join of a  *)
(* thread created, the calls of abort.                                     *)
get_correspond_P(p) ==
  CASE p[1] = "callP" -> {P(p[2])}
    [] p[1] = "P" /\ Kind(p[2]) = "while" -> {P(j) : j \in {k \in DOMAIN Loop : Loop[k] = p[2]}}
    [] p[1] = "P" /\ Kind(p[2]) = "create" ->
         {P(j) : j \in {k \in Node : Kind(k) = "join" /\ Arg(k) = Arg(p[2])}}
    [] p = BeginP(main) ->
         UNION {{CallP(n, i) : i \in {j \in DOMAIN Called(n) : Called(n)[j] = "abort"}} : n \in Node}
    [] OTHER -> {}

ControlArc(src, tgt, exp, type) == [src |-> src, tgt |-> tgt, exp |-> exp, type |-> type]
TypedArcs(arcs) ==
  LET back == LoopsBack
  IN  {ControlArc(a.src, a.tgt, a.exp, IF a.tgt \in Transitions THEN "control" ELSE ArcType(a, back)) : a \in arcs}

NetOf(arcs, reads, writes) ==
  [pre    |-> [t \in DOMAIN reads |->
                 DataArcs(reads[t], writes[t]).in
                   \cup {TypedArc(a.src, a.exp, a.type) : a \in {b \in arcs : b.tgt = t}}],
   post   |-> [t \in DOMAIN reads |->
                 DataArcs(reads[t], writes[t]).out
                   \cup {TypedArc(a.tgt, a.exp, a.type) : a \in {b \in arcs : b.src = t}}],
   reads  |-> reads,
   writes |-> writes,
   cor_P  |-> [p \in {a.src : a \in arcs} \cup {a.tgt : a \in arcs} |-> get_correspond_P(p)]]

Inputs(t)             == {a.place : a \in net.pre[t]}
Outputs(t)            == {a.place : a \in net.post[t]}
InputsBy(t, types)    == {a.place : a \in {b \in net.pre[t] : b.type \in types}}
OutputsBy(t, types)   == {a.place : a \in {b \in net.post[t] : b.type \in types}}
Producers(p)          == {t \in DOMAIN net.pre : p \in Outputs(t)}
Consumers(p)          == {t \in DOMAIN net.pre : p \in Inputs(t)}
ProducersBy(p, types) == {t \in DOMAIN net.pre : p \in OutputsBy(t, types)}
ConsumersBy(p, types) == {t \in DOMAIN net.pre : p \in InputsBy(t, types)}

(* The control places before the transitions of ts. *)
Statements(ts) == UNION {InputsBy(t, {"control"}) : t \in ts}

-----------------------------------------------------------------------------
(* Dependences. *)

(* What can be reached from S by Step. *)
Search(S, Step(_)) ==
  LET RECURSIVE grow(_, _)
      grow(all, last) == LET new == UNION {Step(x) : x \in last} \ all
                         IN  IF last = {} THEN all ELSE grow(all \cup new, new)
  IN  grow(S, S)

(* The transitions before t on the control flow, by arcs of these types.  *)
Before(t, types) ==
  UNION {ProducersBy(p, types) : p \in {q \in Inputs(t) : iscontrolP(q)}}

(* The transitions behind t.                                               *)
Behind(t, types) ==
  UNION {ConsumersBy(p, types) : p \in {q \in Outputs(t) : iscontrolP(q)}}

(* Slip: a transition that reads and writes v ends its own search.        *)
find_previous_defineItself(t, v, allowed) ==
  LET writes(u) == v \in net.writes[u]
      back(u) == IF writes(u) THEN {} ELSE Before(u, {"executed", "call_connect", allowed})
  IN  {u \in Search({t}, back) \ {t} : writes(u)}

(* The writers of v that paths back from t meet first.  The paths go       *)
(* through statements and either out of functions to their callers or into *)
(* functions called; t itself does not end them.                           *)
find_previous_define(t, v, allowed) ==
  LET writes(u) == v \in net.writes[u]
      back(u) == IF u # t /\ writes(u) THEN {}
                 ELSE Before(u, {"executed", "call_connect", allowed})
  IN  {u \in Search({t}, back) \ {t} : writes(u)}

(* Slip: the search ends at the first readers.                            *)
find_after_useFirst(t, v, allowed) ==
  LET uses(u)  == v \in ToSet(net.reads[u])
      forth(u) == IF u # t /\ (v \in net.writes[u] \/ uses(u)) THEN {}
                  ELSE Behind(u, {"control", "call_connect", allowed})
  IN  {u \in Search({t}, forth) \ {t} : uses(u)}

(* The readers of v that paths forward from t meet before a transition     *)
(* writes v without reading it; t itself does not end them.                *)
find_after_use(t, v, allowed) ==
  LET uses(u)  == v \in ToSet(net.reads[u])
      forth(u) == IF u # t /\ v \in net.writes[u] /\ ~uses(u) THEN {}
                  ELSE Behind(u, {"control", "call_connect", allowed})
  IN  {u \in Search({t}, forth) \ {t} : uses(u)}

(* There is a path from behind place p to a transition with input q.      *)
contain_path(p, q) ==
  LET forth(u) == UNION {Consumers(r) : r \in OutputsBy(u, {"executed", "call_enter", "call_exit"})}
  IN  \E u \in Search(Consumers(p), forth) : q \in Inputs(u)

(* In the first phase the place of a global variable is taken from the     *)
(* wrong list: the k-th arc to an input stands for the k-th arc to an      *)
(* output.  The lists differ by the statement's own place in front, which  *)
(* a return makes up for by its arc to the end of the function.            *)
Looked_up(t, k) ==
  IF phase = "second" \/ (\E p \in Outputs(t) : p[1] = "endP") THEN Var(net.reads[t][k])
  ELSE IF k = 1 THEN CHOOSE p \in Inputs(t) : p[1] \in {"P", "callP"}
  ELSE Var(net.reads[t][k - 1])

DataDependence(t, k) ==
  LET v == net.reads[t][k]
      defines == find_previous_define(t, v, IF phase = "first" THEN "call_enter" ELSE "call_exit")
  IN  IF v \in GlobalVars
      THEN {Looked_up(t, k)} \cup Statements(ProducersBy(Looked_up(t, k), judge_write))
      ELSE IF defines = {} THEN {} ELSE {Var(v)} \cup Statements(defines)

(* What place p needs: its transitions with all their control places, what *)
(* decides whether it is reached, and what its transitions read.           *)
Needed(p) ==
  Statements(Consumers(p))
    \cup Statements(ProducersBy(p, {"control", "call_connect", "call_enter"}))
    \cup UNION {UNION {DataDependence(t, k) : k \in DOMAIN net.reads[t]} : t \in ConsumersBy(p, {"control"})}

(* What a change of place p reaches: what its transitions enter, and the   *)
(* statements that read what they write.  Of a global variable all who     *)
(* read it count, in whatever order they run.                              *)
EnterTs(p) == CASE p[1] \in {"P", "callP"} -> ToSet(EntersT(p))
                [] p[1] = "beginP"         -> {BeginT(p[2])}
                [] OTHER                   -> {}

UsesOf(t, v) ==
  IF v \in GlobalVars THEN ProducersBy(Var(v), judge_read)
  ELSE find_after_use(t, v, IF phase = "forward" THEN "call_exit" ELSE "call_enter")

Reaches(p) ==
  UNION {OutputsBy(t, IF phase = "forward" THEN {"control", "call_enter", "call_connect"}
                      ELSE {"control"}) : t \in EnterTs(p) \cap DOMAIN net.pre}
    \cup UNION {UNION {Statements(UsesOf(t, v)) : v \in net.writes[t]} : t \in ConsumersBy(p, {"control"})}

-----------------------------------------------------------------------------
(* The slice. *)

(* Loops that may keep a thread for good.                                 *)
judge_deadloop(n) ==
  /\ Kind(n) = "while"
  /\ n \in Endless \/ (Kind(Kids(n)[1]) = "block" /\ Kids(Kids(n)[1]) = <<>>)

(* The control places of the transitions that the formula names or that    *)
(* touch its variables, and of such loops.                                 *)
extract_criteria(f) ==
  LET touch(v) == {t \in DOMAIN net.pre : v \in Touched(t)}
      named == (Observed[f] \cap DOMAIN net.pre) \cup UNION {touch(p[2]) : p \in Observed[f] \ DOMAIN net.pre}
  IN  {p \in Statements(named) : ~IsExecuted(p)} \cup {P(n) : n \in {m \in Node : judge_deadloop(m)}}

(* Slip: places that lost their producers are left without.               *)
post_processNone(n) == n

(* The kept transitions that come before place p on the control flow.     *)
find_previous_T(p) ==
  LET back(u) == IF u \in final_T THEN {}
                 ELSE Before(u, {"executed", IF p[1] = "endP" THEN "call_exit" ELSE "call_connect"})
  IN  Search(Producers(p), back) \cap final_T

(* A kept place all of whose producers are lost gets those before them.   *)
post_process(n) ==
  LET lost == {p \in final_P : \A t \in final_T : p \notin {a.place : a \in n.post[t]}}
      new(t) == {p \in lost : t \in find_previous_T(p)}
  IN  [n EXCEPT !.post = [t \in final_T |-> @[t] \cup {TypedArc(p, Tid, "executed") : p \in new(t)}]]

(* The arcs between what is kept. *)
copy_childNet ==
  LET kept(arcs) == [t \in final_T |-> {a \in arcs[t] : a.place \in final_P}]
  IN  [pre |-> kept(net.pre), post |-> kept(net.post)]

(* sameArcExp: a transition that gives a place back what it takes.        *)
sameArcExp(p, t) ==
  \E a \in net.pre[t], b \in net.post[t] : a.place = p /\ b.place = p /\ a.exp = b.exp

Changes(p) == {t \in Producers(p) \cup Consumers(p) : ~sameArcExp(p, t)}

-----------------------------------------------------------------------------
StartOf(f) == SetToBag({<<BeginP(f), MainTid>>} \cup {<<MutexP(m), Dot>> : m \in Initialised})

Owner(v, tid) == IF v \in GlobalVars THEN "" ELSE tid
VarSlots == {<<v, Owner(v, tid)>> : v \in UNION {Touched(t) : t \in DOMAIN net.pre}, tid \in Tids}
Unwritten == "init"

(* two_phrase_slicing takes the criteria, endless loops among them,        *)
(* initCriteria the transitions that change them, preWardSlicing the       *)
(* statement that was changed.                                             *)
SliceInit ==
  /\ main \in DOMAIN Observed
  /\ net = NetOf(TypedArcs(Arcs), Reads, Writes)
  /\ phase \in {"first", "traditional", "forward"}
  /\ \E criteria \in IF phase = "forward" THEN {{P(n)} : n \in Changed[main]} ELSE {extract_criteria(main)} :
       IF phase = "traditional"
       THEN /\ final_T = UNION {Changes(p) : p \in criteria}
            /\ final_P = UNION {Inputs(t) : t \in final_T}
       ELSE /\ final_T = UNION {Consumers(p) : p \in criteria}
            /\ final_P = criteria \cup Statements(final_T)
  /\ done = {} /\ cor_Ps = {}
  /\ slice = [pre |-> <<>>, post |-> <<>>]
  /\ marking = StartOf(main)
  /\ sliced = EmptyBag
  /\ writer = [s \in VarSlots |-> Unwritten]

NextPlace == CHOOSE p \in final_P : p \notin done

(* The next place of the list in either phase.                            *)
LookAt ==
  LET p == NextPlace IN
  /\ phase \in {"first", "second"} /\ final_P # done
  /\ done' = done \cup {p}
  /\ IF OfStatement(p)
     THEN /\ final_T' = final_T \cup Consumers(p)
          /\ final_P' = final_P \cup Needed(p)
          /\ cor_Ps' = cor_Ps \cup net.cor_P[p]
     ELSE UNCHANGED <<final_P, final_T, cor_Ps>>
  /\ UNCHANGED <<main, net, phase, runvars>>

Found == {q \in cor_Ps \ final_P : \E p \in final_P : contain_path(q, p)}

(* At the end of the list the corresponding places are added,             *)
Correspond ==
  /\ phase \in {"first", "second"} /\ final_P = done /\ Found # {}
  /\ final_P' = final_P \cup Found
  /\ UNCHANGED <<main, net, phase, final_T, done, cor_Ps, runvars>>

(* and when there are none the second phase starts anew,                  *)
SecondPhase ==
  /\ phase = "first" /\ final_P = done /\ Found = {}
  /\ phase' = "second" /\ done' = {}
  /\ UNCHANGED <<main, net, final_P, final_T, cor_Ps, runvars>>

StartSliced ==
  LET kept == {s \in DOMAIN marking : s[1] \in final_P} IN [s \in kept |-> marking[s]]

(* or the slice is complete.                                              *)
CompleteSlice ==
  /\ phase = "second" /\ final_P = done /\ Found = {}
  /\ phase' = "run"
  /\ slice' = post_process(copy_childNet)
  /\ sliced' = StartSliced
  /\ UNCHANGED <<main, net, final_P, final_T, done, cor_Ps, marking, writer>>

(* Every transition that changes a kept place, with all it takes.         *)
traditionalAPNSlice ==
  /\ phase = "traditional" /\ final_P # done
  /\ done' = done \cup {NextPlace}
  /\ final_T' = final_T \cup Changes(NextPlace)
  /\ final_P' = final_P \cup UNION {Inputs(t) : t \in Changes(NextPlace)}
  /\ UNCHANGED <<main, net, phase, cor_Ps, runvars>>

CompleteTraditional ==
  /\ phase = "traditional" /\ final_P = done
  /\ phase' = "run"
  /\ slice' = copy_childNet
  /\ sliced' = StartSliced
  /\ UNCHANGED <<main, net, final_P, final_T, done, cor_Ps, marking, writer>>

(* preWardSlicing: the next place of the list.                             *)
LookForward ==
  /\ phase \in {"forward", "forward again"} /\ final_P # done
  /\ done' = done \cup {NextPlace}
  /\ final_P' = IF OfStatement(NextPlace) THEN final_P \cup Reaches(NextPlace) ELSE final_P
  /\ UNCHANGED <<main, net, phase, final_T, cor_Ps, runvars>>

(* The second phase goes into functions called where the first went out.   *)
ForwardAgain ==
  /\ phase = "forward" /\ final_P = done
  /\ phase' = "forward again" /\ done' = {}
  /\ UNCHANGED <<main, net, final_P, final_T, cor_Ps, runvars>>

CompleteForward ==
  /\ phase = "forward again" /\ final_P = done
  /\ phase' = "impact"
  /\ UNCHANGED <<main, net, final_P, final_T, done, cor_Ps, runvars>>

-----------------------------------------------------------------------------
(* The net and its slice. *)

Control(arcs) == {<<a.place, a.exp>> : a \in {b \in arcs : iscontrolP(b.place)}}

CanFire(n, m, t, tid) ==
  /\ t # BeginT("abort")
  /\ LET in == Bind(Control(n.pre[t]), tid) IN in # {} /\ in \subseteq BagToSet(m)

After(n, m, t, tid) ==
  (m (-) SetToBag(Bind(Control(n.pre[t]), tid))) (+) SetToBag(Bind(Control(n.post[t]), tid))

RunStep(t, tid) ==
  /\ phase \in {"run", "impact"} /\ CanFire(net, marking, t, tid)
  /\ marking' = After(net, marking, t, tid)
  /\ sliced' = IF phase = "run" /\ t \in final_T THEN After(slice, sliced, t, tid) ELSE sliced
  /\ writer' = [s \in VarSlots |-> IF s[1] \in net.writes[t] /\ s[2] = Owner(s[1], tid) THEN t ELSE writer[s]]
  /\ UNCHANGED <<main, net, phase, final_P, final_T, done, cor_Ps, slice>>

-----------------------------------------------------------------------------
(* The markings that the net reaches by transitions that are not kept.    *)
Unseen ==
  LET step(m) == {After(net, m, u[1], u[2]) : u \in {w \in (DOMAIN net.pre \ final_T) \X Tids : CanFire(net, m, w[1], w[2])}}
  IN  Search({marking}, step)

(* A kept transition can fire in the slice exactly when the net can come   *)
(* to fire it without another kept one in between: the slice has neither   *)
(* lost a step nor does it take one before its time.                       *)
SliceFollows ==
  phase = "run" =>
    LET unseen == Unseen IN
    \A t \in final_T : \A tid \in Tids :
      CanFire(slice, sliced, t, tid) <=> \E m \in unseen : CanFire(net, m, t, tid)

(* A kept transition finds in the variables it reads what it finds in the  *)
(* net: whoever wrote the value is kept, and so is the variable.           *)
DefinitionsKept ==
  phase = "run" =>
    \A t \in final_T : \A tid \in Tids :
      CanFire(net, marking, t, tid) =>
        \A v \in ToSet(net.reads[t]) :
          LET w == writer[<<v, Owner(v, tid)>>]
          IN  w = Unwritten \/ (w \in final_T /\ Var(v) \in final_P)

(* A transition that finds a value written by an impacted statement is     *)
(* impacted itself: a change does not get past the forward slice.          *)
Impacted(t) == \E p \in Statements({t}) : OfStatement(p) /\ p \in final_P

ImpactFollows ==
  phase = "impact" =>
    \A t \in DOMAIN net.pre, tid \in Tids :
      CanFire(net, marking, t, tid) =>
        \A v \in ToSet(net.reads[t]) :
          LET w == writer[<<v, Owner(v, tid)>>]
          IN  w # Unwritten /\ Impacted(w) => Impacted(t)
=============================================================================

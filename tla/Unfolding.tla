----------------------------- MODULE Unfolding -----------------------------
(***************************************************************************)
(* The unfolding of a synchronized net in search of a counterexample       *)
(* (class UNFOLDING and UNFPDN, unfolding.cpp).                            *)
(*                                                                         *)
(* The conditions and events of the prefix are kept in the order of their  *)
(* creation.  Explore walks down one configuration after the other: it     *)
(* extends the configuration by one event (the left child), and when that  *)
(* subtree is done looks for a conflict of the event that has not been     *)
(* tried first (Alt), whose path it follows from the same configuration    *)
(* (the right child).  The recursion of Explore is the sequence frames;    *)
(* configs holds the configurations of the nodes on it, which a node and   *)
(* its right child share.                                                  *)
(*                                                                         *)
(* A net has, besides what Conflicts needs:                                *)
(*   modes     of a transition: its firings, as the sets of tokens (place  *)
(*             and colour) taken and put                                   *)
(*   m0        the tokens of the initial marking                           *)
(*   controlP  the control places                                          *)
(*   baT, I    the automaton transitions, and those into accepting states  *)
(*   guard     what an automaton transition asks of the marking            *)
(*   abort     transitions that are never extended (isabort, CP_tran)      *)
(*   S         the scheduler place of the visible transitions              *)
(* A place never holds two tokens of one colour.                           *)
(***************************************************************************)
EXTENDS Conflicts

CONSTANTS
  Nets,           \* a sequence of nets
  Uninitialised,  \* what the build can leave in thr_enter of cal_call
  MaxEvents       \* bound of the model: the prefix grows no further

\* A net as the construction gives it: a firing takes tokens from places before
\* the transition, what it takes decides what it puts, and a variable that the
\* transition only reads has the same value behind it.
Reads(read, t) == IF t \in DOMAIN read THEN read[t] ELSE {}
OnPlaces(ps, tokens) == {s \in tokens : s[1] \in ps}

FiringOK(n, read, t, m) ==
  /\ \A s \in m.in \cup m.out : s = <<s[1], s[2]>>
  /\ IsFiniteSet(m.out)
  /\ \A s \in m.in : \E a \in n.trans[t].in : a.p = s[1]
  /\ OnPlaces(Reads(read, t), m.out) = OnPlaces(Reads(read, t), m.in)

TransitionOK(n, read, t) ==
  LET ms == n.modes[t]
  IN  /\ Len(ms) \in Nat /\ DOMAIN ms = 1 .. Len(ms)
      /\ \A k \in DOMAIN ms : FiringOK(n, read, t, ms[k])
      /\ \A k, l \in DOMAIN ms : ms[k].in = ms[l].in => ms[k].out = ms[l].out

NetOK(n) ==
  /\ Len(n.trans) \in Nat /\ T(n) = 1 .. Len(n.trans)
  /\ \A read \in {map_readT(n)} : \A t \in T(n) : TransitionOK(n, read, t)
  /\ IsFiniteSet(n.m0)

ASSUME NetsAssumption == \A n \in ToSet(Nets) : NetOK(n)

ThrEnter == {"none", "thread_begin", "thread_enter"}

ASSUME UninitialisedAssumption == Uninitialised \subseteq ThrEnter /\ Uninitialised # {}
ASSUME MaxEventsAssumption == MaxEvents \in Nat \ {0}

VARIABLES
  net,        \* the net
  tbl,        \* its tables (module Conflicts)
  condition,  \* the conditions: place, colour, producing event (0 for none)
  event,      \* the events, each with its local configuration
  cutC,       \* map_cut_C: the cuts of configurations, with their cexA
  configs,    \* the configurations of the nodes in frames
  frames,     \* the open calls of Explore
  success,    \* "NONE", "CASE1" or "CASE2"
  late,       \* the time limit has passed
  timeup,
  result      \* "", or what unfolding() reports

prefix == <<condition, event>>
vars == <<net, tbl, condition, event, cutC, configs, frames, success, late, timeup, result>>

Tables(n) ==
  [call2thread |-> map_t_call2thread(n),
   varP        |-> set_varP_normal(n) \cup n.mutexP \cup n.condP,
   read        |-> map_readT(n),
   exitT       |-> exitT2enterT(n),
   conflict    |-> map_t2conflictT(n)]

-----------------------------------------------------------------------------
(* Conditions and cuts. *)

TokensOf(cs, c) == {<<cs[b].p, cs[b].color>> : b \in c}
Tokens(c) == TokensOf(condition, c)

\* Slip: the same conditions are asked for.
SameConditions(cs, c, d) == c = d

\* CUT::operator==: as many tokens, and the same ones.
SameCut(cs, c, d) == Cardinality(c) = Cardinality(d) /\ TokensOf(cs, c) = TokensOf(cs, d)

Pro(x) == {condition[b].producer : b \in x} \ {0}
ConsumersOf(b) == {e \in DOMAIN event : b \in event[e].in}

\* handleLTLV and handleLTLF, on the cut of a configuration.
Satisfied(a, c) ==
  IF a.kind = "LTLV" THEN (<<a.obs, a.val>> \in Tokens(c)) # a.neg
  ELSE (\E k \in DOMAIN net.modes[a.obs] : (net.modes[a.obs][k].in \ {<<net.S, "ba">>}) \subseteq Tokens(c)) # a.neg

\* is_firable: firing m is a binding of transition t at a cut.
is_firable(t, m, c) == m.in \subseteq Tokens(c) /\ \A a \in net.guard[t] : Satisfied(a, c)

get_x(c, m) == {b \in c : <<condition[b].p, condition[b].color>> \in m.in}

-----------------------------------------------------------------------------
(* cal_call: the call stack of an extension (pe) of transition t by x.     *)

Creation(x) == {b \in x : /\ condition[b].producer # 0
                          /\ \E th \in net.threads : th.begin = condition[b].p
                          /\ event[condition[b].producer].t \in net.creators}

FlowArcs == {"control", "executed", "call_enter", "call_exit"}

\* The events before x by way of control; variables are passed over.
ControlPro(t, x) ==
  LET before == {u \in T(net) : \E a \in net.trans[u].out, b \in net.trans[t].in :
                    a.p = b.p /\ a.type \in FlowArcs /\ b.p \notin tbl.varP}
  IN  {e \in Pro(x) : event[e].t \in before}

\* The deepest of the calls before, the first of them if there are several.
Deepest(es) ==
  LET stacks == {event[e].call : e \in {f \in es : event[f].t \notin net.baT}}
      ranked == {e \in es : event[e].t \notin net.baT
                            /\ \A s \in stacks : Len(s) <= Len(event[e].call)}
  IN  IF ranked = {} THEN <<>> ELSE event[Min(ranked)].call

\* Slip: a function that is left stays on the stack.
cal_callKeep(t, x, garbage) ==
  IF Pro(x) = {} THEN <<mainCall>>
  ELSE IF garbage = "thread_enter" THEN << <<>> >>
  ELSE IF Creation(x) # {} THEN <<<<event[condition[Min(Creation(x))].producer].t>>>>
  ELSE LET es == ControlPro(t, x)
           turn == {e \in es : event[e].t \in DOMAIN net.calls}
       IN  IF turn = {} THEN Deepest(es) ELSE Append(Deepest(es), <<event[Min(turn)].t>>)

cal_call(t, x, garbage) ==
  IF Pro(x) = {} THEN <<mainCall>>
  ELSE IF garbage = "thread_enter" THEN << <<>> >>
  ELSE IF Creation(x) # {} THEN <<<<event[condition[Min(Creation(x))].producer].t>>>>
  ELSE LET es == ControlPro(t, x)
           turn == {e \in es : event[e].t \in DOMAIN net.calls \/ t \in DOMAIN tbl.exitT}
       IN  IF turn = {} THEN Deepest(es)
           ELSE IF event[Min(turn)].t \in DOMAIN net.calls
                THEN Append(Deepest(es), <<event[Min(turn)].t>>)
                ELSE Front(Deepest(es))

-----------------------------------------------------------------------------
(* Possible extensions. *)

ReadP(t) == Reads(tbl.read, t)
ReadB(t, x) == {b \in x : condition[b].p \in ReadP(t)}

\* Slip: what was read does not count.
ExistingUnread(pe, x, readB) ==
  LET ctl == {b \in x : condition[b].p \in net.controlP}
  IN  {e \in ConsumersOf(Min(ctl)) : event[e].t = pe.t /\ event[e].call = pe.call /\ event[e].in = x}

\* had_extend: the events that pe stands for, found at the first control
\* condition of x.
Existing(pe, x, readB) ==
  LET ctl == {b \in x : condition[b].p \in net.controlP}
  IN  {e \in ConsumersOf(Min(ctl)) :
         /\ event[e].t = pe.t /\ event[e].call = pe.call
         /\ event[e].in = x
         /\ pe.t \in DOMAIN tbl.read => event[e].read = readB}

Found(pe, x, readB) ==
  LET es == Existing(pe, x, readB)
  IN  IF es = {} THEN pe ELSE [pe EXCEPT !.e = Min(es), !.had = TRUE]

Extension(t, m, c, garbage) ==
  LET x  == get_x(c, m)
      pe == [t |-> t, mode |-> m, x |-> x, call |-> cal_call(t, x, garbage), e |-> 0, had |-> FALSE]
  IN  Found(pe, x, ReadB(t, x))

\* Extend: the extensions of a configuration, each put in front of the list.
Extensions(c, garbage) ==
  LET of(t, m) == IF t \notin net.abort /\ is_firable(t, m, c)
                  THEN <<Extension(t, m, c, garbage)>> ELSE <<>>
  IN  Reverse(FlattenSeq([t \in T(net) |-> FlattenSeq([k \in DOMAIN net.modes[t] |-> of(t, net.modes[t][k])])]))

\* add_Event: the conditions of the variables that are only read are taken
\* out of x; the rest are consumed, and so is what the configuration holds of
\* a variable that is allocated without being read.
Overwritten(t, c) ==
  {b \in c : /\ [p |-> condition[b].p, type |-> "allocwrite"] \in net.trans[t].out
             /\ \A a \in net.trans[t].in : a.p # condition[b].p}

NewConditions(pe) ==
  LET put == Listed({s \in pe.mode.out : s[1] \notin ReadP(pe.t)})
  IN  [k \in DOMAIN put |-> [p |-> put[k][1], color |-> put[k][2], producer |-> Len(event) + 1]]

\* cal_Config and cal_context: the local configuration [e] and its cut.
LocalVec(x) == {Len(event) + 1} \cup UNION {event[f].vec : f \in Pro(x)}

LocalCut(in, out, vec) ==
  LET made == out \cup UNION {event[f].out : f \in vec \cap DOMAIN event}
      used == in \cup UNION {event[f].in : f \in vec \cap DOMAIN event}
      min_o == {b \in DOMAIN condition : condition[b].producer = 0}
  IN  (min_o \cup made) \ used

NewEvent(pe, x, readB, c) ==
  LET in  == x \cup Overwritten(pe.t, c)
      out == Len(condition) + 1 .. Len(condition) + Len(NewConditions(pe))
      vec == LocalVec(x)
  IN  [t |-> pe.t, call |-> pe.call, in |-> in, out |-> out, read |-> readB,
       vec |-> vec, cut |-> LocalCut(in, out, vec), cutoff |-> FALSE]

\* is_cut_off: an event of [e] whose local configuration has the same cut.
SameCutBefore(cs, e) == {f \in e.vec \cap DOMAIN event : ~event[f].cutoff /\ SameCut(cs, event[f].cut, e.cut)}

\* is_counterexample: what an event with the same cut as f before it shows,
\* in a node with configuration C.
Counterexample(e, f, C) ==
  LET loop == e.vec \ event[f].vec
      transition(g) == IF g \in DOMAIN event THEN event[g].t ELSE e.t
  IN  IF \E g \in loop : transition(g) \in net.I THEN "CASE1"
      ELSE IF C.is_accept THEN "CASE2" ELSE "NONE"

-----------------------------------------------------------------------------
(* Configurations.                                                         *)

\* cexA is a sequence of textures: a transition with its calls, the group of
\* conflicting transitions to be tried before it, and the path to them.

\* coverA: cexA ends with all of old.
coverA(cexA, old) ==
  Len(cexA) >= Len(old) /\ \A k \in DOMAIN old : cexA[Len(cexA) - Len(old) + k] = old[k]

\* cal_is_cutoff_C
SeenBefore(cs, c, cexA) == \E s \in cutC : SameCut(cs, s.cut, c) /\ coverA(cexA, s.cexA)

\* Slip: an accepting state once reached is never left.
NewConfigAccepting(cs, C, e, ev, cexA) ==
  LET cut == (C.cut \cup ev.out) \ ev.in
  IN  [vec |-> C.vec \cup {e}, e_last |-> e, cut |-> cut,
       is_accept |-> C.is_accept \/ ev.t \in net.I,
       is_cutoff |-> SeenBefore(cs, cut, cexA), firstStep |-> TRUE, en |-> <<>>]

\* get_Config_add: configuration C with event e, the number of ev.
NewConfig(cs, C, e, ev, cexA) ==
  LET cut == (C.cut \cup ev.out) \ ev.in
  IN  [vec |-> C.vec \cup {e}, e_last |-> e, cut |-> cut,
       is_accept |-> IF ev.t \in net.baT THEN ev.t \in net.I ELSE C.is_accept,
       is_cutoff |-> SeenBefore(cs, cut, cexA), firstStep |-> TRUE, en |-> <<>>]

\* conflictT_fired: the last event is one of the group that was to come first.
conflictT_fired(C, cexA) ==
  /\ C.vec # {} /\ cexA # <<>>
  /\ event[C.e_last].t \in Last(cexA).conflictT
  /\ event[C.e_last].call = Last(cexA).call

\* handle_conflictT_fired: the event that was put off may be chosen again, and
\* the textures from the first one for its transition on are dropped.
PutOff(D, cexA) == {e \in D : <<event[e].t, event[e].call>> # Last(cexA).t2Call}

filter_A(cexA) ==
  SubSeq(cexA, 1, Min({k \in DOMAIN cexA : cexA[k].t2Call = Last(cexA).t2Call}) - 1)

-----------------------------------------------------------------------------
(* Alt: another order for an event of D that is still enabled.             *)

T2Call(e) == <<event[e].t, event[e].call>>

\* not_join_cex
NotJoined(D, cexA, t2call, g) ==
  \/ \E e \in D : event[e].t \in g.ts /\ event[e].call = g.call
  \/ \E k \in DOMAIN cexA : cexA[k].t2Call = t2call /\ cexA[k].call = g.call /\ cexA[k].conflictT = g.ts

\* is_earlier_cft: an opponent of t2call, but not one of the group g.
EarlierConflict(t2call, g, x) ==
  /\ ~(x[1] \in g.ts /\ g.call = x[2])
  /\ \E k \in DOMAIN tbl.conflict[t2call] :
       LET h == tbl.conflict[t2call][k] IN h.call = x[2] /\ x[1] \in h.ts

Passed(t2call, g, x) == x # t2call /\ ~EarlierConflict(t2call, g, x)

\* The steps back from x over executed and call_exit arcs.  A transition that
\* leaves a call puts the call on the stack.
StepsBack(x) ==
  LET stack == IF x[1] \in DOMAIN tbl.exitT THEN Append(x[2], <<tbl.exitT[x[1]]>>) ELSE x[2]
      before == {u \in T(net) : \E a \in net.trans[u].out, b \in net.trans[x[1]].in :
                    a.p = b.p /\ a.type \in {"executed", "call_exit"}}
  IN  before \X {stack}

\* Where they end, a step to the call transition on top of the stack.  The
\* table does not have the transitions that create threads.
StepsOut(x) ==
  IF x[2] = <<>> THEN {}
  ELSE {y \in {u \in T(net) : \E a \in net.trans[u].out, b \in net.trans[x[1]].in :
                    a.p = b.p /\ a.type \in {"control", "call_enter"}} \X {Front(x[2])} :
          (\E k \in DOMAIN Last(x[2]) : Last(x[2])[k] = y[1]) /\ y \in DOMAIN tbl.call2thread}

\* get_t_path_step: backwards from the first transition of the group to
\* what is enabled; empty if nothing is, or if the path has a transition that
\* an open texture puts off.
get_t_path_step(t2call, g, enabled, cexA) ==
  LET back(x) == IF x \in enabled THEN {}
                 ELSE LET steps == {y \in StepsBack(x) : Passed(t2call, g, y)}
                      IN  IF steps # {} THEN steps
                          ELSE {y \in StepsOut(x) : Passed(t2call, g, y)}
      searched == Closure(back, {<<FirstT(g), g.call>>}, T(net) \X Seq(Seq(Nat)))
  IN  IF searched \cap enabled = {} \/ \E k \in DOMAIN cexA : cexA[k].t2Call \in searched
      THEN {} ELSE searched \cup (g.ts \X {g.call})

\* get_t_path: the first group with a path.
Texture(D, cexA, t2call, enabled) ==
  LET groups == tbl.conflict[t2call]
      path(k) == get_t_path_step(t2call, groups[k], enabled, cexA)
      good == {k \in DOMAIN groups : ~NotJoined(D, cexA, t2call, groups[k]) /\ path(k) # {}}
  IN  IF good = {} THEN <<>>
      ELSE <<[t2Call |-> t2call, call |-> groups[Min(good)].call,
              conflictT |-> groups[Min(good)].ts, path |-> path(Min(good))]>>

\* The events of D that are extensions of C, in the order in which Alt takes
\* them: en was filled from the front, and the list is turned once more.
get_en_D(C, D) ==
  LET had == SelectSeq(C.en, LAMBDA pe : pe.had /\ pe.e \in D)
  IN  Reverse([k \in DOMAIN had |-> had[k].e])

\* Alt gives up at the first event without an entry in the table.
Alt(C, D, cexA) ==
  LET en_D == get_en_D(C, D)
      enabled == {<<C.en[k].t, C.en[k].call>> : k \in DOMAIN C.en}
      stop == {k \in DOMAIN en_D : T2Call(en_D[k]) \notin DOMAIN tbl.conflict}
      reached == IF stop = {} THEN DOMAIN en_D ELSE 1 .. Min(stop) - 1
      good == {k \in reached : Texture(D, cexA, T2Call(en_D[k]), enabled) # <<>>}
  IN  IF good = {} THEN <<>> ELSE Texture(D, cexA, T2Call(en_D[Min(good)]), enabled)

-----------------------------------------------------------------------------
Frame(cfg, D, cexA) == [cfg |-> cfg, D |-> D, cexA |-> cexA, pc |-> "enter", i |-> 1, e |-> 0]

Root == [vec |-> {}, e_last |-> 0, cut |-> {}, is_accept |-> FALSE, is_cutoff |-> FALSE,
         firstStep |-> TRUE, en |-> <<>>]

Init ==
  /\ net \in ToSet(Nets)
  /\ tbl = Tables(net)
  /\ LET m0 == Listed(net.m0)
     IN  condition = [k \in DOMAIN m0 |-> [p |-> m0[k][1], color |-> m0[k][2], producer |-> 0]]
  /\ event = <<>>
  /\ cutC = {}
  /\ configs = <<[Root EXCEPT !.cut = DOMAIN condition]>>
  /\ frames = <<Frame(1, {}, <<>>)>>
  /\ success = "NONE"
  /\ late = FALSE
  /\ timeup = FALSE
  /\ result = ""

Top == Last(frames)
TopC == configs[Top.cfg]
At(pc) == frames # <<>> /\ Top.pc = pc

SetTop(f) == frames' = [frames EXCEPT ![Len(frames)] = f]
Pop == frames' = Front(frames)

\* A call of Explore is over; the configurations no node below refers to go.
Return ==
  /\ Pop
  /\ configs' = IF Len(frames) = 1 THEN <<>> ELSE SubSeq(configs, 1, frames[Len(frames) - 1].cfg)

\* The clock.
Late ==
  /\ ~late /\ frames # <<>>
  /\ late' = TRUE
  /\ UNCHANGED <<net, tbl, prefix, cutC, configs, frames, success, timeup, result>>

TimeUp ==
  /\ At("enter") /\ late
  /\ timeup' = TRUE
  /\ Return
  /\ UNCHANGED <<net, tbl, prefix, cutC, success, late, result>>

\* The group that was to come first has come.
Fired == TopC.firstStep /\ conflictT_fired(TopC, Top.cexA)
EnterD == IF Fired THEN PutOff(Top.D, Top.cexA) ELSE Top.D
EnterA == IF Fired THEN filter_A(Top.cexA) ELSE Top.cexA

Extended(garbage) == IF TopC.en # <<>> THEN TopC.en ELSE Extensions(TopC.cut, garbage)

Cutoff ==
  /\ At("enter") /\ ~late
  /\ TopC.is_cutoff
  /\ Return
  /\ UNCHANGED <<net, tbl, prefix, cutC, success, late, timeup, result>>

\* Nothing more can happen: the program has ended.
Endpoint(garbage) ==
  /\ At("enter") /\ ~late
  /\ ~TopC.is_cutoff
  /\ Extended(garbage) = <<>>
  /\ success' = IF TopC.is_accept THEN "CASE2" ELSE success
  /\ Return
  /\ UNCHANGED <<net, tbl, prefix, cutC, late, timeup, result>>

Extend(garbage) ==
  /\ At("enter") /\ ~late
  /\ ~TopC.is_cutoff
  /\ Extended(garbage) # <<>>
  /\ configs' = [configs EXCEPT ![Top.cfg] = [TopC EXCEPT !.en = Extended(garbage), !.firstStep = TRUE]]
  /\ SetTop([Top EXCEPT !.pc = "choose", !.D = EnterD, !.cexA = EnterA])
  /\ UNCHANGED <<net, tbl, prefix, cutC, success, late, timeup, result>>

\* The extension to be tried next, from position i of en on: one on the path
\* of the last texture; without textures the last extension that brings the
\* automaton to an accepting state, if there is one, or else the next.
Candidates ==
  LET en == TopC.en  rest == {k \in DOMAIN en : k >= Top.i}
      accepting == {k \in rest : en[k].t \in net.I}
      onPath == {k \in rest : <<en[k].t, en[k].call>> \in Last(Top.cexA).path}
  IN  IF Top.cexA # <<>>
      THEN IF onPath = {} THEN {} ELSE {[at |-> Min(onPath), pe |-> Min(onPath)]}
      ELSE IF rest = {} THEN {}
      ELSE {[at |-> Top.i, pe |-> IF accepting = {} THEN Top.i ELSE Max(accepting)]}

\* What add_Event makes of an extension: it has lost the variables it reads.
Reduced(pe) == [pe EXCEPT !.x = pe.x \ ReadB(pe.t, pe.x)]
IsKnown(pe) == Existing(pe, Reduced(pe).x, ReadB(pe.t, pe.x)) # {}

WithEn(k, pe) == [configs EXCEPT ![Top.cfg] = [TopC EXCEPT !.en = ReplaceAt(TopC.en, k, pe)]]

\* needNo_Explore: a cutoff event is passed over.
PassOver(c, pe) ==
  /\ configs' = WithEn(c.pe, pe)
  /\ SetTop([Top EXCEPT !.i = c.at + 1])
  /\ UNCHANGED <<cutC, success>>

\* The left child: the configuration with event e, the number of ev.
Descend(c, pe, cs, ev) ==
  LET C == NewConfig(cs, TopC, pe.e, ev, Top.cexA)
  IN  /\ configs' = Append(WithEn(c.pe, pe), C)
      /\ cutC' = IF C.is_cutoff THEN cutC ELSE cutC \cup {[cut |-> C.cut, cexA |-> Top.cexA]}
      /\ frames' = Append([frames EXCEPT ![Len(frames)] = [Top EXCEPT !.pc = "left", !.e = pe.e]],
                          Frame(Len(configs) + 1, Top.D, Top.cexA))
      /\ UNCHANGED success

\* add_Event finds that the event is there.
ChooseKnown ==
  /\ At("choose")
  /\ \E c \in Candidates :
       LET pe == TopC.en[c.pe]
           found == Found(Reduced(pe), Reduced(pe).x, ReadB(pe.t, pe.x))
       IN  /\ IsKnown(pe)
           /\ IF event[found.e].cutoff THEN PassOver(c, found)
              ELSE Descend(c, found, condition, event[found.e])
  /\ UNCHANGED <<net, tbl, prefix, late, timeup, result>>

\* add_Event adds the event.
ChooseNew ==
  /\ At("choose") /\ Len(event) < MaxEvents
  /\ \E c \in Candidates :
       LET pe == TopC.en[c.pe]
           cs == condition \o NewConditions(pe)
           ev == NewEvent(pe, Reduced(pe).x, ReadB(pe.t, pe.x), TopC.cut)
           same == SameCutBefore(cs, ev)
           added == [Reduced(pe) EXCEPT !.e = Len(event) + 1, !.had = TRUE]
       IN  /\ ~IsKnown(pe)
           /\ condition' = cs
           /\ event' = Append(event, [ev EXCEPT !.cutoff = (same # {})])
           /\ IF same = {} THEN Descend(c, added, cs, ev)
              ELSE \E f \in same :
                     IF Counterexample(ev, f, TopC) = "NONE" THEN PassOver(c, added)
                     ELSE /\ success' = Counterexample(ev, f, TopC)
                          /\ Return
                          /\ UNCHANGED cutC
  /\ UNCHANGED <<net, tbl, late, timeup, result>>

NoLeftChild ==
  /\ At("choose")
  /\ Candidates = {}
  /\ SetTop([Top EXCEPT !.pc = "left"])
  /\ UNCHANGED <<net, tbl, prefix, cutC, configs, success, late, timeup, result>>

\* Behind the left child.
Stop ==
  /\ At("left") /\ success # "NONE"
  /\ Return
  /\ UNCHANGED <<net, tbl, prefix, cutC, success, late, timeup, result>>

DPlus == Top.D \cup ({Top.e} \ {0})
Alternatives == Alt(TopC, DPlus, Top.cexA)

\* Slip: other orders are tried though there is an answer.
RightChildAnyway ==
  /\ At("left")
  /\ Alternatives # <<>>
  /\ configs' = [configs EXCEPT ![Top.cfg] = [TopC EXCEPT !.firstStep = FALSE]]
  /\ frames' = Append([frames EXCEPT ![Len(frames)] = [Top EXCEPT !.pc = "right"]],
                      Frame(Top.cfg, DPlus, Top.cexA \o Alternatives))
  /\ UNCHANGED <<net, tbl, prefix, cutC, success, late, timeup, result>>

RightChild ==
  /\ At("left") /\ success = "NONE"
  /\ Alternatives # <<>>
  /\ configs' = [configs EXCEPT ![Top.cfg] = [TopC EXCEPT !.firstStep = FALSE]]
  /\ frames' = Append([frames EXCEPT ![Len(frames)] = [Top EXCEPT !.pc = "right"]],
                      Frame(Top.cfg, DPlus, Top.cexA \o Alternatives))
  /\ UNCHANGED <<net, tbl, prefix, cutC, success, late, timeup, result>>

NoRightChild ==
  /\ At("left") /\ success = "NONE"
  /\ Alternatives = <<>>
  /\ Return
  /\ UNCHANGED <<net, tbl, prefix, cutC, success, late, timeup, result>>

RightDone ==
  /\ At("right")
  /\ Return
  /\ UNCHANGED <<net, tbl, prefix, cutC, success, late, timeup, result>>

\* unfolding: the answer.
Answer == IF timeup THEN "time out" ELSE IF success = "NONE" THEN "True" ELSE "False"

Report ==
  /\ frames = <<>> /\ result = ""
  /\ result' = Answer
  /\ UNCHANGED <<net, tbl, prefix, cutC, configs, frames, success, late, timeup>>

Explore ==
  \/ TimeUp \/ Cutoff
  \/ \E g \in Uninitialised : Endpoint(g) \/ Extend(g)
  \/ ChooseKnown \/ ChooseNew \/ NoLeftChild
  \/ Stop \/ RightChild \/ NoRightChild \/ RightDone
  \/ Report

Next == Late \/ Explore

\* The program runs on while Explore has calls open and the bound of the model
\* is not reached: weak fairness of Explore, with what enables it spelled out.
Running == result = "" /\ Len(event) < MaxEvents

Fairness == []<><<Explore>>_vars \/ []<>~Running

Spec == Init /\ [][Next]_vars /\ Fairness

-----------------------------------------------------------------------------
(* Properties.                                                             *)

\* An answer that was found is reported: no node is entered behind it, where
\* the clock could still turn it into a time out.
AnswerKept == ~(timeup /\ success # "NONE")

\* The new configuration D comes from C by a firing of transition t that the
\* tokens of C allow; a variable that t allocates loses its old value.
FiringTo(C, cs, D, t) ==
  \E k \in DOMAIN net.modes[t] :
    LET m == net.modes[t][k]
    IN  /\ is_firable(t, m, C.cut)
        /\ TokensOf(cs, D.cut) = (Tokens(C.cut \ Overwritten(t, C.cut)) \ m.in) \cup m.out

Deeper == Len(configs') = Len(configs) + 1
Fires == FiringTo(TopC, condition', Last(configs'), event'[Last(configs').e_last].t)

\* The extension is as Extend found it: its variables have not been taken out
\* of it by an earlier choice, and it allocates nothing that has a value.
AsFound(pe) ==
  /\ ReadP(pe.t) # {} => ReadB(pe.t, pe.x) # {}
  /\ Overwritten(pe.t, TopC.cut) = {}

\* The configurations on the way down are runs of the net: each comes from the
\* one above by a firing that the tokens there allow, with the values of the
\* variables there, whether add_Event adds the event or finds it in the prefix
\* (had_extend compares what it consumes and what it reads).
ConfigurationsAreRuns ==
  [][Deeper /\ (event' # event \/ \A c \in Candidates : AsFound(TopC.en[c.pe])) => Fires]_vars

\* The same for every choice.  It fails: add_Event takes the variables out of
\* the extension, a right child that chooses it again compares with nothing
\* and adds the event again, and that event, which has read nothing, is later
\* found where the variables have other values.
AllConfigurationsAreRuns == [][Deeper => Fires]_vars

\* The call stack that cal_call gives an event from the events before it is one
\* that cal_t2thread found for its transition by searching the net; with any
\* other the conflicts of the event are not found.
StacksKnown ==
  \A e \in DOMAIN event :
    event[e].t \notin net.baT \cup net.creators => <<event[e].t, event[e].call>> \in DOMAIN tbl.call2thread

\* The search ends (within the bound of the model), with or without time.
Reports == <>(result # "")
=============================================================================

----------------------------- MODULE PDNetBuild -----------------------------
(***************************************************************************)
(* The translation of a program into a PDNet (class CPN in cpn.cpp):       *)
(* control flow, calls, threads, mutexes and condition variables.  The     *)
(* places of the C variables, and with them the guards of branches, are    *)
(* left out: a branch whose control places are marked may fire either way. *)
(*                                                                         *)
(* There are two translations.  Traverse_ST2 is the default: a block hands *)
(* all its statements their control token at once and "executed" places    *)
(* between them keep the order.  Traverse_ST2_withoutdependence (option    *)
(* -NoDependence) builds the plain control flow net.                       *)
(***************************************************************************)
EXTENDS CProgram, Bags

(* The list of calls of a statement with three calls repeats an arc that   *)
(* Add_Arc must not find twice, and the program exits.                     *)
ASSUME CallsAssumption == \A n \in Node : Len(Called(n)) <= 2

-----------------------------------------------------------------------------
(* Places and arcs. *)

P(n)        == <<"P", n>>
ExecP(n)    == <<"executed", n>>        \* created before statement n
CallP(n, i) == <<"callP", n, i>>
BeginP(f)   == <<"beginP", f>>
EndP(f)     == <<"endP", f>>
SignalP(n, i) == <<"signalP", n, i>>    \* signalP1 .. signalP3 of a wait
MutexP(m)   == <<"mutex", m>>
CondP(c)    == <<"cond", c>>

Tid == "__tid"      \* the variable of an arc, bound to a thread
Dot == "0"          \* the colour of the places of mutexes and conditions

Arc(from, to, exp) == [src |-> from, tgt |-> to, exp |-> exp, deleted |-> FALSE]
Flow(from, to)     == Arc(from, to, Tid)
FlowAll(from, to)  == [i \in DOMAIN from |-> Flow(from[i], to)]

(* Every statement with a branch has two transitions; all others one. *)
EnterT(n) == IF Branches(n) THEN <<T1(n), T2(n)>> ELSE <<T(n)>>

(* set_call_P adds the list it was given, old entries included, to the    *)
(* list that is there: the second call of a statement repeats the first.  *)
CallList(n) == FoldLeft(LAMBDA l, i : l \o Append(l, i), <<>>,
                        [i \in DOMAIN Called(n) |-> i])

(* What an arc into a statement leads to: its first call if it has one.   *)
FirstP(n) == IF Called(n) = <<>> THEN P(n) ELSE CallP(n, CallList(n)[1])
FirstT(n) == IF Called(n) = <<>> THEN EnterT(n) ELSE <<CallT(n, CallList(n)[1])>>

(* A finite set of numbers in ascending order. *)
InOrder(A) == [k \in 1..Cardinality(A) |-> CHOOSE i \in A : Cardinality({j \in A : j <= i}) = k]

NodesWhere(Test(_)) == InOrder({n \in Node : Test(n)})

(* The breaks or continues of loop n. *)
JumpsOf(kind, n) ==
  LET js == NodesWhere(LAMBDA j : Kind(j) = kind /\ Loop[j] = n)
  IN  [i \in DOMAIN js |-> T(js[i])]

(* The transitions after which a statement is complete (exit_T).          *)
ExitOf(exit, n) ==
  CASE Kind(n) \in Jumps  -> <<>>
    [] Kind(n) = "wait"   -> <<RelockT(n)>>
    [] Nested(n)          -> exit[Last(Kids(n))]
    [] Kind(n) = "label"  -> exit[Kids(n)[1]]
    [] Kind(n) = "while"  -> Append(JumpsOf("break", n), T2(n))
    [] Kind(n) = "if"     -> exit[Kids(n)[1]]
                               \o (IF Len(Kids(n)) = 2 THEN exit[Kids(n)[2]] ELSE <<T2(n)>>)
    [] OTHER              -> <<T(n)>>

ExitT == LET exit[n \in Node] == ExitOf(exit, n)  IN [n \in Node |-> exit[n]]

(* The transitions that lead back to the head of a loop (falseexit_T).    *)
FalseExitT(n) == JumpsOf("continue", n) \o ExitT[Kids(n)[1]]

-----------------------------------------------------------------------------
(* The arcs of the statements, before blocks are removed. *)

(* Slip: only the first transition of a statement waits for the one     *)
(* before: the false branch of an if or a while does not.                 *)
Add_executed_PFirst(from, n, to) ==
  IF from = <<>> THEN <<>>
  ELSE Append(FlowAll(from, ExecP(n)), Flow(ExecP(n), to[1]))

Add_executed_P(from, n, to) ==
  IF from = <<>> THEN <<>>
  ELSE FlowAll(from, ExecP(n)) \o [i \in DOMAIN to |-> Flow(ExecP(n), to[i])]

(* Slip: the loop gets its control token back, not its executed token.  *)
iter_extraNoExec(n, hasExec) == FlowAll(FalseExitT(n), FirstP(n))

iter_extra(n, hasExec) ==
  LET back == FalseExitT(n) IN
  (IF hasExec THEN FlowAll(back, ExecP(n)) ELSE <<>>)
    \o FlowAll(back, P(n))
    \o (IF Called(n) # <<>> THEN FlowAll(back, FirstP(n)) ELSE <<>>)

iter_extra_withoutdependence(n) == FlowAll(FalseExitT(n), FirstP(n))

(* The transition that hands statement i of list s its control token: that *)
(* of the lock still held at this level of the block, or the block's own.  *)
ControlT(s, i, blockT) ==
  LET held == {j \in 1..i-1 : /\ Kind(s[j]) = "lock"
                              /\ \A k \in j+1..i : Kind(s[k]) \notin {"lock", "unlock"}}
  IN  IF held = {} THEN blockT ELSE T(s[Max(held)])

inside_block(s, blockT) ==
  FlattenSeq([i \in DOMAIN s |->
    LET last == IF i = 1 THEN <<blockT>> ELSE ExitT[s[i - 1]] IN
    (IF last = <<>> THEN <<>> ELSE <<Flow(ControlT(s, i, blockT), FirstP(s[i]))>>)
      \o Add_executed_P(last, s[i], FirstT(s[i]))
      \o IF Kind(s[i]) = "while" THEN iter_extra(s[i], last # <<>>) ELSE <<>>])

inside_block_withoutdependence(s, blockT) ==
  FlattenSeq([i \in DOMAIN s |->
    FlowAll(IF i = 1 THEN <<blockT>> ELSE ExitT[s[i - 1]], FirstP(s[i]))
      \o IF Kind(s[i]) = "while" THEN iter_extra_withoutdependence(s[i]) ELSE <<>>])

(* The branches, or the body, of a statement with a condition. *)
handle_iter_sel(n) ==
  LET branch(t, k) == <<Flow(t, FirstP(k))>> \o Add_executed_P(<<t>>, k, FirstT(k))
  IN  branch(T1(n), Kids(n)[1])
        \o IF Len(Kids(n)) = 2 THEN branch(T2(n), Kids(n)[2]) ELSE <<>>

handle_iter_sel_withoutdependence(n) ==
  <<Flow(T1(n), FirstP(Kids(n)[1]))>>
    \o IF Len(Kids(n)) = 2 THEN <<Flow(T2(n), FirstP(Kids(n)[2]))>> ELSE <<>>

(* The statement after a label is entered at its own place, even if it    *)
(* has calls.                                                             *)
handle_label(n) == LET k == Kids(n)[1]
                   IN  <<Flow(T(n), P(k))>> \o Add_executed_P(<<T(n)>>, k, EnterT(k))

(* The calls of a statement in the order of its list, then the statement. *)
organize_call(n) ==
  LET l      == CallList(n)
      end(i) == EndP(Called(n)[l[i]])
      step(i) == <<Flow(CallT(n, l[i]), CallP(n, l[i + 1])), Flow(end(i), CallT(n, l[i + 1]))>>
  IN  IF l = <<>> THEN <<>>
      ELSE FlattenSeq([i \in 1..Len(l) - 1 |-> step(i)])
             \o <<Flow(CallT(n, Last(l)), P(n))>>
             \o [j \in DOMAIN EnterT(n) |-> Flow(end(Len(l)), EnterT(n)[j])]

handle_call(n) ==
  FlattenSeq([i \in DOMAIN Called(n) |->
    <<Flow(CallP(n, i), CallT(n, i)), Flow(CallT(n, i), BeginP(Called(n)[i]))>>])

ThreadArcs(n) ==
  LET a == Arg(n) IN
  CASE Kind(n) = "create" -> <<Arc(T(n), BeginP(a.fn), a.tid)>>
    [] Kind(n) = "join"   -> <<Arc(EndP(a.fn), T(n), a.tid)>>
    [] Kind(n) = "exit"   -> <<Flow(T(n), EndP(Func[n]))>>
    [] OTHER -> <<>>

MutexArcs(n) ==
  CASE Kind(n) \in {"init", "unlock"} -> <<Arc(T(n), MutexP(Arg(n)), Dot)>>
    [] Kind(n) = "lock" -> <<Arc(MutexP(Arg(n)), T(n), Dot)>>
    [] OTHER -> <<>>

(* Slip: a wait keeps the mutex until it is woken. *)
CondArcsKeepMutex(n) ==
  CASE Kind(n) = "signal" -> <<Arc(T(n), CondP(Arg(n)), Dot)>>
    [] Kind(n) = "wait" ->
         <<Flow(T(n), SignalP(n, 1)), Arc(CondP(Arg(n)[1]), WakeT(n), Dot),
           Flow(SignalP(n, 1), WakeT(n)), Flow(WakeT(n), SignalP(n, 2)),
           Flow(SignalP(n, 2), RelockT(n))>>
    [] OTHER -> <<>>

(* A wait gives up the mutex, is woken by the token of the condition, and  *)
(* takes the mutex again.                                                  *)
CondArcs(n) ==
  CASE Kind(n) = "signal" -> <<Arc(T(n), CondP(Arg(n)), Dot)>>
    [] Kind(n) = "wait" ->
         LET c == CondP(Arg(n)[1])  m == MutexP(Arg(n)[2]) IN
         <<Arc(T(n), m, Dot), Flow(T(n), SignalP(n, 1)), Flow(T(n), SignalP(n, 3)),
           Arc(c, WakeT(n), Dot), Flow(SignalP(n, 1), WakeT(n)), Flow(WakeT(n), SignalP(n, 2)),
           Arc(m, RelockT(n), Dot), Flow(SignalP(n, 2), RelockT(n)), Flow(SignalP(n, 3), RelockT(n))>>
    [] OTHER -> <<>>

(* A break or a continue draws no arc: it becomes a way out of its loop,   *)
(* or a way back to its head.                                              *)
handle_jump_statement(n) ==
  IF Kind(n) = "return" THEN <<Flow(T(n), EndP(Func[n]))>> ELSE <<>>

(* The plain translation has its own copy of each of these; it draws the   *)
(* same arcs, and only leaves out what the slice and the unfolding want    *)
(* to know of calls, threads and locks.                                    *)
handle_jump_statement_withoutdependence(n) == handle_jump_statement(n)
organize_call_withoutdependence(n) == organize_call(n)
handle_call_withoutdependence(n)   == handle_call(n)
ThreadArcs_withoutdependence(n)    == ThreadArcs(n)
MutexArcs_withoutdependence(n)     == MutexArcs(n)
CondArcs_withoutdependence(n)      == CondArcs(n)

(* The place and the transitions of a statement. *)
visit_statement(n) == [i \in DOMAIN EnterT(n) |-> Flow(P(n), EnterT(n)[i])]

(* The arcs of a statement, in either translation; the arcs of its calls   *)
(* come first, and their order last.                                       *)
Traverse_ST2(n) ==
  handle_call(n) \o ThreadArcs(n) \o MutexArcs(n) \o CondArcs(n)
    \o (CASE Kind(n) = "block" -> inside_block(Kids(n), T(n))
          [] Branches(n)       -> handle_iter_sel(n)
          [] Kind(n) = "label" -> handle_label(n)
          [] OTHER             -> handle_jump_statement(n))
    \o organize_call(n)

Traverse_ST2_withoutdependence(n) ==
  handle_call_withoutdependence(n) \o ThreadArcs_withoutdependence(n)
    \o MutexArcs_withoutdependence(n) \o CondArcs_withoutdependence(n)
    \o (CASE Kind(n) = "block" -> inside_block_withoutdependence(Kids(n), T(n))
          [] Branches(n)       -> handle_iter_sel_withoutdependence(n)
          [] Kind(n) = "label" -> handle_label(n)
          [] OTHER             -> handle_jump_statement_withoutdependence(n))
    \o organize_call_withoutdependence(n)

(* The begin of a function and its body. *)
visit_function(f) == <<Flow(BeginP(f), BeginT(f))>>

handle_compound(f)                   == inside_block(Body[f], BeginT(f))
handle_compound_withoutdependence(f) == inside_block_withoutdependence(Body[f], BeginT(f))

(* A body ends where its last statement does, unless it has a return of   *)
(* its own level.                                                         *)
handle_func(f) ==
  LET s == Body[f]
      ends == IF s = <<>> THEN <<BeginT(f)>>
              ELSE IF \E i \in DOMAIN s : Kind(s[i]) = "return" THEN <<>>
              ELSE ExitT[Last(s)]
  IN  FlowAll(ends, EndP(f))

-----------------------------------------------------------------------------
(* The removal of nested blocks, on the list of all arcs.  Deleted arcs    *)
(* stay in the list, where searches still see them.                        *)

FindArc(arcs, src, tgt) == \E i \in DOMAIN arcs : arcs[i].src = src /\ arcs[i].tgt = tgt

(* Add_Arc in the form beoverrided: an arc that exists is left alone. *)
Add_Arc(arcs, a) == IF FindArc(arcs, a.src, a.tgt) THEN arcs ELSE Append(arcs, a)

delete_arc(arcs, gone) ==
  [i \in DOMAIN arcs |-> IF arcs[i] \in gone THEN [arcs[i] EXCEPT !.deleted = TRUE] ELSE arcs[i]]

(* A search runs through all arcs: of those it finds the last one counts.  *)
LastArc(arcs, Test(_)) == arcs[Max({i \in DOMAIN arcs : Test(arcs[i])})]
Targets(arcs, Test(_)) ==
  LET hit == InOrder({i \in DOMAIN arcs : Test(arcs[i])})  IN [k \in DOMAIN hit |-> arcs[hit[k]].tgt]

IsExecuted(p) == p[1] = "executed"

(* The transitions of the statement or call whose place an arc leads to.  *)
EntersT(p) == IF p[1] = "callP" THEN <<CallT(p[2], p[3])>> ELSE EnterT(p[2])

delete_compound(arcs, b) ==
  LET father == LastArc(arcs, LAMBDA a : a.tgt = P(b)).src
      pre    == LastArc(arcs, LAMBDA a : a.tgt = T(b) /\ IsExecuted(a.src)).src
      after  == LastArc(arcs, LAMBDA a : a.src = T(b) /\ IsExecuted(a.tgt)).tgt
      afterP == Targets(arcs, LAMBDA a : a.src = T(b) /\ ~IsExecuted(a.tgt))
      iter   == \E i \in DOMAIN arcs : arcs[i].tgt = after /\ arcs[i].src # T(b)
      first  == EntersT(afterP[1])
      last   == EntersT(Last(afterP))
      gone   == {a \in ToSet(arcs) :
                  \/ a.src = father /\ a.tgt = P(b)
                  \/ after \in {a.src, a.tgt}
                  \/ a.src = pre /\ a.tgt = T(b)
                  \/ a.src = T(b) /\ a.tgt \in ToSet(afterP)}
      added  == [i \in DOMAIN afterP |-> Flow(father, afterP[i])]
                  \o [i \in DOMAIN first |-> Flow(pre, first[i])]
                  \o IF iter THEN FlowAll(last, pre) ELSE <<>>
  IN  FoldLeft(Add_Arc, delete_arc(arcs, gone), added)

delete_compound_withoutdependence(arcs, b) ==
  LET pre   == LastArc(arcs, LAMBDA a : a.tgt = P(b)).src
      after == LastArc(arcs, LAMBDA a : a.src = T(b)).tgt
      gone  == {a \in ToSet(arcs) : \/ a.src = pre /\ a.tgt = P(b)
                                    \/ a.src = T(b) /\ a.tgt = after}
  IN  Add_Arc(delete_arc(arcs, gone), Flow(pre, after))


(* All arcs, before and after the nested blocks are removed. *)
BuiltArcs ==
  FlattenSeq([n \in Node |-> visit_statement(n) \o Traverse_ST2(n)])
    \o FoldSet(LAMBDA f, arcs : arcs \o visit_function(f) \o handle_compound(f) \o handle_func(f),
               <<>>, Funcs)

BuiltArcs_withoutdependence ==
  FlattenSeq([n \in Node |-> visit_statement(n) \o Traverse_ST2_withoutdependence(n)])
    \o FoldSet(LAMBDA f, arcs : arcs \o visit_function(f) \o handle_compound_withoutdependence(f)
                                     \o handle_func(f),
               <<>>, Funcs)

(* No nested block is dead code: when no arc leads to one, the default     *)
(* translation throws "error in delete_compound!", and the plain one draws *)
(* an arc from no transition, which set_producer_consumer does not find.   *)
ASSUME CompoundAssumption ==
  \A b \in Node : Nested(b) =>
    /\ \E i \in DOMAIN BuiltArcs : BuiltArcs[i].tgt = P(b)
    /\ \E i \in DOMAIN BuiltArcs : BuiltArcs[i].tgt = T(b) /\ IsExecuted(BuiltArcs[i].src)
    /\ \E i \in DOMAIN BuiltArcs_withoutdependence : BuiltArcs_withoutdependence[i].tgt = P(b)

Remaining(arcs) == {a \in ToSet(arcs) : ~a.deleted}

Arcs ==
  Remaining(FoldLeft(delete_compound, BuiltArcs, NodesWhere(Nested)))
Arcs_withoutdependence ==
  Remaining(FoldLeft(delete_compound_withoutdependence, BuiltArcs_withoutdependence, NodesWhere(Nested)))

(* The place and the colour of an arc, for a binding of the thread.       *)
Bind(arcs, tid) == {<<a[1], IF a[2] = Tid THEN tid ELSE a[2]>> : a \in arcs}
=============================================================================

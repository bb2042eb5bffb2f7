----------------------------- MODULE Conflicts -----------------------------
(***************************************************************************)
(* The tables the unfolding takes from the PDNet (CPN::unf_init, cpn.cpp): *)
(* which calls of which thread a transition belongs to, and which          *)
(* transitions of other threads it conflicts with over a mutex, a          *)
(* condition variable or a C variable.                                     *)
(*                                                                         *)
(* A net n is a record:                                                    *)
(*   trans     a sequence of transitions: row, line (the row, or that of   *)
(*             map_NoneRow for a transition without one), in and out (sets *)
(*             of arcs, a place and an Arc_Type), modes (see Unfolding)    *)
(*   threads   map_thread2beginP_endP: enter, begin, end                   *)
(*   calls     for each call transition the begin, end and exit place of   *)
(*             its call (f_table and map_call_enterT2exitP)                *)
(*   creators  set_thread_enterT                                           *)
(*   begins    the begin places of the functions                           *)
(*   mutexP, condP, places   set_mutexP, set_condP, and all places in the  *)
(*             order in which cal_conflictT visits them                    *)
(*   lockT, unlockT   map_lockT and map_unlockT: for each mutex the rows   *)
(*             of its locks and unlocks in increasing order                *)
(* A call stack is a sequence of calls, a call a sequence of transitions;  *)
(* main, which no transition creates, is the call <<0>>.  Programs have no *)
(* recursion.                                                              *)
(***************************************************************************)
EXTENDS Integers, SequencesExt

mainCall == <<0>>
NoneRow  == 65535

VarArcs == {"readArc", "writeArc", "readwrite", "allocwrite", "remain"}

T(n) == DOMAIN n.trans

\* get_consumer and get_producer of a place.
Consumers(n, p) == {t \in T(n) : \E a \in n.trans[t].in : a.p = p}
Producers(n, p) == {t \in T(n) : \E a \in n.trans[t].out : a.p = p}

OutP(n, t, types) == {a.p : a \in {b \in n.trans[t].out : b.type \in types}}

\* All that f leads to from a set, within U.
Closure(f(_), from, U) ==
  LET grow[s \in SUBSET U] == LET more == s \cup UNION {f(x) : x \in s}
                              IN  IF more = s THEN s ELSE grow[more]
  IN  grow[from]

\* The members of a finite set, in some order.
Listed(A) == FoldSet(LAMBDA x, s : Append(s, x), <<>>, A)

-----------------------------------------------------------------------------
(* cal_t2thread: the transitions of each thread, with their call stacks.   *)

ThreadOf(n, call) == CHOOSE th \in n.threads : th.enter = call

\* The transitions behind which a thread, or a call, is not followed.
endT(n, stack) ==
  IF Len(stack) = 1 THEN Producers(n, ThreadOf(n, stack[1]).end)
  ELSE LET c == n.calls[Last(stack)[1]]
       IN  Producers(n, c.end) \cup Producers(n, c.exit)

After(n, ps, stack) == UNION {Consumers(n, p) \X {stack} : p \in ps}

\* What comes after transition x[1] in the calls x[2]: what is after it in the
\* same call, and for a call transition the body of the function, one call
\* deeper, and what is behind its exit place.
Follow(n, x) ==
  LET t == x[1]  stack == x[2]
      entered == OutP(n, t, {"call_enter"})
  IN  IF t \in endT(n, stack) THEN {}
      ELSE After(n, OutP(n, t, {"executed", "call_exit"}), stack)
             \cup After(n, entered, Append(stack, <<t>>))
             \cup IF entered = {} THEN {} ELSE After(n, {n.calls[t].exit}, stack)

Searched(n) ==
  Closure(LAMBDA x : Follow(n, x),
          UNION {After(n, {th.begin}, <<th.enter>>) : th \in n.threads},
          T(n) \X Seq(Seq(Nat)))

\* map_t_call2thread: the thread, named by its first creating transition, of
\* each transition and call stack.
map_t_call2thread(n) ==
  LET kept == {x \in Searched(n) : x[1] \notin n.creators} IN [x \in kept |-> x[2][1][1]]

\* set_varP_normal: the variables written back by what was searched.  The last
\* transitions of a call are skipped before their variables are seen.
set_varP_normal(n) ==
  UNION {OutP(n, x[1], VarArcs) :
           x \in {y \in Searched(n) : Len(y[2]) = 1 \/ y[1] \notin endT(n, y[2])}}

is_varP(n, p) == p \in n.mutexP \cup n.condP \cup set_varP_normal(n)

\* map_call_exitT2enterT: the transitions that consume from the exit place of
\* a call (only the first of them is entered) and their call.
exitT2enterT(n) ==
  LET exitT(c) == Min(Consumers(n, n.calls[c].exit))
  IN  [t \in {exitT(c) : c \in DOMAIN n.calls} |-> CHOOSE c \in DOMAIN n.calls : exitT(c) = t]

-----------------------------------------------------------------------------
(* cal_conflictT: the conflicts over one place after the other.            *)

\* map_mutex_range: the k-th lock row goes with the k-th unlock row.
mutex_range(n, m) == {<<n.lockT[m][k], n.unlockT[m][k]>> : k \in DOMAIN n.lockT[m]}

Rows(n, x) == {n.trans[x[1]].line} \cup {n.trans[x[2][i][1]].line : i \in 2..Len(x[2])}

\* Slip: what lies between two critical sections is taken for a part of them.
InSectionOrBetween(n, m, row) == \E r, q \in mutex_range(n, m) : r[1] < row /\ row < q[2]

InSection(n, m, row) == \E r \in mutex_range(n, m) : r[1] < row /\ row < r[2]

within_criticalSec(n, x, y) ==
  \E m \in DOMAIN n.lockT :
    /\ \E row \in Rows(n, x) : InSection(n, m, row)
    /\ \E row \in Rows(n, y) : InSection(n, m, row)

set_func_beginT(n) ==
  {Min(Consumers(n, p)) : p \in n.begins}

\* The entries of the table whose transition reads, or changes, place p.
readT(n, call2thread, p) ==
  IF p \in n.mutexP \cup n.condP THEN {}
  ELSE {x \in DOMAIN call2thread :
          /\ x[1] \notin set_func_beginT(n)
          /\ [p |-> p, type |-> "readArc"] \in n.trans[x[1]].out}

writeT(n, call2thread, p) ==
  {x \in DOMAIN call2thread :
     /\ x[1] \notin set_func_beginT(n)
     /\ IF p \in n.mutexP \cup n.condP THEN x[1] \in Consumers(n, p)
        ELSE \E a \in n.trans[x[1]].out : a.p = p /\ a.type # "readArc"}

\* map_readT: the variables a transition only reads.
map_readT(n) ==
  LET call2thread == map_t_call2thread(n)
      reads(t) == {p \in set_varP_normal(n) : \E x \in readT(n, call2thread, p) : x[1] = t}
  IN  [t \in {u \in T(n) : reads(u) # {}} |-> reads(t)]

\* cal_conflictT_byRW: what entry x of a table conflicts with over place p.
Opponents(n, call2thread, p, x) ==
  LET write == writeT(n, call2thread, p)
      read  == readT(n, call2thread, p)
  IN  {y \in IF x \in write THEN read \cup write ELSE write :
         call2thread[x] # call2thread[y] /\ ~within_criticalSec(n, x, y)}

\* Call stacks are compared as vectors.
Before(s, u) ==
  \E i \in DOMAIN u :
    /\ \A j \in 1..i-1 : j \in DOMAIN s /\ s[j] = u[j]
    /\ i \in DOMAIN s => s[i][1] < u[i][1]

\* A multimap inserts behind the entries with the same key.
Insert(groups, g) ==
  SelectSeq(groups, LAMBDA h : ~Before(g.call, h.call)) \o <<g>>
    \o SelectSeq(groups, LAMBDA h : Before(g.call, h.call))

FirstT(g) == Min(g.ts)

\* conflictT_add: opponents of one call and one row are one group.  Rows are
\* compared as they are, so that transitions without a row are alike.
Groups(n, xs) ==
  {[call |-> x[2], ts |-> {y[1] : y \in {z \in xs : /\ z[2] = x[2]
                                                    /\ n.trans[z[1]].row = n.trans[x[1]].row}}] :
     x \in xs}

\* map_t2conflictT_add: a group is left out if the entry has one of the same
\* call that begins with the same transition.
AddGroups(old, new) ==
  FoldLeft(LAMBDA groups, g :
             IF \E i \in DOMAIN old : old[i].call = g.call /\ FirstT(old[i]) = FirstT(g)
             THEN groups ELSE Insert(groups, g),
           old,
           SortSeq(Listed(new), LAMBDA g, h : FirstT(g) < FirstT(h)))

\* Slip: readers are nobody's opponents.
conflictsOfWrites(n) ==
  LET call2thread == map_t_call2thread(n)
      varP == set_varP_normal(n)
      visited == SelectSeq(n.places, LAMBDA p : p \in n.mutexP \cup n.condP \cup varP)
      all(x) == FoldLeft(LAMBDA groups, p :
                           IF x \in writeT(n, call2thread, p)
                           THEN AddGroups(groups, Groups(n, Opponents(n, call2thread, p, x)
                                                              \cap writeT(n, call2thread, p)))
                           ELSE groups, <<>>, visited)
  IN  [x \in {y \in DOMAIN call2thread : all(y) # <<>>} |-> all(x)]

\* map_t2conflictT: for a transition in its calls the groups of conflicting
\* transitions, in the order of the multimap.
map_t2conflictT(n) ==
  LET call2thread == map_t_call2thread(n)
      varP == set_varP_normal(n)
      visited == SelectSeq(n.places, LAMBDA p : p \in n.mutexP \cup n.condP \cup varP)
      uses(x, p) == x \in readT(n, call2thread, p) \cup writeT(n, call2thread, p)
      all(x) == FoldLeft(LAMBDA groups, p :
                           IF uses(x, p)
                           THEN AddGroups(groups, Groups(n, Opponents(n, call2thread, p, x)))
                           ELSE groups, <<>>, visited)
  IN  [x \in {y \in DOMAIN call2thread : all(y) # <<>>} |-> all(x)]
=============================================================================

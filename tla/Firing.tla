------------------------------- MODULE Firing -------------------------------
(***************************************************************************)
(* How a transition of a net with data fires (cpn_rg.cpp): its bindings,   *)
(* one for each thread whose control tokens are there, its guard, and the  *)
(* marking it leaves.  Here a transition has its expressions as trees.     *)
(*                                                                         *)
(* A marking is the multisets of the control places, whose tokens are      *)
(* threads, and of the variables' places.  A control arc asks for "tid",   *)
(* any thread, or for the one it names.                                    *)
(***************************************************************************)
EXTENDS DataArcs

\* The name of the transition, its control arcs <<place, expression>>, and
\* its data arcs and guard.  A producer keeps the tokens to bind.
Items(mt) == {mt[j].item : j \in {n \in DOMAIN mt : mt[n].item.k = "token"}}

Constructed(id, pre, post, t) ==
  [id |-> id, pre |-> pre, post |-> post,
   in |-> [d \in DOMAIN t.in |-> [items |-> Items(t.in[d]), tree |-> manytoken_construct(t.in[d])]],
   out |-> [d \in DOMAIN t.out |-> manytoken_construct(t.out[d])],
   guard |-> IF t.guard = NoText THEN Null ELSE color_construct(t.guard)]

-----------------------------------------------------------------------------
Thread(exp, tid) == IF exp = "tid" THEN tid ELSE exp

\* The threads whose tokens lie in every control place asked for "tid".
possible(tr, marking) ==
  LET free  == {p \in ToSet(tr.pre) : p[2] = "tid"}
      named == ToSet(tr.pre) \ free
  IN  IF free = {} \/ \E p \in named : p[2] \notin Tokens(marking.control[p[1]]) THEN {}
      ELSE {tid \in UNION {Tokens(marking.control[p[1]]) : p \in free} :
              \A p \in free : tid \in Tokens(marking.control[p[1]])}

\* The token of a place that a token expression is matched with: of the same
\* index and of the thread that fires.
Matches(item, t, tid) ==
  /\ item.index # -1 => t.index = item.index
  /\ item.tid = "tid" => t.tid = tid

bindingToken(item, ms, tid) ==
  IF ms.color_count = 0 THEN {}
  ELSE LET t == CHOOSE u \in Tokens(ms) : Matches(item, u, tid)
       IN  {<<item.data[j][1].v, t.data[j]>> : j \in DOMAIN item.data} \cup {<<item.id[1].v, t.id>>}

BindingVariable(pairs) == [v \in {p[1] : p \in pairs} |-> (CHOOSE p \in pairs : p[1] = v)[2]]

get_bindings(tr, marking) ==
  {[tid |-> tid,
    env |-> BindingVariable(UNION {UNION {bindingToken(item, marking.data[d], tid) : item \in tr.in[d].items}
                                     : d \in DOMAIN tr.in})]
     : tid \in possible(tr, marking)}

\* Slip: a guard that holds for one thread lets them all through.
is_FireableSome(tr, marking) ==
  LET all == get_bindings(tr, marking)
  IN  IF tr.guard = Null \/ \E b \in all : CTN2SingleColor(tr.guard, b.env) # 0 THEN all ELSE {}

is_Fireable(tr, marking) ==
  {b \in get_bindings(tr, marking) : tr.guard = Null \/ CTN2SingleColor(tr.guard, b.env) # 0}

-----------------------------------------------------------------------------
Take(ms, less) == merge(MINUS(ms, less))
Give(ms, more) == merge(PLUS(ms, merge(more)))

\* All the producers' arcs, then all the consumers'.
Marking_after_fire(marking, tr, b) ==
  LET TakeC(c, p) == [c EXCEPT ![p[1]] = Take(@, SingleToken(Thread(p[2], b.tid), 1))]
      GiveC(c, p) == [c EXCEPT ![p[1]] = Give(@, SingleToken(Thread(p[2], b.tid), 1))]
      taken == [d \in DOMAIN marking.data |->
                  IF d \in DOMAIN tr.in THEN Take(marking.data[d], CTN2MS(tr.in[d].tree, b.env, b.tid))
                  ELSE marking.data[d]]
  IN  [control |-> FoldLeft(GiveC, FoldLeft(TakeC, marking.control, tr.pre), tr.post),
       data |-> [d \in DOMAIN marking.data |->
                   IF d \in DOMAIN tr.out THEN Give(taken[d], CTN2MS(tr.out[d], b.env, b.tid)) ELSE taken[d]]]

-----------------------------------------------------------------------------
(* RG_NODE::Hash, without the 64 bits of index_t. *)

\* A name hashes to a multiple of 13.
Name(tid) == 13 * (IF tid = "main" THEN 1 ELSE 1 + CHOOSE j \in DOMAIN NewThreads : NewThreads[j] = tid)

Squared == 169
Cubed   == 2197
Fifth   == 371293

Summed(f(_), S) == FoldSet(LAMBDA x, n : f(x) + n, 0, S)

DataHash(t) ==
  LET ints == (IF t.index = -1 THEN <<>> ELSE <<t.index>>) \o t.data \o <<t.id>>
  IN  (Len(ints) + Cardinality({t.tid} \ {""})) * Fifth
      + FoldSeq(LAMBDA n, h : (n + 1) * Squared + h, IF t.tid = "" THEN 0 ELSE Name(t.tid), ints)

MSHash(ms, bucket) ==
  LET counted(t) == ms.mapTokens[t] * Squared + bucket[t]
  IN  IF ms.color_count = 0 THEN 0 ELSE Cardinality(Tokens(ms)) * Cubed + Summed(counted, Tokens(ms))

\* The hash of a marking: the places of variables come first.
Hash(marking, controlPlaces) ==
  LET n == Len(marking.data)
      data(i) == (i - 1) * MSHash(marking.data[i], [t \in Tokens(marking.data[i]) |-> DataHash(t)]) + i - 1
      threads(p) == MSHash(marking.control[p], [tid \in Tokens(marking.control[p]) |-> Name(tid)])
      control(j) == (n + j - 1) * threads(controlPlaces[j]) + n + j - 1
  IN  Summed(data, 1..n) + Summed(control, DOMAIN controlPlaces)
=============================================================================

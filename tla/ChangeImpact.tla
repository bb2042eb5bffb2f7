---------------------------- MODULE ChangeImpact ----------------------------
(***************************************************************************)
(* The option -CIA: the syntax trees of two versions of a program are      *)
(* compared (AST_compare.cpp), the tree and the net of the old one are     *)
(* patched, one changed statement after the other (changeConstruct.cpp and *)
(* the end of cpn.cpp), and the forward slice of the changes is taken.     *)
(*                                                                         *)
(* The versions differ in lists of statements, of the function body and of *)
(* its blocks, and no statement moves from one list to another.  The patch *)
(* moves statements of the new tree into the old one; of the pointers of   *)
(* the trees it is known what comes after a statement.  Where the patch    *)
(* ends in an exit or at a null pointer, or takes a statement for new that *)
(* the old tree has, it is not followed further.                           *)
(***************************************************************************)
EXTENDS Slice

CONSTANTS
  Text,         \* Text[n]: what statement n says, apart from its parts
  Newer         \* Newer[f]: the newer versions of the program with main f

VARIABLE edit   \* the versions, and how far the patch has come

vars == <<slicevars, edit>>

-----------------------------------------------------------------------------
(* A version is a function from its containers (0 for the body of the main *)
(* function, otherwise the number of a block) to their statements.         *)

RECURSIVE PreOrder(_, _), PostOrder(_, _), Tree(_, _), ListTree(_, _), theSame(_, _),
          Level(_, _), top_down(_, _, _), process_move(_, _, _)

Parts(v, n) == IF n \in DOMAIN v THEN v[n] ELSE Kids(n)
PreOrder(v, n)  == FoldLeft(LAMBDA l, m : l \o PreOrder(v, m), <<n>>, Parts(v, n))
PostOrder(v, n) == Append(FoldLeft(LAMBDA l, m : l \o PostOrder(v, m), <<>>, Parts(v, n)), n)

Oldest(f) ==
  LET v == [c \in {0} |-> Body[f]]
      blocks == {n \in ToSet(PreOrder(v, 0)) \ {0} : Kind(n) = "block"}
  IN  [c \in {0} \cup blocks |-> Parts(v, c)]

(* Blocks, branches, loops and jumps are called com0, sel0, iter0, jump0   *)
(* and so on in the order of the tree, other statements by what they say.  *)
TraverseTree2(v, n) ==
  LET nth(order, kinds) == Cardinality({i \in DOMAIN order : /\ order[i] # 0 /\ Kind(order[i]) \in kinds
                                                             /\ \E j \in DOMAIN order : j >= i /\ order[j] = n})
  IN  CASE Kind(n) = "block" -> <<"com", nth(PreOrder(v, 0), {"block"})>>
        [] Kind(n) = "while" -> <<"iter", nth(PostOrder(v, 0), {"while"})>>
        [] Kind(n) = "if"    -> <<"sel", nth(PostOrder(v, 0), {"if"})>>
        [] Kind(n) \in Jumps -> <<"jump", nth(PostOrder(v, 0), Jumps)>>
        [] OTHER             -> <<"text", Text[n]>>

(* A node of a syntax tree; n is the number of a statement, for a      *)
(* compound its container.  The height is that of the nodes below,         *)
(* statements are those of the node and below, in order.                   *)
TreeNode(type, place, n, kids) ==
  [type |-> type, place |-> place, n |-> n, kids |-> kids,
   statements |-> FoldLeft(LAMBDA l, k : l \o k.statements, IF type = "statement" THEN <<n>> ELSE <<>>, kids),
   height |-> IF kids = <<>> THEN 0 ELSE 1 + Max({kids[i].height : i \in DOMAIN kids})]
Phrase(place, height) ==
  FoldLeft(LAMBDA t, i : TreeNode("part", place, 0, <<t>>), TreeNode("word", place, 0, <<>>), [i \in 1..height |-> i])

(* A statement list is the list of all but the last statement, and that.   *)
ListTree(v, ns) ==
  TreeNode("statement_list", <<>>, 0,
           (IF Len(ns) = 1 THEN <<>> ELSE <<ListTree(v, Front(ns))>>) \o <<Tree(v, Last(ns))>>)

Compound(v, c, place) ==
  TreeNode("compound", place, c,
           <<Phrase(<<"{">>, 0)>> \o (IF v[c] = <<>> THEN <<>> ELSE <<ListTree(v, v[c])>>) \o <<Phrase(<<"}">>, 0)>>)

Tree(v, n) ==
  LET place == TraverseTree2(v, n) IN
  TreeNode("statement", place, n,
    <<CASE Kind(n) = "block" -> Compound(v, n, place)
        [] Branches(n)       -> TreeNode(Kind(n), place, 0, <<Phrase(<<"text", Text[n]>>, 5)>>
                                           \o [i \in DOMAIN Kids(n) |-> Tree(v, Kids(n)[i])])
        [] Kind(n) \in Jumps -> Phrase(place, 1)
        [] OTHER             -> Phrase(place, 6)>>)

create_tree(v) ==
  TreeNode("function", <<>>, 0, <<Phrase(<<"declarator">>, 3), Compound(v, 0, <<"com", 0>>)>>)

-----------------------------------------------------------------------------
(* The comparison of two trees. *)

theSame(t1, t2) ==
  /\ t1.type = t2.type /\ t1.place = t2.place /\ Len(t1.kids) = Len(t2.kids)
  /\ \A i \in DOMAIN t1.kids : theSame(t1.kids[i], t2.kids[i])

(* A list of nodes by height: the highest, the others, what is below.      *)
peekMax(l) == Max({l[i].height : i \in DOMAIN l})
Highest(l) == SelectSeq(l, LAMBDA t : t.height = peekMax(l))
Others(l)  == SelectSeq(l, LAMBDA t : t.height # peekMax(l))
Below(l)   == FoldLeft(LAMBDA b, t : b \o t.kids, <<>>, l)

(* The higher list is opened until both have the same height.              *)
Level(l1, l2) ==
  IF l1 = <<>> \/ l2 = <<>> \/ peekMax(l1) = peekMax(l2) THEN <<l1, l2>>
  ELSE IF peekMax(l1) > peekMax(l2) THEN Level(Others(l1) \o Below(Highest(l1)), l2)
  ELSE Level(l1, Others(l2) \o Below(Highest(l2)))

(* A node of the first list and the next equal one of the second, looked   *)
(* for from where the node before was found, are a pair.                   *)
Paired(p, t) ==
  LET same  == {k \in DOMAIN p.left2 : theSame(t, p.left2[k])}
      later == {k \in same : k >= p.at}
      k     == Min(IF later = {} THEN same ELSE later)
  IN  IF same = {} THEN [p EXCEPT !.left1 = Append(@, t), !.at = 1]
      ELSE [p EXCEPT !.left2 = RemoveAt(@, k), !.at = k, !.m = Append(@, <<t, p.left2[k]>>)]

Pair(l1, l2, m) == FoldLeft(Paired, [left1 |-> <<>>, left2 |-> l2, at |-> 1, m |-> m], l1)

minHeight == 3

(* The pairs of highest equal nodes; the program exits at an empty list.   *)
top_down(l1, l2, m) ==
  IF l1 = <<>> \/ l2 = <<>> THEN [done |-> FALSE, m |-> m]
  ELSE IF peekMax(l1) <= minHeight \/ peekMax(l2) <= minHeight THEN [done |-> TRUE, m |-> m]
  ELSE LET l == Level(l1, l2)
           p == Pair(Highest(l[1]), Highest(l[2]), m)
       IN  IF l[1] = <<>> \/ l[2] = <<>> THEN [done |-> FALSE, m |-> m]
           ELSE top_down(Others(l[1]) \o Below(p.left1), Others(l[2]) \o Below(p.left2), p.m)

(* The pairs of statements in matched trees.                               *)
get_MatchStatement(m) ==
  UNION {LET s1 == m[i][1].statements  s2 == m[i][2].statements
         IN  {<<s1[k], s2[k]>> : k \in DOMAIN s1} : i \in DOMAIN m}

(* The pairs that are statements; a container of one is to be compared.    *)
Roots(m) == {<<m[i][1].n, m[i][2].n>> : i \in {k \in DOMAIN m : m[k][1].type = "statement"}}
Holds(v, c, n) == n \in ToSet(v[c])
find_container_mapping(roots) == {c \in DOMAIN edit.old : \E r \in roots : Holds(edit.old, c, r[1])}

(* The positions of the statements of two lists that are pairs of ms,      *)
(* between that of the opening and that of the closing brace.              *)
Positions(s1, s2, ms) ==
  <<<<0, 0>>>>
    \o FlattenSeq([i \in DOMAIN s1 |->
         LET js == {j \in DOMAIN s2 : <<s1[i], s2[j]>> \in ms} IN IF js = {} THEN <<>> ELSE <<<<i, Min(js)>>>>])
    \o <<<<Len(s1) + 1, Len(s2) + 1>>>>

Crossing(l, i) == {k \in 2..Len(l) \ {i} : (l[k][1] - l[i][1]) * (l[k][2] - l[i][2]) < 0}

(* Of pairs that cross the one with more crossings was moved.              *)
process_move(l, i, moves) ==
  LET k    == Min(Crossing(l, i))
      gone == IF Cardinality(Crossing(l, i)) >= Cardinality(Crossing(l, k)) THEN i ELSE k
  IN  IF i > Len(l) THEN [list |-> l, moves |-> moves]
      ELSE IF Crossing(l, i) = {} THEN process_move(l, i + 1, moves)
      ELSE process_move(RemoveAt(l, gone), i, Append(moves, l[gone]))

(* What happened between two pairs: statements are modified as long as     *)
(* both lists have one, then the rest is added, from the end, or deleted.  *)
add_change(last, now, moves) ==
  LET both == Min({now[1] - last[1], now[2] - last[2]}) - 1
      first == <<last[1] + 1 + both, last[2] + 1 + both>>
  IN  [modify |-> [k \in 1..both |-> <<last[1] + k, last[2] + k>>],
       add |-> SelectSeq([k \in 1..(now[2] - first[2]) |-> <<first[1] - 1, now[2] - k>>],
                         LAMBDA a : first[1] = now[1] /\ \A i \in DOMAIN moves : moves[i][2] # a[2]),
       del |-> SelectSeq([k \in 1..(now[1] - first[1]) |-> <<first[1] + k - 1, first[2] - 1>>],
                         LAMBDA d : \A i \in DOMAIN moves : moves[i][1] # d[1])]

process_other(c, l, moves) ==
  LET gaps == [i \in 1..Len(l) - 1 |-> add_change(l[i], l[i + 1], moves)]
  IN  [at |-> c, move |-> moves,
       modify |-> FlattenSeq([i \in DOMAIN gaps |-> gaps[i].modify]),
       add    |-> FlattenSeq([i \in DOMAIN gaps |-> gaps[i].add]),
       del    |-> FlattenSeq([i \in DOMAIN gaps |-> gaps[i].del])]

(* The changes of a container; a block that was compared counts as matched *)
(* in the list around it, but not the loop that it is the body of.         *)
block_handle(r, c) ==
  LET s1 == edit.old[c]  s2 == edit.new[c]
      total_match == \A i \in 1..Min({Len(s1), Len(s2)}) : <<s1[i], s2[i]>> \in r.ms
      p == process_move(Positions(s1, s2, r.ms), 2, <<>>)
  IN  IF total_match THEN r
      ELSE [ms |-> r.ms \cup {<<c, c>>}, changes |-> Append(r.changes, process_other(c, p.list, p.moves))]

(* Inner containers come first.                                            *)
extract_change(m) ==
  LET containers == find_container_mapping(Roots(m))
      order == SelectSeq(Reverse(PreOrder(edit.old, 0)), LAMBDA c : c \in containers)
  IN  FoldLeft(block_handle, [ms |-> get_MatchStatement(m), changes |-> <<>>], order).changes

-----------------------------------------------------------------------------
(* The patch of the tree.  A statement is that of the old or the new tree. *)

End == <<"end", 0>>

PointersOf(tree, v) ==
  LET at(l, k) == <<<<tree, l[k]>>, IF k = Len(l) THEN End ELSE <<tree, l[k + 1]>>>>
      pairs == UNION {{at(v[c], k) : k \in DOMAIN v[c]} : c \in DOMAIN v}
  IN  [x \in {p[1] : p \in pairs} |-> (CHOOSE p \in pairs : p[1] = x)[2]]

FirstOf(v, tree, c) == IF v[c] = <<>> THEN End ELSE <<tree, v[c][1]>>

(* The statement pos steps behind x.                                       *)
get_statementNodeFromPos(after, x, pos) ==
  IF pos < 0 THEN End ELSE FoldLeft(LAMBDA y, k : IF y = End THEN End ELSE after[y], x, [k \in 1..pos |-> k])

(* Slip: entries at the position itself move as well.                      *)
ShiftFrom(l, pos, d) == [i \in DOMAIN l |-> IF l[i][1] >= pos THEN <<l[i][1] + d, l[i][2]>> ELSE l[i]]

(* The entries of a change behind a position move with the statements.     *)
Shift(l, pos, d) == [i \in DOMAIN l |-> IF l[i][1] > pos THEN <<l[i][1] + d, l[i][2]>> ELSE l[i]]
ShiftChange(ch, pos, d) ==
  [ch EXCEPT !.add = Shift(@, pos, d), !.del = Shift(@, pos, d), !.modify = Shift(@, pos, d), !.move = Shift(@, pos, d)]

Stopped(e) == [e EXCEPT !.stopped = TRUE]

-----------------------------------------------------------------------------
(* The patch of the net. *)

ExecutedP(n)   == <<"executed", n, 1>>           \* made when statement n is added
ArcsTo(p, ts)  == {ControlArc(p, t, Tid, "control") : t \in ts}
ArcsFrom(ts, p) == {ControlArc(t, p, Tid, "executed") : t \in ts}

(* The "executed" places before statement n, as its first transition sees  *)
(* them, and the places its first transition marks as executed.            *)
Before1(arcs, n) == {a.src : a \in {b \in arcs : b.tgt = EnterT(n)[1] /\ IsExecuted(b.src)}}
Behind1(arcs, n) == {a.tgt : a \in {b \in arcs : b.src = EnterT(n)[1] /\ b.type = "executed"}}
Without(arcs, srcs, tgts) == {a \in arcs : ~(a.src \in srcs /\ a.tgt \in tgts)}

deletePreExecuteArc(arcs, n) == Without(arcs, Before1(arcs, n), ToSet(EnterT(n)))

(* Slip: statement n still waits for what it waited for.                   *)
modifyPreExecuteArcBoth(arcs, n, m) == arcs \cup UNION {ArcsTo(p, ToSet(EnterT(m))) : p \in Before1(arcs, n)}

modifyPreExecuteArc(arcs, n, m) ==
  deletePreExecuteArc(arcs, n) \cup UNION {ArcsTo(p, ToSet(EnterT(m))) : p \in Before1(arcs, n)}
modifyAfterExecuteArc(arcs, n, m) ==
  Without(arcs, ToSet(EnterT(n)), Behind1(arcs, n)) \cup UNION {ArcsFrom(ToSet(EnterT(m)), p) : p \in Behind1(arcs, n)}

change_deleteControlArc(arcs, n) == {a \in arcs : ~(a.tgt = P(n) /\ a.type = "control")}
change_addControlArc(arcs, pre, n) ==
  LET fathers == {a.src : a \in {b \in arcs : b.tgt = P(pre) /\ b.type = "control"}}
  IN  IF fathers = {} THEN arcs ELSE arcs \cup {ControlArc(CHOOSE t \in fathers : TRUE, P(n), Tid, "control")}

(* The arcs of a statement and its parts (Traverse_ST1 and Traverse_ST2).  *)
Translated(v, n) ==
  TypedArcs(UNION {ToSet(visit_statement(k) \o Traverse_ST2(k)) : k \in ToSet(PreOrder(v, n))})

AddToNet(arcs, pre, n, after) ==
  change_addControlArc(
    IF after = End
    THEN modifyAfterExecuteArc(arcs, pre, n)
           \cup ArcsFrom(ToSet(ExitT[pre]), ExecutedP(n)) \cup ArcsTo(ExecutedP(n), ToSet(EnterT(n)))
    ELSE modifyPreExecuteArc(arcs, after[2], n)
           \cup ArcsFrom(ToSet(ExitT[n]), ExecutedP(n)) \cup ArcsTo(ExecutedP(n), ToSet(EnterT(after[2]))),
    pre, n)

DeleteFromNet(arcs, n, after) ==
  modifyPreExecuteArc(deletePreExecuteArc(change_deleteControlArc(arcs, n), after), n, after)

-----------------------------------------------------------------------------
(* One change, of tree and net. *)

(* A statement of the new tree is put behind position a[1].                *)
change_add_single(e, c, a) ==
  LET pre   == get_statementNodeFromPos(e.after, e.first[<<"old", c>>], a[1] - 1)
      new   == get_statementNodeFromPos(e.after, e.first[<<"new", c>>], a[2] - 1)
      after == e.after[pre]
  IN  IF pre = End \/ new = End THEN Stopped(e)
      ELSE IF new[1] = "old" \/ new[2] \in ToSet(PreOrder(e.old, 0)) \/ (after = End /\ Branches(pre[2])) THEN Stopped(e)
      ELSE [e EXCEPT !.after = [@ EXCEPT ![pre] = new, ![new] = after],
                     !.changes[1] = ShiftChange(@, a[1], 1),
                     !.arcs = AddToNet(@ \cup Translated(e.new, new[2]), pre[2], new[2], after),
                     !.changed = @ \cup {P(new[2])}]

(* The statement at position d[1] is taken out.  The one before it is      *)
(* looked for under the list before, where the first statement is alone.   *)
change_del_single(e, c, d) ==
  LET first == e.first[<<"old", c>>]
      gone  == get_statementNodeFromPos(e.after, first, d[1] - 1)
      pre   == get_statementNodeFromPos(e.after, first, d[1] - 2)
  IN  IF gone = End \/ d[1] = 2 THEN Stopped(e)
      ELSE IF e.after[gone] = End THEN Stopped(e)
      ELSE [e EXCEPT !.first = IF pre = End THEN [@ EXCEPT ![<<"old", c>>] = e.after[gone]] ELSE @,
                     !.after = IF pre = End THEN @ ELSE [@ EXCEPT ![pre] = e.after[gone]],
                     !.changes[1] = ShiftChange(@, d[1], -1),
                     !.arcs = DeleteFromNet(@, gone[2], e.after[gone][2]),
                     !.changed = @ \cup {P(gone[2])}]

-----------------------------------------------------------------------------
NoEdit == [old |-> <<>>]

(* What belongs to the program: its statements, where it begins and ends. *)
Of(x, ns)     == x[1] \notin {"begin", "beginP", "endP", "mutex", "cond"} /\ x[2] \in ns
Within(x, ns) == Of(x, ns) \/ x \in {BeginP(main), BeginT(main), EndP(main)}

(* Both trees are parsed, and the net of the old one is built.             *)
EditInit ==
  /\ main \in DOMAIN Newer
  /\ \E own \in {ToSet(PreOrder(Oldest(main), 0))} :
     \E arcs \in {TypedArcs({a \in Arcs : Within(a.src, own) /\ Within(a.tgt, own)})} :
       LET old == Oldest(main)
           heads(tree, v) == [x \in {<<tree, c>> : c \in DOMAIN v} |-> FirstOf(v, tree, x[2])]
       IN  /\ net = NetOf(arcs, Reads, Writes)
           /\ \E new \in Newer[main] :
              edit = [old |-> old, new |-> new, first |-> heads("old", old) @@ heads("new", new),
                      after |-> PointersOf("old", old) @@ PointersOf("new", new),
                      changes |-> <<>>, changed |-> {}, stopped |-> FALSE, arcs |-> arcs]
  /\ phase = "compare"
  /\ final_P = {} /\ final_T = {} /\ done = {} /\ cor_Ps = {}
  /\ slice = [pre |-> <<>>, post |-> <<>>]
  /\ marking = StartOf(main)
  /\ sliced = EmptyBag
  /\ writer = [x \in VarSlots |-> Unwritten]

ChangeInit == (SliceInit /\ edit = NoEdit) \/ EditInit

Unsliced == <<main, final_P, final_T, done, cor_Ps, runvars>>

(* The comparison: the program exits if no statement matches, or one that  *)
(* is the body of a branch or a loop.                                      *)
Compare ==
  LET t == top_down(<<create_tree(edit.old)>>, <<create_tree(edit.new)>>, <<>>)
      listed == \A r \in Roots(t.m) : \E c \in DOMAIN edit.old : Holds(edit.old, c, r[1])
  IN  /\ phase = "compare"
      /\ phase' = "patch"
      /\ edit' = IF t.done /\ Roots(t.m) # {} /\ listed THEN [edit EXCEPT !.changes = extract_change(t.m)]
                 ELSE Stopped(edit)
      /\ UNCHANGED <<net, Unsliced>>

(* The changes of the container at hand: what is added, what is deleted,   *)
(* what is modified, what has moved.                                       *)
At(kinds, kind) ==
  /\ phase = "patch" /\ ~edit.stopped /\ edit.changes # <<>>
  /\ \A k \in kinds : edit.changes[1][k] = <<>>
  /\ edit.changes[1][kind] # <<>>
  /\ UNCHANGED <<net, phase, Unsliced>>

change_add ==
  LET c == edit.changes[1].at  a == edit.changes[1].add[1] IN
  /\ At({}, "add")
  /\ edit' = change_add_single([edit EXCEPT !.changes[1].add = Tail(@)], c, a)

change_del ==
  LET c == edit.changes[1].at  d == edit.changes[1].del[1] IN
  /\ At({"add"}, "del")
  /\ edit' = change_del_single([edit EXCEPT !.changes[1].del = Tail(@)], c, d)

BothSingle(e, c, a, d) ==
  LET added == change_add_single(e, c, a) IN IF added.stopped THEN added ELSE change_del_single(added, c, d)

change_modify ==
  LET c == edit.changes[1].at  m == edit.changes[1].modify[1] IN
  /\ At({"add", "del"}, "modify")
  /\ edit' = BothSingle([edit EXCEPT !.changes[1].modify = Tail(@)], c, m, m)

change_move ==
  LET c == edit.changes[1].at  m == edit.changes[1].move[1] IN
  /\ At({"add", "del", "modify"}, "move")
  /\ edit' = BothSingle([edit EXCEPT !.changes[1].move = Tail(@)], c, <<m[2], m[2]>>, m)

NextContainer ==
  /\ phase = "patch" /\ ~edit.stopped /\ edit.changes # <<>>
  /\ \A k \in {"add", "del", "modify", "move"} : edit.changes[1][k] = <<>>
  /\ edit' = [edit EXCEPT !.changes = Tail(@)]
  /\ UNCHANGED <<net, phase, Unsliced>>

changeConstruct ==
  /\ phase = "patch" /\ ~edit.stopped /\ edit.changes = <<>>
  /\ phase' = "patched"
  /\ net' = NetOf(edit.arcs, Reads, Writes)
  /\ UNCHANGED <<Unsliced, edit>>

(* preWardSlicing starts at the changed places.                            *)
StartForward ==
  /\ phase = "patched"
  /\ phase' = "forward"
  /\ final_T' = UNION {Consumers(p) : p \in edit.changed}
  /\ final_P' = edit.changed \cup Statements(final_T')
  /\ UNCHANGED <<main, net, done, cor_Ps, runvars, edit>>

ChangeNext ==
  \/ Compare \/ change_add \/ change_del \/ change_modify \/ change_move
  \/ NextContainer \/ changeConstruct \/ StartForward
  \/ LookAt /\ UNCHANGED edit
  \/ Correspond /\ UNCHANGED edit
  \/ SecondPhase /\ UNCHANGED edit
  \/ CompleteSlice /\ UNCHANGED edit
  \/ traditionalAPNSlice /\ UNCHANGED edit
  \/ CompleteTraditional /\ UNCHANGED edit
  \/ LookForward /\ UNCHANGED edit
  \/ ForwardAgain /\ UNCHANGED edit
  \/ CompleteForward /\ UNCHANGED edit
  \/ \E t \in DOMAIN net.pre, tid \in Tids : RunStep(t, tid) /\ UNCHANGED edit

ChangeSpec == ChangeInit /\ [][ChangeNext]_vars

-----------------------------------------------------------------------------
(* The statements of a list of the patched tree.                           *)
Listed(c) ==
  LET follow(l, i) == IF Last(l) = End THEN l ELSE Append(l, edit.after[Last(l)])
      l == FoldLeft(follow, <<edit.first[<<"old", c>>]>>, [i \in 1..20 |-> i])
  IN  [i \in 1..Len(l) - 1 |-> Text[l[i][2]]]

Edited == {c \in DOMAIN edit.old : edit.old[c] # edit.new[c]}

(* The lists of a container apart from where they begin and end alike.     *)
Middle(s1, s2) ==
  LET most == Min({Len(s1), Len(s2)})
      p == Max({k \in 0..most : \A i \in 1..k : Text[s1[i]] = Text[s2[i]]})
      q == Max({k \in 0..most - p : \A i \in 0..k - 1 : Text[s1[Len(s1) - i]] = Text[s2[Len(s2) - i]]})
  IN  [before |-> p, behind |-> q, x |-> SubSeq(s1, p + 1, Len(s1) - q), y |-> SubSeq(s2, p + 1, Len(s2) - q)]

(* The list of c was edited, m apart, in one place that is not the end, so *)
(* that at most one statement was there or is there, or one has moved on;  *)
(* the second statement stays.  In a block the loop is the last statement. *)
Local(c, m) ==
  /\ Edited = {c} /\ m.behind > 0
  /\ c # 0 => Kids(Last(edit.old[0])) = <<c>>
  /\ m.x = <<>> => m.before > 0
  /\ m.x # <<>> => m.before # 1 /\ ~(m.before = 0 /\ Len(m.x) > 1 /\ m.y # <<>>)
  /\ \/ Len(m.x) <= 1 \/ Len(m.y) <= 1
     \/ m.before > 1 /\ Text[m.x[1]] = Text[Last(m.y)]
          /\ [i \in DOMAIN Tail(m.x) |-> Text[Tail(m.x)[i]]] = [i \in DOMAIN Front(m.y) |-> Text[Front(m.y)[i]]]
  /\ \A n \in ToSet(m.y) : ~Nested(n) /\ Kind(n) # "while"

(* After a local edit the tree of the old version reads like the new one.  *)
TreePatched ==
  phase \in {"patch", "patched"} =>
    \A c \in DOMAIN edit.old :
      Local(c, Middle(edit.old[c], edit.new[c])) =>
        /\ ~edit.stopped
        /\ phase = "patched" => \A b \in DOMAIN edit.old : Listed(b) = [i \in DOMAIN edit.new[b] |-> Text[edit.new[b][i]]]

(* The net of the new version, as it is built anew.                       *)
FreshArcs ==
  LET l == PreOrder(edit.new, 0)
      built == FlattenSeq([i \in 1..Len(l) - 1 |->
                 visit_statement(l[i + 1])
                   \o IF Kind(l[i + 1]) = "block" THEN inside_block(Parts(edit.new, l[i + 1]), T(l[i + 1]))
                      ELSE Traverse_ST2(l[i + 1])])
      ends == FlowAll(ExitT[Last(edit.new[0])], EndP(main))
  IN  Remaining(FoldLeft(delete_compound,
                         built \o visit_function(main) \o inside_block(edit.new[0], BeginT(main)) \o ends,
                         SelectSeq(l, LAMBDA n : n # 0 /\ Kind(n) = "block" /\ Parts(edit.new, n) # <<>>)))

(* A net as its statements see it: which transitions hand out which        *)
(* tokens, and which wait for which by an "executed" place.                *)
Seen(arcs, used) ==
  LET here  == {a \in arcs : Within(a.src, used) /\ Within(a.tgt, used)}
      execs == {a.src : a \in {b \in arcs : IsExecuted(b.src) /\ Of(b.tgt, used)}}
  IN  [control |-> {<<a.src, a.tgt>> : a \in {b \in here : ~IsExecuted(b.src) /\ ~IsExecuted(b.tgt)}},
       order |-> {<<{a.src : a \in {b \in arcs : b.tgt = p /\ Within(b.src, used)}},
                    {a.tgt : a \in {b \in arcs : b.src = p /\ Of(b.tgt, used)}}>> : p \in execs}]

(* After a local edit that is not before a loop the patched net is that of *)
(* the new version.                                                        *)
NetPatched ==
  phase = "patched" =>
    \A c \in DOMAIN edit.old : \A m \in {Middle(edit.old[c], edit.new[c])} :
      LET used == ToSet(PreOrder(edit.new, 0)) \ {0}
          next == m.x \o SubSeq(edit.old[c], Len(edit.old[c]) - m.behind + 1, Len(edit.old[c]))
      IN  Local(c, m) /\ (\A i \in 1..Len(m.x) + 1 : Kind(next[i]) # "while") =>
            Seen(edit.arcs, used) = Seen(FreshArcs, used)
=============================================================================

----------------------------- MODULE TokenGraph -----------------------------
(***************************************************************************)
(* The reachability graph of a net with data (class RG): a depth-first     *)
(* search whose nodes hold markings.  A node is found again by its hash    *)
(* and then by comparing markings place by place; a successor that is      *)
(* already there gives its father a dashed edge, a new one a father.       *)
(*                                                                         *)
(* How transitions fire is module Firing's; here it is a parameter, so     *)
(* that what the search owes its users can be said for every net.          *)
(***************************************************************************)
EXTENDS MultiSets, SequencesExt

CONSTANTS
  Markings,         \* the markings the net may come to
  Start,            \* the initial one
  TransCount,       \* how many transitions there are
  Priority,         \* get_transPriNum: the numbers of those to be tried first
  Aborts,           \* those that abort
  BindingsOf(_, _), \* is_Fireable: the bindings of a transition at a marking
  Fired(_, _, _),   \* Marking_after_fire: marking, transition and binding
  HashOf(_),        \* RG_NODE::Hash
  TableSize,        \* CPNRGTABLE_SIZE
  Limits            \* bounds of the number of nodes (100000), any of them

\* A place of a marking holds a multiset with the right number of colours.
IsMultiSet(ms) ==
  /\ Exact(ms)
  /\ ms = [mapTokens |-> ms.mapTokens, color_count |-> ms.color_count]

\* Markings are of the same places.
IsMarking(m) ==
  /\ m = [control |-> [p \in DOMAIN Start.control |-> m.control[p]],
          data |-> [d \in DOMAIN Start.data |-> m.data[d]]]
  /\ \A p \in DOMAIN Start.control : IsMultiSet(m.control[p])
  /\ \A d \in DOMAIN Start.data : IsMultiSet(m.data[d])

ASSUME MarkingsAssumption ==
  /\ Start \in Markings
  /\ \A m \in Markings : IsMarking(m) /\ HashOf(m) \in Nat

ASSUME FiringAssumption ==
  /\ TransCount \in Nat
  /\ Priority \in Seq(1 .. TransCount)
  /\ \A m \in Markings : \A k \in 1 .. TransCount :
       /\ BindingsOf(k, m) \in Seq(ToSet(BindingsOf(k, m)))
       /\ \A b \in ToSet(BindingsOf(k, m)) : Fired(m, k, b) \in Markings

ASSUME SizesAssumption ==
  /\ TableSize \in Nat \ {0}
  /\ Limits \subseteq Nat \ {0}

VARIABLES
  limit,
  rgnodevec,        \* the nodes; a node's num is its position less one
  rgnodetable,      \* of each hash, the nums of its nodes, the latest first
  stack             \* calls of createNode: node, transition and binding next
vars == <<limit, rgnodevec, rgnodetable, stack>>

-----------------------------------------------------------------------------
\* Marking's operator==.
Equal(a, b) ==
  /\ \A d \in DOMAIN a.data : Same(a.data[d], b.data[d])
  /\ \A p \in DOMAIN a.control : Same(a.control[p], b.control[p])

\* nodeExist: the first node with the same hash that has this marking.
Bucket(marking) == HashOf(marking) % TableSize
Matching(marking) ==
  {j \in DOMAIN rgnodetable[Bucket(marking)] :
     Equal(marking, rgnodevec[rgnodetable[Bucket(marking)][j] + 1].marking)}
nodeExist(marking) == rgnodetable[Bucket(marking)][Min(Matching(marking))]

-----------------------------------------------------------------------------
\* A transition that can fire is put in front of those before it.
InFront(k, bindings, queue) ==
  IF k \in Aborts \/ bindings = <<>> THEN queue
  ELSE <<[transition |-> k, bindings |-> bindings]>> \o queue

\* The transition whose turn is n: those of priority come first.
TurnOf(n) == IF n <= Len(Priority) THEN Priority[n] ELSE n - Len(Priority)

\* Turn n of the loops over the transitions.
Turn(n, marking, queue) ==
  IF n > Len(Priority) /\ TurnOf(n) \in ToSet(Priority) THEN queue
  ELSE InFront(TurnOf(n), BindingsOf(TurnOf(n), marking), queue)

\* The transitions that can fire, with their bindings.
get_FireTranQ(marking) ==
  LET queue[n \in 0 .. Len(Priority) + TransCount] ==
        IF n = 0 THEN <<>> ELSE Turn(n, marking, queue[n - 1])
  IN  queue[Len(Priority) + TransCount]

Node(marking, fathernum, last_tran, tranQ) ==
  [marking |-> marking, fathernum |-> fathernum, last_tran |-> last_tran, tranQ |-> tranQ, dashNextNode |-> <<>>]

\* Slip: the node takes the place of the others with its hash.
addRGNodeAlone(marking, fathernum, last_tran, tranQ) ==
  /\ rgnodevec' = Append(rgnodevec, Node(marking, fathernum, last_tran, tranQ))
  /\ rgnodetable' = [rgnodetable EXCEPT ![Bucket(marking)] = <<Len(rgnodevec)>>]

addRGNode(marking, fathernum, last_tran, tranQ) ==
  /\ rgnodevec' = Append(rgnodevec, Node(marking, fathernum, last_tran, tranQ))
  /\ rgnodetable' = [rgnodetable EXCEPT ![Bucket(marking)] = <<Len(rgnodevec)>> \o @]

Frame(num) == [num |-> num, t |-> 1, i |-> 1]

Init ==
  /\ limit \in Limits
  /\ rgnodevec = <<Node(Start, -1, 0, get_FireTranQ(Start))>>
  /\ rgnodetable = [h \in 0 .. TableSize - 1 |-> IF h = Bucket(Start) THEN <<0>> ELSE <<>>]
  /\ stack = <<Frame(0)>>

Top   == Last(stack)
TranQ == rgnodevec[Top.num + 1].tranQ
Later(t, i) == Append(Front(stack), [num |-> Top.num, t |-> t, i |-> i])

Firing == stack # <<>> /\ Top.t <= Len(TranQ) /\ Top.i <= Len(TranQ[Top.t].bindings)
Successor ==
  Fired(rgnodevec[Top.num + 1].marking, TranQ[Top.t].transition, TranQ[Top.t].bindings[Top.i])

\* createNode, one binding at a time: the successor is there already,
Known(s) ==
  /\ Matching(s) # {}
  /\ rgnodevec' = [rgnodevec EXCEPT ![Top.num + 1].dashNextNode = Append(@, nodeExist(s))]
  /\ stack' = Later(Top.t, Top.i + 1)
  /\ UNCHANGED <<limit, rgnodetable>>

\* is new and is searched next,
Added(s) ==
  /\ Matching(s) = {}
  /\ Len(rgnodevec) < limit
  /\ addRGNode(s, Top.num, TranQ[Top.t].transition, get_FireTranQ(s))
  /\ stack' = Append(Later(Top.t, Top.i + 1), Frame(Len(rgnodevec)))
  /\ UNCHANGED limit

\* or is new and one too many: it is kept without successors, and only the
\* bindings of this transition are given up.
AddedAtLimit(s) ==
  /\ Matching(s) = {}
  /\ Len(rgnodevec) >= limit
  /\ addRGNode(s, Top.num, TranQ[Top.t].transition, <<>>)
  /\ stack' = Later(Top.t + 1, 1)
  /\ UNCHANGED limit

NextTransition ==
  /\ stack # <<>> /\ Top.t <= Len(TranQ) /\ Top.i > Len(TranQ[Top.t].bindings)
  /\ stack' = Later(Top.t + 1, 1)
  /\ UNCHANGED <<limit, rgnodevec, rgnodetable>>

Return ==
  /\ stack # <<>> /\ Top.t > Len(TranQ)
  /\ stack' = Front(stack)
  /\ UNCHANGED <<limit, rgnodevec, rgnodetable>>

Fire == Firing /\ \E s \in {Successor} : Known(s) \/ Added(s) \/ AddedAtLimit(s)

Next == Fire \/ NextTransition \/ Return

Spec == Init /\ [][Next]_vars

-----------------------------------------------------------------------------
Nodes == DOMAIN rgnodevec

\* No marking has two nodes, however the hashes collide.
NodesDistinct == \A m, n \in Nodes : m # n => rgnodevec[m].marking # rgnodevec[n].marking

Edge(n, k, marking) ==
  \E m \in Nodes : /\ rgnodevec[m].marking = marking
                   /\ \/ rgnodevec[m].fathernum = n - 1 /\ rgnodevec[m].last_tran = k
                      \/ m - 1 \in ToSet(rgnodevec[n].dashNextNode)

\* When the search ends below the limit, every successor of every node is
\* there, with an edge to it.
GraphComplete ==
  stack = <<>> /\ Len(rgnodevec) <= limit =>
    \A n \in Nodes : \A k \in (1 .. TransCount) \ Aborts :
      \A b \in ToSet(BindingsOf(k, rgnodevec[n].marking)) : Edge(n, k, Fired(rgnodevec[n].marking, k, b))
=============================================================================

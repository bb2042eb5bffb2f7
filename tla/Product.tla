------------------------------ MODULE Product ------------------------------
(***************************************************************************)
(* CPN_Product_Automata (product.cpp): the on-the-fly search for an        *)
(* accepting cycle in the product of the reachability graph of a PDNet and *)
(* the state-labelled Buechi automaton of the negated formula.             *)
(*                                                                         *)
(* The search is Tarjan's SCC algorithm with three stacks: the C++ call    *)
(* stack (frames), the stack of open product nodes (cstack) and the stack  *)
(* of open accepting product nodes (astack), plus the hash table of closed *)
(* nodes (h).  The reachability graph is built by the same recursion: an   *)
(* RG node exists once some firing has produced its marking.               *)
(*                                                                         *)
(* Data that the search never looks into is abstract: a marking is a value *)
(* of Markings, the bindings fireable at it (get_FireTranQ) are the list of*)
(* markings they lead to, and isLabel is the relation label.               *)
(***************************************************************************)
EXTENDS Integers, Sequences, FiniteSets

CONSTANTS
  Markings,   \* the markings of the net
  BAStates,   \* the vertices of the Buechi automaton (ba->vertics)
  Systems,    \* the instances to search: nets with their automata
  CHASHSIZE   \* the capacity of cstack (2^20 in product.h)

(***************************************************************************)
(* An instance: the initial marking, the successors of a marking in the    *)
(* order tranQ lists them, the arcs of an automaton state in list order,   *)
(* the accepting and the initial states, and label, the pairs isLabel      *)
(* accepts.  vertics gives the array order of the states.                  *)
(***************************************************************************)
SystemType ==
  [init    : Markings,
   succ    : [Markings -> Seq(Markings)],
   arcs    : [BAStates -> Seq(BAStates)],
   vertics : Seq(BAStates),
   accepted: SUBSET BAStates,
   initial : SUBSET BAStates,
   label   : SUBSET (Markings \X BAStates)]

\* vertics is the array of all states: it holds the initial ones.
ASSUME SystemsAssumption ==
  /\ Systems \subseteq SystemType
  /\ \A s \in Systems : \A b \in s.initial : \E k \in DOMAIN s.vertics : s.vertics[k] = b
ASSUME CapacityAssumption == CHASHSIZE \in Nat

VARIABLES
  sys,            \* the instance being searched
  rgnodevec,      \* RG::rgnodevec: the markings of the RG nodes, by number
  obj,            \* the CPN_Product objects handed to Tarjan, by address
  cstack,         \* CPstack: addresses of the open nodes
  astack,         \* CStack: addresses of the open accepting nodes
  h,              \* CHashtable: addresses of the closed nodes
  frames,         \* the activations of Tarjan, the running one last
  initial_status, \* the automaton states of the initial product nodes
  next,           \* loop counter of GetInitNode, then of GetProduct
  phase,          \* "init" (GetInitNode), "search" (GetProduct), "done"
  result,         \* FALSE once an accepting cycle has been found
  timeup          \* TRUE once the search has run longer than MaxTime

vars == <<sys, rgnodevec, obj, cstack, astack, h, frames, initial_status,
          next, phase, result, timeup>>

-----------------------------------------------------------------------------
(***************************************************************************)
(* Objects: a CPN_Product has the number of its RG node, its automaton     *)
(* state, and id and lowlink, which are 0 until Tarjan sets them.  Frames: *)
(* an activation has its pnode, where it is, the number of the edge it is  *)
(* at and, during a call, the node it called Tarjan on.                    *)
(***************************************************************************)
Object(r, b, id, low)  == [rg |-> r, ba |-> b, id |-> id, lowlink |-> low]
Frame(o, pc, edge, qs) == [obj |-> o, pc |-> pc, edge |-> edge, qs |-> qs]

Objects == [rg : Nat \ {0}, ba : BAStates, id : Nat, lowlink : Nat]
Frames  == [obj : Nat \ {0}, pc : {"enter", "loop", "call"}, edge : Nat, qs : Nat]

Last(s)  == s[Len(s)]
Front(s) == SubSeq(s, 1, Len(s) - 1)

Top == Last(frames)           \* the running activation
Node == obj[Top.obj]          \* its pnode

isLabel(m, b) == <<m, b>> \in sys.label

Same(o, r, b) == obj[o].rg = r /\ obj[o].ba = b

\* firenum = 0: no transition is fireable at the marking of RG node r.
Deadlock(r) == sys.succ[rgnodevec[r]] = <<>>

\* Slip: a deadlock has no successor, where the code lets it stutter.
FanoutNoStutter(r) == Len(sys.succ[rgnodevec[r]])

\* The edges the two (or three) nested loops of Tarjan go through: every arc
\* of the automaton state with every successor; a deadlock stutters.
Fanout(r) == IF Deadlock(r) THEN 1 ELSE Len(sys.succ[rgnodevec[r]])
NumEdges == Len(sys.arcs[Node.ba]) * Fanout(Node.rg)
Dest == sys.arcs[Node.ba][(Top.edge \div Fanout(Node.rg)) + 1]
Target == IF Deadlock(Node.rg)
            THEN rgnodevec[Node.rg]
            ELSE sys.succ[rgnodevec[Node.rg]][(Top.edge % Fanout(Node.rg)) + 1]

\* rg->nodeExist, else rg->addRGNode: the RG node r that stands for the
\* marking reached, rgnodevec growing by it if it is new.
FireTo(r) ==
  \/ /\ r \in DOMAIN rgnodevec
     /\ rgnodevec[r] = Target
     /\ UNCHANGED rgnodevec
  \/ /\ \A i \in DOMAIN rgnodevec : rgnodevec[i] # Target
     /\ r = Len(rgnodevec) + 1
     /\ rgnodevec' = Append(rgnodevec, Target)

\* cstack.search: p is the topmost position that holds the node <<r, b>>.
OnStackAt(p, r, b) ==
  /\ p \in DOMAIN cstack
  /\ Same(cstack[p], r, b)
  /\ \A q \in DOMAIN cstack : q > p => ~Same(cstack[q], r, b)

OnStack(r, b) == \E p \in DOMAIN cstack : Same(cstack[p], r, b)
Closed(r, b) == \E o \in h : Same(o, r, b)       \* h.search

\* Slip: a strict comparison.
AcceptingStrictlyAbove(id) == astack # <<>> /\ obj[Last(astack)].id > id

\* The highest open accepting node is not below position id.
AcceptingAbove(id) == astack # <<>> /\ obj[Last(astack)].id >= id

Smaller(x, y) == IF x < y THEN x ELSE y

\* Frame bookkeeping: the running activation continues, calls or returns.
Continue(f) == frames' = [frames EXCEPT ![Len(frames)] = f]
\* Slip: the iterators are not advanced.
SameEdge == Continue(Frame(Top.obj, "loop", Top.edge, 0))
NextEdge == Continue(Frame(Top.obj, "loop", Top.edge + 1, 0))
Call(qs) == frames' = Append([frames EXCEPT ![Len(frames)] =
                                Frame(Top.obj, "call", Top.edge, qs)],
                             Frame(qs, "enter", 0, 0))
Return == frames' = Front(frames)
-----------------------------------------------------------------------------
Init ==
  /\ sys \in Systems
  /\ rgnodevec = <<sys.init>>       \* RG::init
  /\ obj = <<>>
  /\ cstack = <<>>
  /\ astack = <<>>
  /\ h = {}
  /\ frames = <<>>
  /\ initial_status = <<>>
  /\ next = 1
  /\ phase = "init"
  /\ result = TRUE
  /\ timeup = FALSE

\* GetInitNode: one vertex of the automaton.
GetInitNode ==
  /\ phase = "init"
  /\ next \in DOMAIN sys.vertics
  /\ LET b == sys.vertics[next]
     IN  initial_status' = IF b \in sys.initial /\ isLabel(rgnodevec[1], b)
                             THEN Append(initial_status, b)
                             ELSE initial_status
  /\ next' = next + 1
  /\ UNCHANGED <<sys, rgnodevec, obj, cstack, astack, h, frames, phase,
                 result, timeup>>

\* Slip: the second loop starts at an index the list does not have.
StartSearchAtZero ==
  /\ phase = "init"
  /\ next \notin DOMAIN sys.vertics
  /\ phase' = "search"
  /\ next' = 0
  /\ UNCHANGED <<sys, rgnodevec, obj, cstack, astack, h, frames,
                 initial_status, result, timeup>>

StartSearch ==
  /\ phase = "init"
  /\ next \notin DOMAIN sys.vertics
  /\ phase' = "search"
  /\ next' = 1
  /\ UNCHANGED <<sys, rgnodevec, obj, cstack, astack, h, frames,
                 initial_status, result, timeup>>

\* GetProduct: the next initial product node is handed to Tarjan.
SearchFrom ==
  /\ phase = "search"
  /\ frames = <<>>
  /\ next \in DOMAIN initial_status
  /\ obj' = Append(obj, Object(1, initial_status[next], 0, 0))
  /\ frames' = <<Frame(Len(obj) + 1, "enter", 0, 0)>>
  /\ next' = next + 1
  /\ UNCHANGED <<sys, rgnodevec, cstack, astack, h, initial_status, phase,
                 result, timeup>>

Finish ==
  /\ phase = "search"
  /\ frames = <<>>
  /\ next \notin DOMAIN initial_status
  /\ phase' = "done"
  /\ UNCHANGED <<sys, rgnodevec, obj, cstack, astack, h, frames,
                 initial_status, next, result, timeup>>

Running(pc) == frames # <<>> /\ Top.pc = pc

\* The clock is read on entry only; once past MaxTime it stays past.
EnterTooLate ==
  /\ Running("enter")
  /\ timeup' = TRUE
  /\ Return
  /\ UNCHANGED <<sys, rgnodevec, obj, cstack, astack, h, initial_status,
                 next, phase, result>>

EnterDecided ==
  /\ Running("enter")
  /\ ~timeup
  /\ ~result
  /\ Return
  /\ UNCHANGED <<sys, rgnodevec, obj, cstack, astack, h, initial_status,
                 next, phase, result, timeup>>

\* The effect of entering pnode with this id and this lowlink.
EnterWith(id, low) ==
  /\ Running("enter")
  /\ ~timeup
  /\ result
  /\ obj' = [obj EXCEPT ![Top.obj] = Object(Node.rg, Node.ba, id, low)]
  /\ cstack' = IF Len(cstack) < CHASHSIZE THEN Append(cstack, Top.obj) ELSE cstack
  /\ astack' = IF Node.ba \in sys.accepted THEN Append(astack, Top.obj) ELSE astack
  /\ Continue(Frame(Top.obj, "loop", 0, 0))
  /\ UNCHANGED <<sys, rgnodevec, h, initial_status, next, phase, result, timeup>>

EnterNoLowlink == EnterWith(Len(cstack), 0)

\* CPstack::push fails silently when the stack is full.
Enter == EnterWith(Len(cstack), Len(cstack))

\* if(!result) return, at the head of every iteration.
LeaveDecided ==
  /\ Running("loop")
  /\ Top.edge < NumEdges
  /\ ~result
  /\ Return
  /\ UNCHANGED <<sys, rgnodevec, obj, cstack, astack, h, initial_status,
                 next, phase, result, timeup>>

Exploring == Running("loop") /\ Top.edge < NumEdges /\ result

\* The automaton state does not accept the marking reached.
SkipEdge ==
  /\ Exploring
  /\ \E r \in 1 .. Len(rgnodevec) + 1 : FireTo(r)
  /\ ~isLabel(Target, Dest)
  /\ NextEdge
  /\ UNCHANGED <<sys, obj, cstack, astack, h, initial_status, next, phase,
                 result, timeup>>

\* The node reached is open: lower lowlink, and a cycle through an open
\* accepting node at or above it refutes the formula.
CloseCycle ==
  /\ Exploring
  /\ isLabel(Target, Dest)
  /\ \E r \in 1 .. Len(rgnodevec) + 1 :
       /\ FireTo(r)
       /\ \E p \in DOMAIN cstack :
            /\ OnStackAt(p, r, Dest)
            /\ LET exist == obj[cstack[p]]
               IN  /\ obj' = [obj EXCEPT ![Top.obj].lowlink =
                                Smaller(@, exist.lowlink)]
                   /\ \/ /\ AcceptingAbove(exist.id)
                         /\ result' = FALSE
                         /\ Return
                      \/ /\ ~AcceptingAbove(exist.id)
                         /\ NextEdge
                         /\ UNCHANGED result
  /\ UNCHANGED <<sys, cstack, astack, h, initial_status, next, phase, timeup>>

\* The node reached is closed.
CrossEdge ==
  /\ Exploring
  /\ isLabel(Target, Dest)
  /\ \E r \in 1 .. Len(rgnodevec) + 1 :
       /\ FireTo(r)
       /\ ~OnStack(r, Dest)
       /\ Closed(r, Dest)
  /\ NextEdge
  /\ UNCHANGED <<sys, obj, cstack, astack, h, initial_status, next, phase,
                 result, timeup>>

\* The node reached is new: Tarjan(qs).
TreeEdge ==
  /\ Exploring
  /\ isLabel(Target, Dest)
  /\ \E r \in 1 .. Len(rgnodevec) + 1 :
       /\ FireTo(r)
       /\ ~OnStack(r, Dest)
       /\ ~Closed(r, Dest)
       /\ obj' = Append(obj, Object(r, Dest, 0, 0))
  /\ Call(Len(obj) + 1)
  /\ UNCHANGED <<sys, cstack, astack, h, initial_status, next, phase,
                 result, timeup>>

\* Back from Tarjan(qs).  A call that returned at once left lowlink 0.
AfterCall ==
  /\ Running("call")
  /\ obj' = [obj EXCEPT ![Top.obj].lowlink = Smaller(@, obj[Top.qs].lowlink)]
  /\ NextEdge
  /\ UNCHANGED <<sys, rgnodevec, cstack, astack, h, initial_status, next,
                 phase, result, timeup>>

Explored == Running("loop") /\ Top.edge >= NumEdges

\* pnode is not the root of its component: it stays open.
LeaveOpen ==
  /\ Explored
  /\ Node.lowlink # Node.id
  /\ Return
  /\ UNCHANGED <<sys, rgnodevec, obj, cstack, astack, h, initial_status,
                 next, phase, result, timeup>>

\* One round of the closing loop: pop cstack, pop astack if its top is the
\* same node, put the node into h and end if it was the last.
CloseRound(pops, last) ==
  /\ Explored
  /\ Node.lowlink = Node.id
  /\ cstack # <<>>
  /\ cstack' = Front(cstack)
  /\ astack' = IF pops THEN Front(astack) ELSE astack
  /\ h' = h \cup {Last(cstack)}
  /\ IF last THEN Return ELSE UNCHANGED frames
  /\ UNCHANGED <<sys, rgnodevec, obj, initial_status, next, phase, result, timeup>>

AcceptingOnTop == astack # <<>> /\ Last(astack) = Last(cstack)

CloseEverything  == CloseRound(AcceptingOnTop, Len(cstack) = 1)

\* pnode is a root: close the component, one node after the other, the last
\* one being pnode itself.
CloseOne == CloseRound(AcceptingOnTop, Last(cstack) = Top.obj)

Done == phase = "done" /\ UNCHANGED vars

Step ==
  \/ GetInitNode \/ StartSearch \/ SearchFrom \/ Finish
  \/ EnterTooLate \/ EnterDecided \/ Enter \/ LeaveDecided
  \/ SkipEdge \/ CloseCycle \/ CrossEdge \/ TreeEdge
  \/ AfterCall \/ LeaveOpen \/ CloseOne

Next == Step \/ Done

Spec == Init /\ [][Next]_vars

\* The program is one thread that runs until GetProduct returns.
FairSpec == Spec /\ WF_vars(Step)
-----------------------------------------------------------------------------
(***************************************************************************)
(* The product graph of an instance s, by definition.                      *)
(***************************************************************************)
ProductNodes == Markings \X BAStates

Entries(list) == {list[k] : k \in DOMAIN list}

SuccessorsIn(s, m) == IF s.succ[m] = <<>> THEN {m} ELSE Entries(s.succ[m])

PostIn(s, u) == (SuccessorsIn(s, u[1]) \X Entries(s.arcs[u[2]])) \cap s.label

\* The nodes reachable from the nodes S by any number of edges.
ReachableIn(s, S) ==
  LET longest == Cardinality(ProductNodes)
      within[d \in 0 .. longest] ==
        IF d = 0 THEN S ELSE within[d - 1] \cup UNION {PostIn(s, u) : u \in within[d - 1]}
  IN  within[longest]

Post(u) == PostIn(sys, u)
Reachable(S) == ReachableIn(sys, S)

InitialNodes == {<<sys.init, b>> : b \in {c \in sys.initial : isLabel(sys.init, c)}}

AcceptingCycleAt(u) == u[2] \in sys.accepted /\ u \in Reachable(Post(u))
AcceptingLassoFrom(S) == \E u \in Reachable(S) : AcceptingCycleAt(u)

NodeOf(o) == <<rgnodevec[obj[o].rg], obj[o].ba>>
-----------------------------------------------------------------------------
(***************************************************************************)
(* Invariants.                                                             *)
(***************************************************************************)
\* The variables hold what the C++ types and the comments on them promise.
TypeOK ==
  /\ sys \in Systems
  /\ rgnodevec \in Seq(Markings)
  /\ obj \in Seq(Objects)
  /\ cstack \in Seq(DOMAIN obj)
  /\ astack \in Seq(DOMAIN obj)
  /\ h \subseteq DOMAIN obj
  /\ frames \in Seq(Frames)
  /\ \A k \in DOMAIN frames : frames[k].obj \in DOMAIN obj
  /\ initial_status \in Seq(BAStates)
  /\ next \in Nat \ {0}
  /\ phase \in {"init", "search", "done"}
  /\ result \in BOOLEAN
  /\ timeup \in BOOLEAN

\* The activations of Tarjan past their push have their nodes open, caller
\* below callee, even after a timeout has broken off some of them.
CallersAreOpen ==
  /\ \A k \in DOMAIN frames : frames[k].pc # "enter" =>
       \E p \in DOMAIN cstack : cstack[p] = frames[k].obj
  /\ \A k, l \in DOMAIN frames : k < l /\ frames[l].pc # "enter" =>
       obj[frames[k].obj].id < obj[frames[l].obj].id

\* lowlink never claims too much: from an open node the node at position
\* lowlink is reachable, so that a node that stays open belongs to a component
\* whose root is below it.
LowlinkReaches ==
  ~timeup =>
    \A p \in DOMAIN cstack :
      LET o == obj[cstack[p]]
      IN  /\ o.lowlink <= o.id
          /\ NodeOf(cstack[o.lowlink + 1]) \in Reachable({NodeOf(cstack[p])})

\* CrossEdge may skip a closed node: no accepting cycle is reachable from it.
ClosedIsHarmless ==
  ~timeup /\ result => ~AcceptingLassoFrom({NodeOf(o) : o \in h})

\* The verdict printresult and GetResult give.  After a timeout CHECKLTL
\* reports "time out" and result is not looked at.
VerdictCorrect ==
  phase = "done" /\ ~timeup => (result <=> ~AcceptingLassoFrom(InitialNodes))

(***************************************************************************)
(* Liveness.                                                               *)
(***************************************************************************)
\* The search ends, for any instance and whenever the time runs out.
Terminates == <>(phase = "done")
=============================================================================

--------------------------- MODULE ProductProofs ---------------------------
(***************************************************************************)
(* What holds of Product for every instance and every capacity, proved.    *)
(***************************************************************************)
EXTENDS Product, FiniteSetTheorems, TLAPS

(***************************************************************************)
(* The strengthening that makes TypeOK inductive: the numbers that serve as*)
(* addresses (RG nodes in objects, callees in frames) are never dangling.  *)
(***************************************************************************)
NoDangling ==
  /\ rgnodevec # <<>>
  /\ \A o \in DOMAIN obj : obj[o].rg \in DOMAIN rgnodevec
  /\ \A k \in DOMAIN frames : frames[k].pc = "call" => frames[k].qs \in DOMAIN obj

TypeInv == TypeOK /\ NoDangling

\* The fields of the instance being searched.
LEMMA SystemFields ==
  ASSUME sys \in Systems
  PROVE  /\ sys.init \in Markings
         /\ sys.succ \in [Markings -> Seq(Markings)]
         /\ sys.arcs \in [BAStates -> Seq(BAStates)]
         /\ sys.vertics \in Seq(BAStates)
BY SystemsAssumption DEF SystemType

LEMMA InitType == Init => TypeInv
<1> SUFFICES ASSUME Init PROVE TypeInv
    OBVIOUS
<1> USE DEF Init
<1>1. rgnodevec \in Seq(Markings) /\ rgnodevec # <<>>
  BY SystemFields
<1>2. TypeOK
  <2>1. cstack \in Seq(DOMAIN obj) /\ astack \in Seq(DOMAIN obj)
    OBVIOUS
  <2>2. frames \in Seq(Frames) /\ \A k \in DOMAIN frames : frames[k].obj \in DOMAIN obj
    OBVIOUS
  <2>3. obj \in Seq(Objects) /\ initial_status \in Seq(BAStates)
    OBVIOUS
  <2>4. h \subseteq DOMAIN obj /\ next \in Nat \ {0}
    OBVIOUS
  <2> QED BY <1>1, <2>1, <2>2, <2>3, <2>4 DEF TypeOK
<1>3. NoDangling
  BY <1>1 DEF NoDangling
<1> QED BY <1>2, <1>3 DEF TypeInv

\* What Return and Continue do to the frames.
LEMMA ReturnType ==
  ASSUME TypeInv, frames # <<>>, Return
  PROVE  /\ frames' \in Seq(Frames)
         /\ \A k \in DOMAIN frames' : frames'[k] = frames[k] /\ k \in DOMAIN frames
BY DEF TypeInv, TypeOK, Return, Front

LEMMA ContinueType ==
  ASSUME TypeInv, frames # <<>>, NEW f \in Frames, Continue(f)
  PROVE  /\ frames' \in Seq(Frames)
         /\ DOMAIN frames' = DOMAIN frames
         /\ Len(frames) \in DOMAIN frames
         /\ frames'[Len(frames)] = f
         /\ \A k \in DOMAIN frames : k # Len(frames) => frames'[k] = frames[k]
BY DEF TypeInv, TypeOK, Continue

LEMMA TopType ==
  ASSUME TypeInv, frames # <<>>
  PROVE  /\ Len(frames) \in DOMAIN frames
         /\ Top \in Frames
         /\ Top = frames[Len(frames)]
         /\ Top.obj \in DOMAIN obj
         /\ Node \in Objects
         /\ Node.rg \in DOMAIN rgnodevec
BY DEF TypeInv, TypeOK, NoDangling, Top, Last, Node

\* The two loop counters of Tarjan, taken from the number of the edge.
LEMMA DivMod ==
  ASSUME NEW e \in Nat, NEW l \in Nat, NEW f \in Nat \ {0}, e < l * f
  PROVE  e \div f \in 0 .. l - 1 /\ e % f \in 0 .. f - 1
<1> DEFINE q == e \div f
<1>1. q \in Nat /\ e % f \in 0 .. f - 1 /\ e = q * f + (e % f)
  OBVIOUS
<1>2. q * f < l * f
  BY <1>1
<1>3. ASSUME q >= l PROVE FALSE
  <2>1. q - l \in Nat /\ q = l + (q - l)
    BY <1>1, <1>3
  <2>2. q * f = l * f + (q - l) * f
    BY <2>1, <1>1
  <2>3. (q - l) * f >= 0
    BY <2>1
  <2> QED BY <2>2, <2>3, <1>2, <1>1
<1> QED BY <1>1, <1>3

\* The edge an activation explores leads to an automaton state and a marking.
LEMMA EdgeType ==
  ASSUME TypeInv, Exploring
  PROVE  Dest \in BAStates /\ Target \in Markings
<1> DEFINE arcs == sys.arcs[Node.ba]
           succ == sys.succ[rgnodevec[Node.rg]]
<1>1. frames # <<>> /\ Top.edge < NumEdges
  BY DEF Exploring, Running
<1>2. Top.edge \in Nat /\ Node.ba \in BAStates /\ Node.rg \in DOMAIN rgnodevec
  BY <1>1, TopType DEF Frames, Objects
<1>3. rgnodevec[Node.rg] \in Markings
  BY <1>2 DEF TypeInv, TypeOK
<1>4. arcs \in Seq(BAStates) /\ succ \in Seq(Markings)
  BY <1>2, <1>3, SystemFields DEF TypeInv, TypeOK
<1>5. Fanout(Node.rg) \in Nat \ {0}
  BY <1>4 DEF Fanout, Deadlock
<1>6. /\ Top.edge \div Fanout(Node.rg) \in 0 .. Len(arcs) - 1
      /\ Top.edge % Fanout(Node.rg) \in 0 .. Fanout(Node.rg) - 1
  <2>1. Top.edge < Len(arcs) * Fanout(Node.rg) /\ Len(arcs) \in Nat
    BY <1>1, <1>4 DEF NumEdges
  <2> HIDE DEF arcs, succ
  <2> QED BY <1>2, <1>5, <2>1, DivMod
<1>7. Dest \in BAStates
  BY <1>4, <1>6 DEF Dest
<1>8. Target \in Markings
  BY <1>3, <1>4, <1>6 DEF Target, Fanout, Deadlock
<1> QED BY <1>7, <1>8

\* Firing keeps the RG nodes and yields the number of one of them.
LEMMA FireType ==
  ASSUME TypeInv, Exploring, NEW r \in 1 .. Len(rgnodevec) + 1, FireTo(r)
  PROVE  /\ rgnodevec' \in Seq(Markings)
         /\ rgnodevec' # <<>>
         /\ r \in DOMAIN rgnodevec'
         /\ DOMAIN rgnodevec \subseteq DOMAIN rgnodevec'
<1>1. rgnodevec \in Seq(Markings) /\ rgnodevec # <<>> /\ Target \in Markings
  BY EdgeType DEF TypeInv, TypeOK, NoDangling
<1> QED BY <1>1 DEF FireTo

(***************************************************************************)
(* One lemma per group of actions.  Those that return leave everything but *)
(* frames to the caller; those that go to the next edge stay in bounds.    *)
(***************************************************************************)
LEMMA ReturnKeeps ==
  ASSUME TypeInv, frames # <<>>, Return,
         UNCHANGED <<sys, rgnodevec, obj, cstack, astack, h, initial_status,
                     next, phase>>,
         result' \in BOOLEAN, timeup' \in BOOLEAN
  PROVE  TypeInv'
<1>1. /\ frames' \in Seq(Frames)
      /\ \A k \in DOMAIN frames' : frames'[k] = frames[k] /\ k \in DOMAIN frames
  BY ReturnType
<1>2. TypeOK'
  BY <1>1 DEF TypeInv, TypeOK
<1>3. NoDangling'
  BY <1>1 DEF TypeInv, NoDangling
<1> QED BY <1>2, <1>3 DEF TypeInv

LEMMA NextEdgeType ==
  ASSUME TypeInv, frames # <<>>, NextEdge
  PROVE  /\ frames' \in Seq(Frames)
         /\ \A k \in DOMAIN frames' : /\ k \in DOMAIN frames
                                      /\ frames'[k].obj = frames[k].obj
                                      /\ frames'[k].pc = "call" =>
                                           /\ frames[k].pc = "call"
                                           /\ frames'[k].qs = frames[k].qs
<1> DEFINE f == Frame(Top.obj, "loop", Top.edge + 1, 0)
<1>1. /\ f \in Frames /\ f.obj = Top.obj /\ f.pc = "loop"
      /\ Top = frames[Len(frames)]
  BY TopType DEF Frames, Frame
<1>2. Continue(f)
  BY DEF NextEdge
<1> HIDE DEF f
<1> QED BY <1>1, <1>2, ContinueType

\* Assigning the lowlink of an object.
LEMMA LowlinkType ==
  ASSUME TypeInv, NEW o \in DOMAIN obj, NEW low \in Nat,
         obj' = [obj EXCEPT ![o].lowlink = low]
  PROVE  /\ obj' \in Seq(Objects)
         /\ DOMAIN obj' = DOMAIN obj
         /\ \A q \in DOMAIN obj : /\ obj'[q].rg = obj[q].rg
                                  /\ obj'[q].ba = obj[q].ba
                                  /\ obj'[q].id = obj[q].id
<1>1. obj \in Seq(Objects) /\ obj[o] \in Objects
  BY DEF TypeInv, TypeOK
<1>2. [obj[o] EXCEPT !.lowlink = low] \in Objects
  <2> DEFINE x == obj[o]
  <2>1. x \in Objects
    BY <1>1
  <2> HIDE DEF x
  <2>2. [x EXCEPT !.lowlink = low] \in Objects
    BY <2>1 DEF Objects
  <2> QED BY <2>2 DEF x
<1>3. obj' = [obj EXCEPT ![o] = [obj[o] EXCEPT !.lowlink = low]]
  OBVIOUS
<1>4. obj' \in Seq(Objects) /\ DOMAIN obj' = DOMAIN obj
  BY <1>1, <1>2, <1>3
<1>5. \A q \in DOMAIN obj : q # o => obj'[q] = obj[q]
  BY <1>3
<1>6. obj'[o] = [obj[o] EXCEPT !.lowlink = low]
  BY <1>3
<1>7. obj'[o].rg = obj[o].rg /\ obj'[o].ba = obj[o].ba /\ obj'[o].id = obj[o].id
  BY <1>1, <1>6 DEF Objects
<1> QED BY <1>4, <1>5, <1>7

LEMMA AppendObjectType ==
  ASSUME TypeInv, NEW r \in Nat \ {0}, NEW b \in BAStates,
         obj' = Append(obj, Object(r, b, 0, 0))
  PROVE  /\ obj' \in Seq(Objects)
         /\ DOMAIN obj' = DOMAIN obj \cup {Len(obj) + 1}
         /\ Len(obj) + 1 \notin DOMAIN obj
         /\ obj'[Len(obj) + 1] = Object(r, b, 0, 0)
         /\ \A q \in DOMAIN obj : obj'[q] = obj[q]
<1>1. Object(r, b, 0, 0) \in Objects /\ obj \in Seq(Objects)
  BY DEF Object, Objects, TypeInv, TypeOK
<1> QED BY <1>1

LEMMA StepType == TypeInv /\ [Next]_vars => TypeInv'
<1> SUFFICES ASSUME TypeInv, [Next]_vars PROVE TypeInv'
    OBVIOUS
<1>1. CASE GetInitNode
  <2>1. next \in DOMAIN sys.vertics => sys.vertics[next] \in BAStates
    BY SystemFields DEF TypeInv, TypeOK
  <2>2. initial_status' \in Seq(BAStates)
    BY <1>1, <2>1 DEF GetInitNode, TypeInv, TypeOK
  <2> QED BY <1>1, <2>2 DEF GetInitNode, TypeInv, TypeOK, NoDangling
<1>2. CASE StartSearch \/ Finish \/ Done
  BY <1>2 DEF StartSearch, Finish, Done, vars, TypeInv, TypeOK, NoDangling
<1>3. CASE SearchFrom
  <2>1. initial_status[next] \in BAStates /\ Len(obj) + 1 \in Nat \ {0}
    BY <1>3 DEF SearchFrom, TypeInv, TypeOK
  <2>2. /\ obj' \in Seq(Objects)
        /\ DOMAIN obj' = DOMAIN obj \cup {Len(obj) + 1}
        /\ obj'[Len(obj) + 1].rg = 1
        /\ \A q \in DOMAIN obj : obj'[q] = obj[q]
    BY <1>3, <2>1, AppendObjectType DEF SearchFrom, Object
  <2>3. /\ frames' \in Seq(Frames)
        /\ \A k \in DOMAIN frames' : frames'[k].obj = Len(obj) + 1 /\ frames'[k].pc = "enter"
    BY <1>3, <2>1 DEF SearchFrom, Frame, Frames
  <2>4. 1 \in DOMAIN rgnodevec
    BY DEF TypeInv, TypeOK, NoDangling
  <2>5. TypeOK'
    BY <1>3, <2>2, <2>3 DEF SearchFrom, TypeInv, TypeOK
  <2>6. NoDangling'
    BY <1>3, <2>2, <2>3, <2>4 DEF SearchFrom, TypeInv, NoDangling
  <2> QED BY <2>5, <2>6 DEF TypeInv
<1>4. CASE EnterTooLate \/ EnterDecided \/ LeaveDecided \/ LeaveOpen
  <2>1. result' \in BOOLEAN /\ timeup' \in BOOLEAN
    BY <1>4 DEF EnterTooLate, EnterDecided, LeaveDecided, LeaveOpen, TypeInv, TypeOK
  <2> QED BY <1>4, <2>1, ReturnKeeps
          DEF EnterTooLate, EnterDecided, LeaveDecided, LeaveOpen, Running, Explored
<1>5. CASE Enter
  <2>1. frames # <<>>
    BY <1>5 DEF Enter, EnterWith, Running
  <2>2. /\ Top \in Frames /\ Top = frames[Len(frames)]
        /\ Top.obj \in DOMAIN obj /\ Node \in Objects /\ Node.rg \in DOMAIN rgnodevec
    BY <2>1, TopType
  <2>3. /\ cstack' \in Seq(DOMAIN obj)
        /\ astack' \in Seq(DOMAIN obj)
    <3>1. cstack \in Seq(DOMAIN obj) /\ astack \in Seq(DOMAIN obj)
      BY DEF TypeInv, TypeOK
    <3>2. Append(cstack, Top.obj) \in Seq(DOMAIN obj) /\ Append(astack, Top.obj) \in Seq(DOMAIN obj)
      BY <2>2, <3>1
    <3> QED BY <1>5, <3>1, <3>2 DEF Enter, EnterWith
  <2>4. Object(Node.rg, Node.ba, Len(cstack), Len(cstack)) \in Objects
    BY <2>2 DEF Object, Objects, TypeInv, TypeOK
  <2>5. /\ obj' \in Seq(Objects) /\ DOMAIN obj' = DOMAIN obj
        /\ \A q \in DOMAIN obj : obj'[q].rg = obj[q].rg
    <3>1. obj \in Seq(Objects)
      BY DEF TypeInv, TypeOK
    <3>2. Object(Node.rg, Node.ba, Len(cstack), Len(cstack)).rg = obj[Top.obj].rg
      BY DEF Object, Node
    <3> QED BY <1>5, <2>2, <2>4, <3>1, <3>2 DEF Enter, EnterWith
  <2>6. Frame(Top.obj, "loop", 0, 0) \in Frames
    BY <2>2 DEF Frame, Frames
  <2>7. /\ frames' \in Seq(Frames)
        /\ \A k \in DOMAIN frames' : k \in DOMAIN frames /\ frames'[k].obj = frames[k].obj
        /\ \A k \in DOMAIN frames' : frames'[k].pc = "call" => frames'[k] = frames[k]
    BY <1>5, <2>1, <2>2, <2>6, ContinueType DEF Enter, EnterWith, Frame
  <2>8. TypeOK'
    BY <1>5, <2>3, <2>5, <2>7 DEF Enter, EnterWith, TypeInv, TypeOK
  <2>9. NoDangling'
    BY <1>5, <2>5, <2>7 DEF Enter, EnterWith, TypeInv, NoDangling
  <2> QED BY <2>8, <2>9 DEF TypeInv
<1>6. CASE SkipEdge \/ CrossEdge
  <2>1. frames # <<>> /\ Exploring /\ NextEdge
    BY <1>6 DEF SkipEdge, CrossEdge, Exploring, Running
  <2>2. PICK r \in 1 .. Len(rgnodevec) + 1 : FireTo(r)
    BY <1>6 DEF SkipEdge, CrossEdge
  <2>3. /\ rgnodevec' \in Seq(Markings) /\ rgnodevec' # <<>>
        /\ DOMAIN rgnodevec \subseteq DOMAIN rgnodevec'
    BY <2>1, <2>2, FireType
  <2>4. UNCHANGED <<sys, obj, cstack, astack, h, initial_status, next, phase, result, timeup>>
    BY <1>6 DEF SkipEdge, CrossEdge
  <2>5. TypeOK'
    BY <2>1, <2>3, <2>4, NextEdgeType DEF TypeInv, TypeOK
  <2>6. NoDangling'
    BY <2>1, <2>3, <2>4, NextEdgeType DEF TypeInv, NoDangling
  <2> QED BY <2>5, <2>6 DEF TypeInv
<1>7. CASE CloseCycle
  <2>1. frames # <<>> /\ Exploring
    BY <1>7 DEF CloseCycle, Exploring, Running
  <2>2. PICK r \in 1 .. Len(rgnodevec) + 1, p \in DOMAIN cstack :
          /\ FireTo(r)
          /\ obj' = [obj EXCEPT ![Top.obj].lowlink = Smaller(@, obj[cstack[p]].lowlink)]
          /\ (result' = FALSE /\ Return) \/ (NextEdge /\ result' = result)
    BY <1>7 DEF CloseCycle
  <2>3. /\ rgnodevec' \in Seq(Markings) /\ rgnodevec' # <<>>
        /\ DOMAIN rgnodevec \subseteq DOMAIN rgnodevec'
    BY <2>1, <2>2, FireType
  <2>4. Smaller(Node.lowlink, obj[cstack[p]].lowlink) \in Nat /\ Top.obj \in DOMAIN obj
    <3>1. Node \in Objects /\ obj[cstack[p]] \in Objects /\ Top.obj \in DOMAIN obj
      BY <2>1, TopType DEF TypeInv, TypeOK
    <3> QED BY <3>1 DEF Smaller, Objects
  <2>5. /\ obj' \in Seq(Objects) /\ DOMAIN obj' = DOMAIN obj
        /\ \A q \in DOMAIN obj : obj'[q].rg = obj[q].rg
    BY <2>2, <2>4, LowlinkType DEF Node
  <2>6. /\ frames' \in Seq(Frames) /\ result' \in BOOLEAN
        /\ \A k \in DOMAIN frames' : /\ k \in DOMAIN frames
                                     /\ frames'[k].obj = frames[k].obj
                                     /\ frames'[k].pc = "call" =>
                                          /\ frames[k].pc = "call"
                                          /\ frames'[k].qs = frames[k].qs
    BY <2>1, <2>2, ReturnType, NextEdgeType DEF TypeInv, TypeOK
  <2>7. UNCHANGED <<sys, cstack, astack, h, initial_status, next, phase, timeup>>
    BY <1>7 DEF CloseCycle
  <2>8. TypeOK'
    BY <2>3, <2>5, <2>6, <2>7 DEF TypeInv, TypeOK
  <2>9. NoDangling'
    BY <2>3, <2>5, <2>6, <2>7 DEF TypeInv, NoDangling
  <2> QED BY <2>8, <2>9 DEF TypeInv
<1>8. CASE TreeEdge
  <2>1. frames # <<>> /\ Exploring /\ Dest \in BAStates
    BY <1>8, EdgeType DEF TreeEdge, Exploring, Running
  <2>2. PICK r \in 1 .. Len(rgnodevec) + 1 :
          FireTo(r) /\ obj' = Append(obj, Object(r, Dest, 0, 0))
    BY <1>8 DEF TreeEdge
  <2>3. /\ rgnodevec' \in Seq(Markings) /\ rgnodevec' # <<>> /\ r \in DOMAIN rgnodevec'
        /\ DOMAIN rgnodevec \subseteq DOMAIN rgnodevec'
    BY <2>1, <2>2, FireType
  <2>4. /\ obj' \in Seq(Objects)
        /\ DOMAIN obj' = DOMAIN obj \cup {Len(obj) + 1}
        /\ obj'[Len(obj) + 1].rg = r
        /\ \A q \in DOMAIN obj : obj'[q] = obj[q]
    BY <2>1, <2>2, AppendObjectType DEF Object
  <2>5. /\ Top \in Frames /\ Top = frames[Len(frames)] /\ Len(frames) \in DOMAIN frames
    BY <2>1, TopType
  <2>6. /\ Frame(Top.obj, "call", Top.edge, Len(obj) + 1) \in Frames
        /\ Frame(Len(obj) + 1, "enter", 0, 0) \in Frames
    BY <2>5 DEF Frame, Frames, TypeInv, TypeOK
  <2>7. /\ frames' \in Seq(Frames)
        /\ \A k \in DOMAIN frames' :
             \/ k \in DOMAIN frames /\ frames'[k] = frames[k]
             \/ frames'[k].obj = Top.obj /\ frames'[k].qs = Len(obj) + 1
             \/ frames'[k].obj = Len(obj) + 1 /\ frames'[k].pc = "enter"
    <3>1. frames' = Append([frames EXCEPT ![Len(frames)] =
                              Frame(Top.obj, "call", Top.edge, Len(obj) + 1)],
                           Frame(Len(obj) + 1, "enter", 0, 0))
      BY <1>8 DEF TreeEdge, Call
    <3>2. frames \in Seq(Frames)
      BY DEF TypeInv, TypeOK
    <3> QED BY <2>5, <2>6, <3>1, <3>2 DEF Frame
  <2>8. UNCHANGED <<sys, cstack, astack, h, initial_status, next, phase, result, timeup>>
    BY <1>8 DEF TreeEdge
  <2>9. TypeOK'
    <3>1. Top.obj \in DOMAIN obj /\ Seq(DOMAIN obj) \subseteq Seq(DOMAIN obj')
      BY <2>1, <2>4, TopType
    <3>2. \A k \in DOMAIN frames' : frames'[k].obj \in DOMAIN obj'
      BY <2>4, <2>7, <3>1 DEF TypeInv, TypeOK
    <3> QED BY <2>3, <2>4, <2>7, <2>8, <3>1, <3>2 DEF TypeInv, TypeOK
  <2>10. NoDangling'
    BY <2>3, <2>4, <2>7, <2>8 DEF TypeInv, NoDangling
  <2> QED BY <2>9, <2>10 DEF TypeInv
<1>9. CASE AfterCall
  <2>1. frames # <<>> /\ Top.pc = "call" /\ NextEdge
    BY <1>9 DEF AfterCall, Running
  <2>2. Top.qs \in DOMAIN obj /\ Top.obj \in DOMAIN obj
    BY <2>1, TopType DEF TypeInv, NoDangling
  <2>3. Smaller(Node.lowlink, obj[Top.qs].lowlink) \in Nat
    <3>1. Node \in Objects /\ obj[Top.qs] \in Objects
      BY <2>1, <2>2, TopType DEF TypeInv, TypeOK
    <3> QED BY <3>1 DEF Smaller, Objects
  <2>4. /\ obj' \in Seq(Objects) /\ DOMAIN obj' = DOMAIN obj
        /\ \A q \in DOMAIN obj : obj'[q].rg = obj[q].rg
    BY <1>9, <2>2, <2>3, LowlinkType DEF AfterCall, Node
  <2>5. TypeOK'
    BY <1>9, <2>1, <2>4, NextEdgeType DEF AfterCall, TypeInv, TypeOK
  <2>6. NoDangling'
    BY <1>9, <2>1, <2>4, NextEdgeType DEF AfterCall, TypeInv, NoDangling
  <2> QED BY <2>5, <2>6 DEF TypeInv
<1>10. CASE CloseOne
  <2>1. frames # <<>> /\ cstack # <<>> /\ (Return \/ frames' = frames)
    BY <1>10 DEF CloseOne, CloseRound, AcceptingOnTop, Explored, Running
  <2>2. cstack \in Seq(DOMAIN obj) /\ astack \in Seq(DOMAIN obj) /\ h \subseteq DOMAIN obj
    BY DEF TypeInv, TypeOK
  <2>3. /\ cstack' \in Seq(DOMAIN obj)
        /\ astack' \in Seq(DOMAIN obj)
        /\ h' \subseteq DOMAIN obj
    <3>1. Front(cstack) \in Seq(DOMAIN obj) /\ Last(cstack) \in DOMAIN obj
      BY <2>1, <2>2 DEF Front, Last
    <3>2. astack # <<>> => Front(astack) \in Seq(DOMAIN obj)
      BY <2>2 DEF Front
    <3> QED BY <1>10, <2>2, <3>1, <3>2 DEF CloseOne, CloseRound, AcceptingOnTop
  <2>4. /\ frames' \in Seq(Frames)
        /\ \A k \in DOMAIN frames' : frames'[k] = frames[k] /\ k \in DOMAIN frames
    BY <2>1, ReturnType DEF TypeInv, TypeOK
  <2>5. TypeOK'
    BY <1>10, <2>3, <2>4 DEF CloseOne, CloseRound, AcceptingOnTop, TypeInv, TypeOK
  <2>6. NoDangling'
    BY <1>10, <2>4 DEF CloseOne, CloseRound, AcceptingOnTop, TypeInv, NoDangling
  <2> QED BY <2>5, <2>6 DEF TypeInv
<1>11. CASE UNCHANGED vars
  BY <1>11 DEF vars, TypeInv, TypeOK, NoDangling
<1> QED
  BY <1>1, <1>2, <1>3, <1>4, <1>5, <1>6, <1>7, <1>8, <1>9, <1>10, <1>11 DEF Next, Step

(***************************************************************************)
(* Type correctness: no operation of the search leaves the domain of the   *)
(* variable it writes, and no address it keeps ever dangles.               *)
(***************************************************************************)
THEOREM TypeCorrect == Spec => []TypeOK
<1>1. TypeInv => TypeOK
  BY DEF TypeInv
<1> QED BY <1>1, InitType, StepType, PTL DEF Spec
-----------------------------------------------------------------------------
(***************************************************************************)
(* The stack of open nodes and the call stack of Tarjan stay in step.  The *)
(* argument needs that no push fails, so that the stack has room for every *)
(* product node, and the room is enough only because no node is pushed     *)
(* twice: an activation is started for a node that is not open, and the    *)
(* search from one initial node leaves no open node to the next one.       *)
(***************************************************************************)
RoomForAll ==
  /\ IsFiniteSet(Markings) /\ IsFiniteSet(BAStates)
  /\ CHASHSIZE >= Cardinality(Markings) * Cardinality(BAStates)

Live == ~timeup /\ result

RGNodesDiffer == \A i, j \in DOMAIN rgnodevec : rgnodevec[i] = rgnodevec[j] => i = j

IdIsPosition == \A p \in DOMAIN cstack : obj[cstack[p]].id = p - 1

OpenOnce ==
  \A p, q \in DOMAIN cstack :
    obj[cstack[p]].rg = obj[cstack[q]].rg /\ obj[cstack[p]].ba = obj[cstack[q]].ba => p = q

Suspended == \A k \in DOMAIN frames : k < Len(frames) => frames[k].pc = "call"

LowlinkBelow == \A o \in DOMAIN obj : obj[o].lowlink <= obj[o].id

RootAtBottom ==
  Live => IF frames = <<>> \/ frames[1].pc = "enter"
            THEN cstack = <<>>
            ELSE obj[frames[1].obj].id = 0

EnteringIsNew == Live /\ Running("enter") => ~OnStack(Node.rg, Node.ba)

StacksInv ==
  /\ TypeInv /\ RGNodesDiffer /\ IdIsPosition /\ OpenOnce /\ Suspended
  /\ CallersAreOpen /\ LowlinkBelow /\ RootAtBottom /\ EnteringIsNew

\* A node that is not open can still be pushed.
LEMMA RoomToPush ==
  ASSUME RoomForAll, StacksInv, NEW o \in DOMAIN obj, ~OnStack(obj[o].rg, obj[o].ba)
  PROVE  Len(cstack) < CHASHSIZE
<1> DEFINE n == Len(cstack)
           pair(x) == <<rgnodevec[obj[x].rg], obj[x].ba>>
           f == [p \in 1 .. n + 1 |-> IF p <= n THEN pair(cstack[p]) ELSE pair(o)]
           T == Markings \X BAStates
<1>1. n \in Nat /\ DOMAIN cstack = 1 .. n /\ \A p \in 1 .. n : cstack[p] \in DOMAIN obj
  BY DEF StacksInv, TypeInv, TypeOK
<1>2. \A x \in DOMAIN obj : pair(x) \in T
  <2>1. \A x \in DOMAIN obj : obj[x] \in Objects /\ obj[x].rg \in DOMAIN rgnodevec
    BY DEF StacksInv, TypeInv, TypeOK, NoDangling
  <2>2. \A r \in DOMAIN rgnodevec : rgnodevec[r] \in Markings
    BY DEF StacksInv, TypeInv, TypeOK
  <2> QED BY <2>1, <2>2 DEF Objects
<1>3. \A x, y \in DOMAIN obj : pair(x) = pair(y) => obj[x].rg = obj[y].rg /\ obj[x].ba = obj[y].ba
  <2>1. \A x \in DOMAIN obj : obj[x].rg \in DOMAIN rgnodevec
    BY DEF StacksInv, TypeInv, NoDangling
  <2> QED BY <2>1 DEF StacksInv, RGNodesDiffer
<1>4. \A p \in 1 .. n : pair(cstack[p]) # pair(o)
  BY <1>1, <1>3 DEF OnStack, Same
<1>5. \A p, q \in 1 .. n : pair(cstack[p]) = pair(cstack[q]) => p = q
  BY <1>1, <1>3 DEF StacksInv, OpenOnce
<1> HIDE DEF pair, T, n
<1>6. f \in [1 .. n + 1 -> T]
  BY <1>1, <1>2
<1>7. \A p, q \in 1 .. n + 1 : f[p] = f[q] => p = q
  <2> SUFFICES ASSUME NEW p \in 1 .. n + 1, NEW q \in 1 .. n + 1, f[p] = f[q] PROVE p = q
    OBVIOUS
  <2>1. CASE p <= n /\ q <= n
    BY <2>1, <1>1, <1>5
  <2>2. CASE p <= n /\ ~(q <= n)
    BY <2>2, <1>1, <1>4
  <2>3. CASE ~(p <= n) /\ q <= n
    BY <2>3, <1>1, <1>4
  <2>4. CASE ~(p <= n) /\ ~(q <= n)
    BY <2>4, <1>1
  <2> QED BY <2>1, <2>2, <2>3, <2>4
<1> HIDE DEF f
<1>8. IsFiniteSet(T) /\ Cardinality(T) = Cardinality(Markings) * Cardinality(BAStates)
  BY FS_Product DEF RoomForAll, T
<1>9. IsFiniteSet(1 .. n + 1) /\ Cardinality(1 .. n + 1) = n + 1
  BY <1>1, FS_Interval
<1>10. Cardinality(T) \in Nat
  BY <1>8, FS_CardinalityType
<1>11. ~(Cardinality(T) < Cardinality(1 .. n + 1))
  <2> DEFINE D == 1 .. n + 1
  <2>1. f \in [D -> T] /\ IsFiniteSet(D) /\ IsFiniteSet(T)
    BY <1>6, <1>8, <1>9
  <2>2. \A p, q \in D : f[p] = f[q] => p = q
    BY <1>7
  <2> HIDE DEF D
  <2>3. ~(Cardinality(T) < Cardinality(D))
    BY <2>1, <2>2, FS_PigeonHole
  <2> QED BY <2>3 DEF D
<1>12. Cardinality(T) <= CHASHSIZE
  BY <1>8 DEF RoomForAll
<1>13. n < CHASHSIZE
  BY <1>1, <1>9, <1>10, <1>11, <1>12, CapacityAssumption
<1> QED BY <1>13 DEF n

\* What stays when the stack does and the nodes keep their place and number.
LEMMA StackKept ==
  ASSUME StacksInv, cstack' = cstack, DOMAIN obj \subseteq DOMAIN obj',
         \A o \in DOMAIN obj : /\ obj'[o].rg = obj[o].rg /\ obj'[o].ba = obj[o].ba
                               /\ obj'[o].id = obj[o].id
  PROVE  IdIsPosition' /\ OpenOnce'
<1>1. \A p \in DOMAIN cstack : cstack[p] \in DOMAIN obj
  BY DEF StacksInv, TypeInv, TypeOK
<1> QED BY <1>1 DEF StacksInv, IdIsPosition, OpenOnce

\* A call returns: its caller waits in the loop of a call.
LEMMA ReturnStacks ==
  ASSUME StacksInv, frames # <<>>, Return, cstack' = cstack,
         DOMAIN obj \subseteq DOMAIN obj',
         \A o \in DOMAIN obj : obj'[o].id = obj[o].id
  PROVE  /\ Suspended' /\ CallersAreOpen' /\ ~Running("enter")'
         /\ Len(frames) > 1 => frames' # <<>> /\ frames'[1] = frames[1] /\ frames[1].pc = "call"
         /\ Len(frames) = 1 => frames' = <<>>
<1> DEFINE n == Len(frames)
<1>1. n \in Nat /\ n > 0 /\ DOMAIN frames = 1 .. n /\ frames \in Seq(Frames)
      /\ \A k \in 1 .. n : frames[k].obj \in DOMAIN obj
  BY DEF StacksInv, TypeInv, TypeOK
<1>2. DOMAIN frames' = 1 .. n - 1 /\ Len(frames') = n - 1
      /\ \A k \in 1 .. n - 1 : frames'[k] = frames[k]
  BY <1>1 DEF Return, Front
<1>3. \A k \in 1 .. n : k < n => frames[k].pc = "call"
  BY <1>1 DEF StacksInv, Suspended
<1> HIDE DEF n
<1>4. Suspended'
  BY <1>1, <1>2, <1>3 DEF Suspended
<1>5. CallersAreOpen'
  BY <1>1, <1>2 DEF StacksInv, CallersAreOpen
<1>6. ~Running("enter")'
  <2>1. CASE n = 1
    <3>1. frames' = <<>>
      BY <2>1, <1>1 DEF Return, Front, n
    <3> QED BY <3>1 DEF Running
  <2>2. CASE n > 1
    <3>1. Top' = frames'[n - 1]
      BY <1>2 DEF Top, Last
    <3>2. Top'.pc = "call"
      BY <2>2, <3>1, <1>1, <1>2, <1>3
    <3> QED BY <3>2 DEF Running
  <2> QED BY <2>1, <2>2, <1>1
<1>7. n > 1 => frames' # <<>> /\ frames'[1] = frames[1] /\ frames[1].pc = "call"
  BY <1>1, <1>2, <1>3
<1>8. n = 1 => frames' = <<>>
  BY <1>1 DEF Return, Front, n
<1> QED BY <1>4, <1>5, <1>6, <1>7, <1>8 DEF n

\* The running activation goes on to its next edge.
LEMMA NextEdgeStacks ==
  ASSUME StacksInv, frames # <<>>, Top.pc \in {"loop", "call"}, NextEdge, cstack' = cstack,
         DOMAIN obj \subseteq DOMAIN obj',
         \A o \in DOMAIN obj : obj'[o].id = obj[o].id,
         Live' => Live
  PROVE  Suspended' /\ CallersAreOpen' /\ RootAtBottom' /\ EnteringIsNew'
<1> DEFINE n == Len(frames)
<1>1. n \in Nat /\ n > 0 /\ DOMAIN frames = 1 .. n /\ frames \in Seq(Frames)
      /\ (\A k \in 1 .. n : frames[k].obj \in DOMAIN obj) /\ Top = frames[n]
  BY DEF StacksInv, TypeInv, TypeOK, Top, Last
<1>2. /\ DOMAIN frames' = 1 .. n /\ Len(frames') = n
      /\ frames'[n].pc = "loop" /\ frames'[n].obj = frames[n].obj
      /\ \A k \in 1 .. n - 1 : frames'[k] = frames[k]
  <2>1. frames' = [frames EXCEPT ![n] = Frame(Top.obj, "loop", Top.edge + 1, 0)]
    BY DEF NextEdge, Continue
  <2> QED BY <1>1, <2>1 DEF Frame
<1>3. \A k \in 1 .. n : k < n => frames[k].pc = "call"
  BY <1>1 DEF StacksInv, Suspended
<1> HIDE DEF n
<1>4. Suspended'
  BY <1>1, <1>2, <1>3 DEF Suspended
<1>5. \A k \in 1 .. n : frames'[k].obj = frames[k].obj /\ frames'[k].pc # "enter" /\ frames[k].pc # "enter"
  BY <1>1, <1>2, <1>3
<1>6. CallersAreOpen'
  <2>1. \A k \in 1 .. n : \E p \in DOMAIN cstack : cstack[p] = frames[k].obj
    BY <1>1, <1>5 DEF StacksInv, CallersAreOpen
  <2>2. \A k, l \in 1 .. n : k < l => obj[frames[k].obj].id < obj[frames[l].obj].id
    BY <1>1, <1>5 DEF StacksInv, CallersAreOpen
  <2>3. \A k, l \in 1 .. n : k < l => obj'[frames'[k].obj].id < obj'[frames'[l].obj].id
    BY <2>2, <1>1, <1>5
  <2> QED BY <2>1, <2>3, <1>2, <1>5 DEF CallersAreOpen
<1>7. RootAtBottom'
  <2>1. 1 \in 1 .. n /\ frames # <<>> /\ frames' # <<>>
    BY <1>1, <1>2
  <2>2. Live => obj[frames[1].obj].id = 0
    BY <2>1, <1>5 DEF StacksInv, RootAtBottom
  <2> QED BY <2>1, <2>2, <1>1, <1>5 DEF RootAtBottom
<1>8. EnteringIsNew'
  <2>1. Top' = frames'[n]
    BY <1>2 DEF Top, Last
  <2> QED BY <2>1, <1>2 DEF EnteringIsNew, Running
<1> QED BY <1>4, <1>6, <1>7, <1>8

\* Firing adds a marking that no RG node has.
LEMMA FireDiffers ==
  ASSUME StacksInv, Exploring, NEW r \in 1 .. Len(rgnodevec) + 1, FireTo(r)
  PROVE  RGNodesDiffer'
<1>1. rgnodevec \in Seq(Markings) /\ Target \in Markings
  BY EdgeType DEF StacksInv, TypeInv, TypeOK
<1>2. CASE rgnodevec' = rgnodevec
  BY <1>2 DEF StacksInv, RGNodesDiffer
<1>3. CASE /\ \A i \in DOMAIN rgnodevec : rgnodevec[i] # Target
           /\ rgnodevec' = Append(rgnodevec, Target)
  <2>1. /\ DOMAIN rgnodevec = 1 .. Len(rgnodevec) /\ Len(rgnodevec) \in Nat
        /\ DOMAIN rgnodevec' = 1 .. Len(rgnodevec) + 1
        /\ \A i \in 1 .. Len(rgnodevec) : rgnodevec'[i] = rgnodevec[i]
        /\ rgnodevec'[Len(rgnodevec) + 1] = Target
    BY <1>1, <1>3
  <2> QED BY <2>1, <1>3 DEF StacksInv, RGNodesDiffer
<1> QED BY <1>2, <1>3 DEF FireTo

\* A lowlink is only lowered.
LEMMA LowlinkLess ==
  ASSUME StacksInv, NEW o \in DOMAIN obj, NEW x \in Nat,
         obj' = [obj EXCEPT ![o].lowlink = Smaller(@, x)]
  PROVE  /\ DOMAIN obj' = DOMAIN obj
         /\ \A q \in DOMAIN obj : /\ obj'[q].rg = obj[q].rg /\ obj'[q].ba = obj[q].ba
                                  /\ obj'[q].id = obj[q].id
         /\ LowlinkBelow'
<1> DEFINE low == Smaller(obj[o].lowlink, x)
<1>1. obj \in Seq(Objects) /\ obj[o] \in Objects
  BY DEF StacksInv, TypeInv, TypeOK
<1>2. low \in Nat /\ low <= obj[o].lowlink
  BY <1>1 DEF Smaller, Objects
<1>3. obj' = [obj EXCEPT ![o].lowlink = low]
  OBVIOUS
<1>4. obj'[o] = [obj[o] EXCEPT !.lowlink = low]
  BY <1>1
<1> HIDE DEF low
<1>5. /\ DOMAIN obj' = DOMAIN obj
      /\ \A q \in DOMAIN obj : /\ obj'[q].rg = obj[q].rg /\ obj'[q].ba = obj[q].ba
                               /\ obj'[q].id = obj[q].id
  BY <1>2, <1>3, LowlinkType DEF StacksInv
<1>6. \A q \in DOMAIN obj : q # o => obj'[q] = obj[q]
  BY <1>3
<1>7. obj'[o].lowlink = low
  BY <1>1, <1>4 DEF Objects
<1>8. obj[o].lowlink <= obj[o].id /\ obj[o].lowlink \in Nat /\ obj[o].id \in Nat
  BY <1>1 DEF StacksInv, LowlinkBelow, Objects
<1>9. obj'[o].lowlink <= obj[o].id
  BY <1>2, <1>7, <1>8
<1>10. \A q \in DOMAIN obj : obj'[q].lowlink <= obj[q].id
  BY <1>6, <1>9 DEF StacksInv, LowlinkBelow
<1>11. LowlinkBelow'
  BY <1>5, <1>10 DEF LowlinkBelow
<1> QED BY <1>5, <1>11

\* A node opens: it goes on top, with its position for its number.
LEMMA EnterStacks == ASSUME RoomForAll, StacksInv, TypeInv', Enter PROVE StacksInv'
<1> DEFINE n == Len(frames)
           d == Len(cstack)
           o == Top.obj
<1>1. /\ n \in Nat /\ n > 0 /\ DOMAIN frames = 1 .. n /\ Top = frames[n]
      /\ (\A k \in 1 .. n : frames[k].obj \in DOMAIN obj)
      /\ d \in Nat /\ DOMAIN cstack = 1 .. d /\ (\A p \in 1 .. d : cstack[p] \in DOMAIN obj)
      /\ cstack \in Seq(DOMAIN obj) /\ obj \in Seq(Objects) /\ frames \in Seq(Frames)
      /\ Top.pc = "enter" /\ Live /\ o \in DOMAIN obj
  BY DEF StacksInv, TypeInv, TypeOK, Top, Last, Enter, EnterWith, Running, Live
<1>2. ~OnStack(obj[o].rg, obj[o].ba)
  BY <1>1 DEF StacksInv, EnteringIsNew, Enter, EnterWith, Node
<1>3. d < CHASHSIZE
  BY <1>1, <1>2, RoomToPush
<1>4. cstack' = Append(cstack, o) /\ obj' = [obj EXCEPT ![o] = Object(obj[o].rg, obj[o].ba, d, d)]
      /\ frames' = [frames EXCEPT ![n] = Frame(o, "loop", 0, 0)]
      /\ UNCHANGED <<rgnodevec, result, timeup>>
  BY <1>3 DEF Enter, EnterWith, Continue, Node
<1>5. /\ DOMAIN cstack' = 1 .. d + 1 /\ cstack'[d + 1] = o
      /\ \A p \in 1 .. d : cstack'[p] = cstack[p] /\ cstack'[p] # o
  <2>1. \A p \in 1 .. d : cstack[p] # o
    BY <1>1, <1>2 DEF OnStack, Same
  <2> QED BY <2>1, <1>1, <1>4
<1>6. /\ DOMAIN obj' = DOMAIN obj /\ \A q \in DOMAIN obj : q # o => obj'[q] = obj[q]
      /\ obj'[o].rg = obj[o].rg /\ obj'[o].ba = obj[o].ba /\ obj'[o].id = d /\ obj'[o].lowlink = d
  BY <1>1, <1>4 DEF Object
<1>7. /\ DOMAIN frames' = 1 .. n /\ Len(frames') = n
      /\ frames'[n].obj = o /\ frames'[n].pc = "loop"
      /\ \A k \in 1 .. n : k < n => frames'[k] = frames[k] /\ frames[k].pc = "call"
  <2>1. \A k \in 1 .. n : k < n => frames[k].pc = "call"
    BY <1>1 DEF StacksInv, Suspended
  <2> QED BY <2>1, <1>1, <1>4 DEF Frame
<1> HIDE DEF n, d, o
<1>8. \A k \in 1 .. n : k < n =>
        \E p \in 1 .. d : cstack[p] = frames[k].obj /\ obj[frames[k].obj].id = p - 1
  <2>1. \A k \in 1 .. n : k < n => \E p \in DOMAIN cstack : cstack[p] = frames[k].obj
    BY <1>1, <1>7 DEF StacksInv, CallersAreOpen
  <2>2. \A p \in DOMAIN cstack : obj[cstack[p]].id = p - 1
    BY DEF StacksInv, IdIsPosition
  <2> QED BY <2>1, <2>2, <1>1
<1>9. \A k \in 1 .. n : k < n =>
        frames[k].obj # o /\ obj'[frames[k].obj].id = obj[frames[k].obj].id
        /\ obj[frames[k].obj].id < d
  BY <1>1, <1>5, <1>6, <1>8
<1>10. RGNodesDiffer'
  BY <1>4 DEF StacksInv, RGNodesDiffer
<1>11. IdIsPosition'
  <2>1. \A p \in 1 .. d : obj[cstack[p]].id = p - 1
    BY <1>1 DEF StacksInv, IdIsPosition
  <2>2. \A p \in 1 .. d : obj'[cstack'[p]].id = p - 1
    BY <2>1, <1>1, <1>5, <1>6
  <2>3. \A p \in 1 .. d + 1 : p \in 1 .. d \/ p = d + 1
    BY <1>1
  <2>4. obj'[cstack'[d + 1]].id = (d + 1) - 1
    BY <1>1, <1>5, <1>6
  <2> QED BY <2>2, <2>3, <2>4, <1>5 DEF IdIsPosition
<1>12. OpenOnce'
  <2>1. \A p \in 1 .. d : /\ obj'[cstack'[p]].rg = obj[cstack[p]].rg
                          /\ obj'[cstack'[p]].ba = obj[cstack[p]].ba
                          /\ ~(obj[cstack[p]].rg = obj[o].rg /\ obj[cstack[p]].ba = obj[o].ba)
    BY <1>1, <1>2, <1>5, <1>6 DEF OnStack, Same
  <2>2. \A p \in 1 .. d + 1 : p \in 1 .. d \/ p = d + 1
    BY <1>1
  <2>3. \A p, q \in 1 .. d : obj[cstack[p]].rg = obj[cstack[q]].rg
                             /\ obj[cstack[p]].ba = obj[cstack[q]].ba => p = q
    BY <1>1 DEF StacksInv, OpenOnce
  <2>4. obj'[cstack'[d + 1]].rg = obj[o].rg /\ obj'[cstack'[d + 1]].ba = obj[o].ba
    BY <1>5, <1>6
  <2>5. ASSUME NEW p \in 1 .. d + 1, NEW q \in 1 .. d + 1,
               obj'[cstack'[p]].rg = obj'[cstack'[q]].rg, obj'[cstack'[p]].ba = obj'[cstack'[q]].ba
        PROVE  p = q
    <3>1. CASE p \in 1 .. d /\ q \in 1 .. d
      BY <3>1, <2>1, <2>3, <2>5
    <3>2. CASE p \in 1 .. d /\ q = d + 1
      BY <3>2, <2>1, <2>4, <2>5
    <3>3. CASE p = d + 1 /\ q \in 1 .. d
      BY <3>3, <2>1, <2>4, <2>5
    <3> QED BY <3>1, <3>2, <3>3, <2>2
  <2> QED BY <2>5, <1>5 DEF OpenOnce
<1>13. Suspended'
  BY <1>1, <1>7 DEF Suspended
<1>14. CallersAreOpen'
  <2>1. ASSUME NEW k \in 1 .. n
        PROVE  \E p \in DOMAIN cstack' : cstack'[p] = frames'[k].obj
    <3>1. CASE k = n
      BY <3>1, <1>1, <1>5, <1>7
    <3>2. CASE k < n
      <4>1. PICK p \in 1 .. d : cstack[p] = frames[k].obj
        BY <3>2, <1>8
      <4>2. p \in DOMAIN cstack' /\ cstack'[p] = frames'[k].obj
        BY <4>1, <3>2, <1>1, <1>5, <1>7
      <4> QED BY <4>2
    <3> QED BY <3>1, <3>2, <1>1
  <2>2. ASSUME NEW k \in 1 .. n, NEW l \in 1 .. n, k < l
        PROVE  obj'[frames'[k].obj].id < obj'[frames'[l].obj].id
    <3>1. CASE l = n
      BY <3>1, <2>2, <1>1, <1>6, <1>7, <1>9
    <3>2. CASE l # n
      <4>1. k < n /\ l < n
        BY <3>2, <2>2, <1>1
      <4>2. obj[frames[k].obj].id < obj[frames[l].obj].id
        BY <4>1, <2>2, <1>1, <1>7 DEF StacksInv, CallersAreOpen
      <4> QED BY <4>1, <4>2, <1>7, <1>9
    <3> QED BY <3>1, <3>2
  <2> QED BY <2>1, <2>2, <1>7 DEF CallersAreOpen
<1>15. LowlinkBelow'
  <2>1. \A q \in DOMAIN obj : q # o => obj'[q].lowlink <= obj'[q].id
    BY <1>6 DEF StacksInv, LowlinkBelow
  <2>2. obj'[o].lowlink <= obj'[o].id
    BY <1>1, <1>6
  <2> QED BY <2>1, <2>2, <1>6 DEF LowlinkBelow
<1>16. RootAtBottom'
  <2>1. frames' # <<>> /\ frames'[1].pc # "enter"
    BY <1>1, <1>7
  <2>2. obj'[frames'[1].obj].id = 0
    <3>1. CASE n = 1
      <4>1. cstack = <<>>
        BY <3>1, <1>1 DEF StacksInv, RootAtBottom
      <4>2. d = 0
        BY <4>1 DEF d
      <4> QED BY <3>1, <4>2, <1>6, <1>7
    <3>2. CASE n > 1
      <4>1. frames # <<>> /\ 1 \in 1 .. n /\ 1 < n
        BY <3>2, <1>1
      <4>2. obj[frames[1].obj].id = 0
        BY <4>1, <1>1, <1>7 DEF StacksInv, RootAtBottom
      <4> QED BY <4>1, <4>2, <1>7, <1>9
    <3> QED BY <3>1, <3>2, <1>1
  <2> QED BY <2>1, <2>2 DEF RootAtBottom
<1>17. EnteringIsNew'
  <2>1. Top' = frames'[n]
    BY <1>7 DEF Top, Last
  <2> QED BY <2>1, <1>7 DEF EnteringIsNew, Running
<1> QED BY <1>10, <1>11, <1>12, <1>13, <1>14, <1>15, <1>16, <1>17 DEF StacksInv

\* An activation is started for a node that is not open.
LEMMA TreeEdgeStacks == ASSUME StacksInv, TypeInv', TreeEdge PROVE StacksInv'
<1> DEFINE n == Len(frames)
           new == Len(obj) + 1
<1>1. /\ n \in Nat /\ n > 0 /\ DOMAIN frames = 1 .. n /\ Top = frames[n] /\ frames \in Seq(Frames)
      /\ (\A k \in 1 .. n : frames[k].obj \in DOMAIN obj)
      /\ (\A p \in DOMAIN cstack : cstack[p] \in DOMAIN obj)
      /\ Top.pc = "loop" /\ Exploring /\ Dest \in BAStates /\ obj \in Seq(Objects)
  BY EdgeType DEF StacksInv, TypeInv, TypeOK, Top, Last, TreeEdge, Exploring, Running
<1>2. PICK r \in 1 .. Len(rgnodevec) + 1 :
        FireTo(r) /\ ~OnStack(r, Dest) /\ obj' = Append(obj, Object(r, Dest, 0, 0))
  BY DEF TreeEdge
<1>3. /\ DOMAIN obj' = DOMAIN obj \cup {new} /\ new \notin DOMAIN obj
      /\ obj'[new] = Object(r, Dest, 0, 0)
      /\ \A q \in DOMAIN obj : obj'[q] = obj[q]
  BY <1>1, <1>2
<1>4. UNCHANGED <<cstack, result, timeup>>
  BY DEF TreeEdge
<1>5. /\ DOMAIN frames' = 1 .. n + 1 /\ Len(frames') = n + 1
      /\ frames'[n + 1] = Frame(new, "enter", 0, 0)
      /\ \A k \in 1 .. n : /\ frames'[k].obj = frames[k].obj
                           /\ frames'[k].pc = "call" /\ frames[k].pc # "enter"
  <2> DEFINE fs == [frames EXCEPT ![n] = Frame(Top.obj, "call", Top.edge, new)]
  <2>1. frames' = Append(fs, Frame(new, "enter", 0, 0))
    BY DEF TreeEdge, Call
  <2>2. \A k \in 1 .. n : k < n => frames[k].pc = "call"
    BY <1>1 DEF StacksInv, Suspended
  <2>3. \A k \in 1 .. n : /\ fs[k].obj = frames[k].obj
                          /\ fs[k].pc = "call" /\ frames[k].pc # "enter"
    BY <1>1, <2>2 DEF Frame
  <2>4. Frame(Top.obj, "call", Top.edge, new) \in Frames
    <3>1. Top \in Frames /\ new \in Nat
      BY <1>1, TopType DEF StacksInv
    <3> QED BY <3>1 DEF Frame, Frames
  <2>5. fs \in Seq(Frames) /\ Len(fs) = n
    BY <1>1, <2>4
  <2> HIDE DEF fs, n
  <2> QED BY <1>1, <2>1, <2>3, <2>5
<1> HIDE DEF n, new
<1>6. RGNodesDiffer'
  BY <1>1, <1>2, FireDiffers
<1>7. IdIsPosition' /\ OpenOnce'
  BY <1>3, <1>4, StackKept
<1>8. Suspended'
  BY <1>1, <1>5 DEF Suspended
<1>9. CallersAreOpen'
  <2>1. \A k \in 1 .. n : \E p \in DOMAIN cstack : cstack[p] = frames[k].obj
    BY <1>1, <1>5 DEF StacksInv, CallersAreOpen
  <2>2. \A k, l \in 1 .. n : k < l => obj'[frames'[k].obj].id < obj'[frames'[l].obj].id
    BY <1>1, <1>3, <1>5 DEF StacksInv, CallersAreOpen
  <2>3. \A k \in 1 .. n + 1 : frames'[k].pc # "enter" => k \in 1 .. n
    BY <1>1, <1>5 DEF Frame
  <2>4. \A k, l \in 1 .. n + 1 : k < l /\ l \in 1 .. n => k \in 1 .. n
    BY <1>1
  <2> QED BY <2>1, <2>2, <2>3, <2>4, <1>4, <1>5 DEF CallersAreOpen
<1>10. LowlinkBelow'
  BY <1>3 DEF StacksInv, LowlinkBelow, Object
<1>11. RootAtBottom'
  <2>1. 1 \in 1 .. n /\ frames # <<>> /\ frames' # <<>>
    BY <1>1, <1>5
  <2>2. Live => obj[frames[1].obj].id = 0
    BY <2>1, <1>5 DEF StacksInv, RootAtBottom
  <2> QED BY <2>1, <2>2, <1>1, <1>3, <1>4, <1>5 DEF RootAtBottom, Live
<1>12. EnteringIsNew'
  <2>1. Top' = Frame(new, "enter", 0, 0)
    BY <1>5 DEF Top, Last
  <2>2. Node' = Object(r, Dest, 0, 0)
    BY <2>1, <1>3 DEF Node, Frame
  <2>3. \A p \in DOMAIN cstack : ~(obj'[cstack[p]].rg = r /\ obj'[cstack[p]].ba = Dest)
    BY <1>1, <1>2, <1>3 DEF OnStack, Same
  <2> QED BY <2>2, <2>3, <1>4 DEF EnteringIsNew, OnStack, Same, Object
<1> QED BY <1>6, <1>7, <1>8, <1>9, <1>10, <1>11, <1>12 DEF StacksInv

\* Closing takes nodes from the top down to the node of the activation; its
\* callers lie below.
LEMMA CloseStacks == ASSUME StacksInv, TypeInv', CloseOne PROVE StacksInv'
<1> DEFINE n == Len(frames)
           d == Len(cstack)
           o == Top.obj
<1>1. /\ n \in Nat /\ n > 0 /\ DOMAIN frames = 1 .. n /\ Top = frames[n] /\ frames # <<>>
      /\ d \in Nat /\ d > 0 /\ DOMAIN cstack = 1 .. d
      /\ cstack \in Seq(DOMAIN obj) /\ Top.pc = "loop"
      /\ o = frames[n].obj
  BY DEF StacksInv, TypeInv, TypeOK, Top, Last, CloseOne, CloseRound, Explored, Running
<1>2. /\ cstack' = Front(cstack) /\ UNCHANGED <<rgnodevec, obj, result, timeup>>
      /\ \/ cstack[d] = o /\ Return
         \/ cstack[d] # o /\ frames' = frames
  BY DEF CloseOne, CloseRound, Last
<1>3. DOMAIN cstack' = 1 .. d - 1 /\ \A p \in 1 .. d - 1 : cstack'[p] = cstack[p]
      /\ (d = 1 => cstack' = <<>>)
  BY <1>1, <1>2 DEF Front
<1>4. \A k \in 1 .. n : frames[k].pc # "enter" /\ (k < n => frames[k].pc = "call")
  BY <1>1 DEF StacksInv, Suspended
<1> HIDE DEF n, d, o
<1>5. \A k \in 1 .. n : \E p \in 1 .. d : cstack[p] = frames[k].obj /\ obj[frames[k].obj].id = p - 1
  BY <1>1, <1>4 DEF StacksInv, CallersAreOpen, IdIsPosition
<1>6. \A k \in 1 .. n : k < n => obj[frames[k].obj].id < obj[o].id
  BY <1>1, <1>4 DEF StacksInv, CallersAreOpen
<1>7. PICK t \in 1 .. d : cstack[t] = o /\ obj[o].id = t - 1
  BY <1>1, <1>5
<1>8. \A k \in 1 .. n : k < n => \E p \in 1 .. d - 1 : cstack[p] = frames[k].obj
  <2> SUFFICES ASSUME NEW k \in 1 .. n, k < n
               PROVE  \E p \in 1 .. d - 1 : cstack[p] = frames[k].obj
    OBVIOUS
  <2>1. PICK p \in 1 .. d : cstack[p] = frames[k].obj /\ obj[frames[k].obj].id = p - 1
    BY <1>5
  <2>2. p < t
    BY <2>1, <1>6, <1>7, <1>1
  <2> QED BY <2>1, <2>2, <1>1
<1>9. RGNodesDiffer' /\ LowlinkBelow'
  BY <1>2 DEF StacksInv, RGNodesDiffer, LowlinkBelow
<1>10. \A p \in 1 .. d - 1 : p \in 1 .. d
  BY <1>1
<1>11. IdIsPosition'
  BY <1>1, <1>2, <1>3, <1>10 DEF StacksInv, IdIsPosition
<1>12. OpenOnce'
  BY <1>1, <1>2, <1>3, <1>10 DEF StacksInv, OpenOnce
<1>13. CASE cstack[d] # o /\ frames' = frames
  <2>1. t # d /\ t \in 1 .. d - 1
    BY <1>1, <1>7, <1>13
  <2>2. \A k \in 1 .. n : \E p \in 1 .. d - 1 : cstack[p] = frames[k].obj
    <3>1. \A k \in 1 .. n : k = n \/ k < n
      BY <1>1
    <3> QED BY <3>1, <2>1, <1>1, <1>7, <1>8
  <2>3. CallersAreOpen'
    <3>1. \A k, l \in 1 .. n : k < l => obj[frames[k].obj].id < obj[frames[l].obj].id
      BY <1>1, <1>4 DEF StacksInv, CallersAreOpen
    <3> QED BY <2>2, <3>1, <1>1, <1>2, <1>3, <1>13 DEF CallersAreOpen
  <2>4. Suspended'
    BY <1>13 DEF StacksInv, Suspended
  <2>5. RootAtBottom'
    <3>1. 1 \in 1 .. n
      BY <1>1
    <3>2. Live => obj[frames[1].obj].id = 0
      BY <3>1, <1>1, <1>4 DEF StacksInv, RootAtBottom
    <3> QED BY <3>1, <3>2, <1>1, <1>2, <1>4, <1>13 DEF RootAtBottom, Live
  <2>6. EnteringIsNew'
    <3>1. Top' = Top
      BY <1>13 DEF Top, Last
    <3> QED BY <3>1, <1>1 DEF EnteringIsNew, Running
  <2> QED BY <2>3, <2>4, <2>5, <2>6, <1>9, <1>11, <1>12 DEF StacksInv
<1>14. CASE cstack[d] = o /\ Return
  <2>1. t = d /\ obj[o].id = d - 1
    <3>1. obj[cstack[d]].id = d - 1
      BY <1>1 DEF StacksInv, IdIsPosition
    <3> QED BY <3>1, <1>1, <1>7, <1>14
  <2>2. /\ DOMAIN frames' = 1 .. n - 1 /\ Len(frames') = n - 1
        /\ \A k \in 1 .. n - 1 : frames'[k] = frames[k] /\ k \in 1 .. n /\ k < n
        /\ n = 1 => frames' = <<>>
    <3>1. frames \in Seq(Frames)
      BY DEF StacksInv, TypeInv, TypeOK
    <3> QED BY <3>1, <1>1, <1>14 DEF Return, Front, n
  <2>3. Suspended'
    BY <2>2, <1>4 DEF Suspended
  <2>4. CallersAreOpen'
    <3>1. \A k, l \in 1 .. n : k < l => obj[frames[k].obj].id < obj[frames[l].obj].id
      BY <1>1, <1>4 DEF StacksInv, CallersAreOpen
    <3>2. \A k \in 1 .. n - 1 : \E p \in 1 .. d - 1 : cstack[p] = frames[k].obj
      BY <2>2, <1>8
    <3> QED BY <3>1, <3>2, <2>2, <1>2, <1>3 DEF CallersAreOpen
  <2>5. RootAtBottom'
    <3>1. Live => obj[frames[1].obj].id = 0
      <4>1. 1 \in 1 .. n
        BY <1>1
      <4> QED BY <4>1, <1>1, <1>4 DEF StacksInv, RootAtBottom
    <3>2. CASE n = 1
      <4>1. Live => d = 1
        BY <3>1, <3>2, <2>1, <1>1
      <4> QED BY <4>1, <3>2, <2>2, <1>2, <1>3 DEF RootAtBottom, Live
    <3>3. CASE n > 1
      <4>1. 1 \in 1 .. n - 1
        BY <3>3, <1>1
      <4>2. frames' # <<>> /\ frames'[1] = frames[1] /\ frames[1].pc = "call"
        BY <4>1, <2>2, <1>4
      <4> QED BY <4>2, <3>1, <1>2 DEF RootAtBottom, Live
    <3> QED BY <3>2, <3>3, <1>1
  <2>6. EnteringIsNew'
    <3>1. CASE n = 1
      BY <3>1, <2>2 DEF EnteringIsNew, Running
    <3>2. CASE n > 1
      <4>1. n - 1 \in 1 .. n - 1 /\ Top' = frames'[n - 1]
        BY <3>2, <2>2, <1>1 DEF Top, Last
      <4>2. Top'.pc = "call"
        BY <4>1, <2>2, <1>4
      <4> QED BY <4>2 DEF EnteringIsNew, Running
    <3> QED BY <3>1, <3>2, <1>1
  <2> QED BY <2>3, <2>4, <2>5, <2>6, <1>9, <1>11, <1>12 DEF StacksInv
<1> QED BY <1>2, <1>13, <1>14

LEMMA NextStacks == ASSUME RoomForAll, StacksInv, TypeInv', [Next]_vars PROVE StacksInv'
<1>a. /\ obj \in Seq(Objects) /\ DOMAIN obj = 1 .. Len(obj)
      /\ \A p \in DOMAIN cstack : cstack[p] \in DOMAIN obj
  BY DEF StacksInv, TypeInv, TypeOK
<1>1. CASE Enter
  BY <1>1, EnterStacks
<1>2. CASE TreeEdge
  BY <1>2, TreeEdgeStacks
<1>3. CASE CloseOne
  BY <1>3, CloseStacks
<1>4. CASE GetInitNode \/ StartSearch \/ Finish \/ Done \/ UNCHANGED vars
  <2>1. UNCHANGED <<rgnodevec, obj, cstack, frames, result, timeup>>
    BY <1>4 DEF GetInitNode, StartSearch, Finish, Done, vars
  <2>2. RGNodesDiffer' /\ IdIsPosition' /\ OpenOnce' /\ Suspended' /\ LowlinkBelow'
    BY <2>1 DEF StacksInv, RGNodesDiffer, IdIsPosition, OpenOnce, Suspended, LowlinkBelow
  <2>3. CallersAreOpen' /\ RootAtBottom' /\ EnteringIsNew'
    BY <2>1 DEF StacksInv, CallersAreOpen, RootAtBottom, EnteringIsNew, Live, Running,
                Top, Last, Node, OnStack, Same
  <2> QED BY <2>2, <2>3 DEF StacksInv
<1>5. CASE SearchFrom
  <2> DEFINE new == Len(obj) + 1
  <2>1. /\ frames = <<>> /\ frames' = <<Frame(new, "enter", 0, 0)>>
        /\ obj' = Append(obj, Object(1, initial_status[next], 0, 0))
        /\ UNCHANGED <<rgnodevec, cstack, result, timeup>>
    BY <1>5 DEF SearchFrom
  <2>2. /\ DOMAIN obj' = DOMAIN obj \cup {new}
        /\ obj'[new] = Object(1, initial_status[next], 0, 0)
        /\ \A q \in DOMAIN obj : obj'[q] = obj[q]
    BY <2>1, <1>a
  <2> HIDE DEF new
  <2>3. IdIsPosition' /\ OpenOnce'
    BY <2>1, <2>2, StackKept
  <2>4. LowlinkBelow'
    BY <2>2 DEF StacksInv, LowlinkBelow, Object
  <2>5. /\ DOMAIN frames' = {1} /\ Len(frames') = 1
        /\ frames'[1].pc = "enter" /\ frames' # <<>>
    BY <2>1 DEF Frame
  <2>6. Suspended' /\ CallersAreOpen'
    BY <2>5 DEF Suspended, CallersAreOpen
  <2>7. Live => cstack = <<>>
    BY <2>1 DEF StacksInv, RootAtBottom
  <2>8. RootAtBottom' /\ EnteringIsNew'
    BY <2>1, <2>5, <2>7 DEF RootAtBottom, EnteringIsNew, Live, OnStack
  <2>9. RGNodesDiffer'
    BY <2>1 DEF StacksInv, RGNodesDiffer
  <2> QED BY <2>3, <2>4, <2>6, <2>8, <2>9 DEF StacksInv
<1>6. CASE EnterTooLate \/ EnterDecided \/ LeaveDecided \/ LeaveOpen
  <2>1. /\ frames # <<>> /\ Return /\ UNCHANGED <<rgnodevec, obj, cstack>>
        /\ Live' => LeaveOpen /\ Live
    BY <1>6 DEF EnterTooLate, EnterDecided, LeaveDecided, LeaveOpen, Running, Explored, Live
  <2>2. Suspended' /\ CallersAreOpen' /\ EnteringIsNew'
    BY <2>1, ReturnStacks DEF EnteringIsNew
  <2>3. IdIsPosition' /\ OpenOnce' /\ RGNodesDiffer' /\ LowlinkBelow'
    BY <2>1 DEF StacksInv, RGNodesDiffer, IdIsPosition, OpenOnce, LowlinkBelow
  <2>4. RootAtBottom'
    <3> SUFFICES ASSUME Live' PROVE RootAtBottom'
      BY DEF RootAtBottom
    <3>1. Live /\ Node.lowlink # Node.id /\ Top.pc = "loop" /\ Top = frames[Len(frames)]
      BY <2>1 DEF LeaveOpen, Explored, Running, Top, Last
    <3>2. Len(frames) = 1 \/ Len(frames) > 1
      <4>1. frames \in Seq(Frames)
        BY DEF StacksInv, TypeInv, TypeOK
      <4> DEFINE n == Len(frames)
      <4>2. n \in Nat /\ n # 0
        BY <4>1, <2>1
      <4> HIDE DEF n
      <4>3. n = 1 \/ n > 1
        BY <4>2
      <4> QED BY <4>3 DEF n
    <3>3. CASE Len(frames) = 1
      <4>1. obj[Top.obj].id = 0
        BY <3>1, <3>3, <2>1 DEF StacksInv, RootAtBottom
      <4>2. Top.obj \in DOMAIN obj /\ Node \in Objects
        BY <2>1, TopType DEF StacksInv
      <4>3. Node.lowlink <= 0 /\ Node.lowlink \in Nat /\ Node.id = 0
        BY <4>1, <4>2 DEF StacksInv, LowlinkBelow, Node, Objects
      <4> QED BY <4>3, <3>1
    <3>4. CASE Len(frames) > 1
      <4>1. frames' # <<>> /\ frames'[1] = frames[1] /\ frames[1].pc = "call"
        BY <3>4, <2>1, ReturnStacks
      <4>2. obj[frames[1].obj].id = 0
        BY <4>1, <3>1, <2>1 DEF StacksInv, RootAtBottom
      <4>3. frames'[1].pc # "enter" /\ obj'[frames'[1].obj].id = 0
        BY <4>1, <4>2, <2>1
      <4> QED BY <4>1, <4>3 DEF RootAtBottom
    <3> QED BY <3>2, <3>3, <3>4
  <2> QED BY <2>2, <2>3, <2>4 DEF StacksInv
<1>7. CASE SkipEdge \/ CrossEdge
  <2>1. /\ frames # <<>> /\ Top.pc = "loop" /\ NextEdge /\ Exploring
        /\ UNCHANGED <<obj, cstack, result, timeup>>
    BY <1>7 DEF SkipEdge, CrossEdge, Exploring, Running
  <2>2. RGNodesDiffer'
    BY <1>7, <2>1, FireDiffers DEF SkipEdge, CrossEdge
  <2>3. Suspended' /\ CallersAreOpen' /\ RootAtBottom' /\ EnteringIsNew'
    BY <2>1, NextEdgeStacks DEF Live
  <2>4. IdIsPosition' /\ OpenOnce' /\ LowlinkBelow'
    BY <2>1 DEF StacksInv, IdIsPosition, OpenOnce, LowlinkBelow
  <2> QED BY <2>2, <2>3, <2>4 DEF StacksInv
<1>8. CASE CloseCycle
  <2>1. frames # <<>> /\ Top.pc = "loop" /\ Exploring /\ result /\ UNCHANGED <<cstack, timeup>>
    BY <1>8 DEF CloseCycle, Exploring, Running
  <2>2. PICK r \in 1 .. Len(rgnodevec) + 1, p \in DOMAIN cstack :
          /\ FireTo(r)
          /\ obj' = [obj EXCEPT ![Top.obj].lowlink = Smaller(@, obj[cstack[p]].lowlink)]
          /\ (result' = FALSE /\ Return) \/ (NextEdge /\ result' = result)
    BY <1>8 DEF CloseCycle
  <2>3. Top.obj \in DOMAIN obj /\ obj[cstack[p]].lowlink \in Nat
    <3>1. Top.obj \in DOMAIN obj /\ obj[cstack[p]] \in Objects
      BY <2>1, <1>a, TopType DEF StacksInv
    <3> QED BY <3>1 DEF Objects
  <2>4. /\ DOMAIN obj' = DOMAIN obj /\ LowlinkBelow'
        /\ \A q \in DOMAIN obj : /\ obj'[q].rg = obj[q].rg /\ obj'[q].ba = obj[q].ba
                                 /\ obj'[q].id = obj[q].id
    BY <2>2, <2>3, LowlinkLess
  <2>5. RGNodesDiffer' /\ IdIsPosition' /\ OpenOnce'
    BY <2>1, <2>2, <2>4, FireDiffers, StackKept
  <2>6. CASE result' = FALSE /\ Return
    <3>1. Suspended' /\ CallersAreOpen' /\ EnteringIsNew'
      BY <2>1, <2>4, <2>6, ReturnStacks DEF EnteringIsNew
    <3>2. RootAtBottom'
      BY <2>6 DEF RootAtBottom, Live
    <3> QED BY <3>1, <3>2, <2>4, <2>5 DEF StacksInv
  <2>7. CASE NextEdge /\ result' = result
    <3>1. Suspended' /\ CallersAreOpen' /\ RootAtBottom' /\ EnteringIsNew'
      BY <2>1, <2>4, <2>7, NextEdgeStacks DEF Live
    <3> QED BY <3>1, <2>4, <2>5 DEF StacksInv
  <2> QED BY <2>2, <2>6, <2>7
<1>9. CASE AfterCall
  <2>1. /\ frames # <<>> /\ Top.pc = "call" /\ NextEdge
        /\ obj' = [obj EXCEPT ![Top.obj].lowlink = Smaller(@, obj[Top.qs].lowlink)]
        /\ UNCHANGED <<rgnodevec, cstack, result, timeup>>
    BY <1>9 DEF AfterCall, Running
  <2>2. Top.obj \in DOMAIN obj /\ obj[Top.qs].lowlink \in Nat
    <3>1. Top.obj \in DOMAIN obj /\ Top.qs \in DOMAIN obj
      BY <2>1, TopType DEF StacksInv, TypeInv, NoDangling
    <3>2. obj[Top.qs] \in Objects
      BY <3>1, <1>a
    <3> QED BY <3>1, <3>2 DEF Objects
  <2>3. /\ DOMAIN obj' = DOMAIN obj /\ LowlinkBelow'
        /\ \A q \in DOMAIN obj : /\ obj'[q].rg = obj[q].rg /\ obj'[q].ba = obj[q].ba
                                 /\ obj'[q].id = obj[q].id
    BY <2>1, <2>2, LowlinkLess
  <2>4. IdIsPosition' /\ OpenOnce'
    BY <2>1, <2>3, StackKept
  <2>5. Suspended' /\ CallersAreOpen' /\ RootAtBottom' /\ EnteringIsNew'
    BY <2>1, <2>3, NextEdgeStacks DEF Live
  <2>6. RGNodesDiffer'
    BY <2>1 DEF StacksInv, RGNodesDiffer
  <2> QED BY <2>3, <2>4, <2>5, <2>6 DEF StacksInv
<1> QED
  BY <1>1, <1>2, <1>3, <1>4, <1>5, <1>6, <1>7, <1>8, <1>9 DEF Next, Step

\* The search starts with every stack empty.
LEMMA InitStacks == Init => StacksInv
<1> SUFFICES ASSUME Init PROVE StacksInv
  OBVIOUS
<1>1. TypeInv
  BY InitType
<1>2. DOMAIN rgnodevec = {1} /\ DOMAIN cstack = {} /\ DOMAIN obj = {} /\ DOMAIN frames = {}
      /\ frames = <<>> /\ cstack = <<>>
  BY DEF Init
<1>3. RGNodesDiffer /\ IdIsPosition /\ OpenOnce /\ Suspended /\ LowlinkBelow
  BY <1>2 DEF RGNodesDiffer, IdIsPosition, OpenOnce, Suspended, LowlinkBelow
<1>4. CallersAreOpen /\ RootAtBottom /\ EnteringIsNew
  BY <1>2 DEF CallersAreOpen, RootAtBottom, EnteringIsNew, Running
<1> QED BY <1>1, <1>3, <1>4 DEF StacksInv

(***************************************************************************)
(* With room for every product node: whenever the search is broken off or  *)
(* goes on, every suspended activation has its node open, callers below    *)
(* callees.                                                                *)
(***************************************************************************)
THEOREM CallersStayOpen == ASSUME RoomForAll PROVE Spec => []CallersAreOpen
<1>1. StacksInv /\ [Next]_vars => StacksInv'
  <2>1. StacksInv => TypeInv
    BY DEF StacksInv
  <2> QED BY <2>1, StepType, NextStacks
<1>2. StacksInv => CallersAreOpen
  BY DEF StacksInv
<1> QED BY <1>1, <1>2, InitStacks, PTL DEF Spec
=============================================================================

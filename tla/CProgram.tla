------------------------------ MODULE CProgram ------------------------------
(***************************************************************************)
(* The syntax of the programs PUPER translates, as the syntax tree leaves  *)
(* it after preprocessing: numbered statements, each with its children,    *)
(* and the functions with the statements of their bodies.  The numbers are *)
(* those of the first traversal (CPN::Traverse_ST1), which visits a        *)
(* statement before its children.                                          *)
(*                                                                         *)
(* One tree holds several programs: each name in Mains is the main         *)
(* function of one of them.                                                *)
(***************************************************************************)
EXTENDS Integers, Sequences, FiniteSets, SequencesExt

CONSTANTS
  KindOf,       \* KindOf[n]: what kind of statement n is
  KidsOf,       \* KidsOf[n]: its children: the statements of a block, one or
                \* two branches of an if, the body of a loop, the statement
                \* of a label
  CallsOf,      \* CallsOf[n]: the user functions its expression calls, in
                \* the order in which the traversal meets them
  ArgOf,        \* ArgOf[n]: the operands of a pthread call
  StepOf,       \* StepOf[n]: for a while that the preprocessor made from a
                \* for, the statement its increment became, otherwise 0
  Body,         \* Body[f]: the statements of the compound of function f
  Mains,        \* the functions one of which is the main of the program run
  MainTid,      \* init_tid, the thread the program starts with
  Tids,         \* every thread identifier
  Initialised   \* mutexes declared with PTHREAD_MUTEX_INITIALIZER

Node  == DOMAIN KindOf
Funcs == DOMAIN Body

Jumps == {"return", "break", "continue"}
Calls == {"create", "join", "exit", "init", "lock", "unlock", "signal", "wait"}
Kinds == {"expr", "if", "while", "block", "label"} \cup Jumps \cup Calls

Kind(n)   == KindOf[n]
Kids(n)   == KidsOf[n]
Called(n) == CallsOf[n]
Arg(n)    == ArgOf[n]

(* A child is numbered after its parent, and has one parent or function;  *)
(* loops and labels have one child, an if has one or two.                  *)
ASSUME ProgramAssumption ==
  /\ KindOf \in Seq(Kinds) /\ IsFiniteSet(Funcs)
  /\ \A n \in Node : /\ Kids(n) \in Seq(Node) /\ \A k \in ToSet(Kids(n)) : k > n
                     /\ Kind(n) \in {"while", "label"} => Len(Kids(n)) = 1
                     /\ Kind(n) = "if" => Len(Kids(n)) \in {1, 2}
                     /\ Called(n) \in Seq(Funcs) /\ StepOf[n] \in Node \cup {0}
  /\ \A f \in Funcs : Body[f] \in Seq(Node)
  /\ \A n \in Node :
       Cardinality({m \in Node : n \in ToSet(Kids(m))})
         + Cardinality({f \in Funcs : n \in ToSet(Body[f])}) = 1
  /\ Mains \subseteq Funcs /\ MainTid \in Tids

(* A block with statements: delete_compound removes these. *)
Nested(n)  == Kind(n) = "block" /\ Kids(n) # <<>>
Branches(n) == Kind(n) \in {"if", "while"}

Parents      == [n \in Node |-> {m \in Node : n \in ToSet(Kids(m))}]
Parent(n)    == CHOOSE m \in Parents[n] : TRUE
HasParent(n) == Parents[n] # {}

(* The function a statement belongs to. *)
Func ==
  LET func[n \in Node] == IF HasParent(n) THEN func[Parent(n)]
                          ELSE CHOOSE f \in Funcs : n \in ToSet(Body[f])
  IN  [n \in Node |-> func[n]]

(* The loop a break or a continue belongs to. *)
Loop ==
  LET loop[n \in Node] == IF Kind(Parent(n)) = "while" THEN Parent(n) ELSE loop[Parent(n)]
  IN  [n \in {m \in Node : Kind(m) \in {"break", "continue"}} |-> loop[n]]

(***************************************************************************)
(* The transitions of the net, which also name the steps of the threads.   *)
(***************************************************************************)
BeginT(f)   == <<"begin", f>>
T(n)        == <<"T", n>>
T1(n)       == <<"true", n>>
T2(n)       == <<"false", n>>
CallT(n, i) == <<"call", n, i>>
WakeT(n)    == <<"wake", n>>       \* signalT1 of a pthread_cond_wait
RelockT(n)  == <<"relock", n>>     \* signalT2

Transitions ==
  {BeginT(f) : f \in Funcs}
    \cup {T(n) : n \in {m \in Node : ~Branches(m)}}
    \cup {T1(n) : n \in {m \in Node : Branches(m)}}
    \cup {T2(n) : n \in {m \in Node : Branches(m)}}
    \cup {WakeT(n) : n \in {m \in Node : Kind(m) = "wait"}}
    \cup {RelockT(n) : n \in {m \in Node : Kind(m) = "wait"}}
    \cup UNION {{CallT(n, i) : i \in DOMAIN Called(n)} : n \in Node}
=============================================================================

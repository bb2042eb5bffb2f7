------------------------------ MODULE DataNet ------------------------------
(***************************************************************************)
(* The data of a net against the memory of the program.  The threads run   *)
(* any of the statements in any order: only the data decides what fires.   *)
(* Each step fires a transition of a statement and executes the statement  *)
(* as C says, as long as C defines it and the values stay within MaxValue. *)
(***************************************************************************)
EXTENDS Firing

CONSTANTS
  Statements,       \* the statements
  MaxValue          \* bounds what is stored in a variable that is no pointer

C == INSTANCE CMemory

ASSUME MaxValueAssumption == MaxValue \in Nat

VARIABLES
  net,              \* the statements, each with its transitions
  marking,
  memory            \* of C
vars == <<net, marking, memory>>

\* The threads that run are those whose tokens lie in the one control place.
Runs == "run"
OneControl == <<<<Runs, "tid">>>>

Net ==
  [k \in DOMAIN Statements |->
    LET s == Statements[k]  ts == Transitions(s)
        post == IF s.k = "create" THEN Append(OneControl, <<Runs, s.tid>>) ELSE OneControl
    IN  [s |-> s, ts |-> [j \in DOMAIN ts |-> Constructed(<<k, j>>, OneControl, post, ts[j])]]]

Init ==
  /\ net = Net
  /\ marking = [control |-> [p \in {Runs} |-> SingleToken("main", 1)],
                data |-> [d \in DOMAIN Decls |-> init_place_MS(d, "main")]]
  /\ memory = C!Allocated(DOMAIN Decls, "main")

Running == Tokens(marking.control[Runs])

Bounded(mem) ==
  \A c \in DOMAIN mem.value : mem.value[c] \in 0..MaxValue \/ Decls[c[1]].pointer

Execute(k, tid) ==
  LET s == net[k].s
  IN  /\ s.k = "create" => tid = "main" /\ s.tid \notin Running
      /\ C!Defined(s, memory, tid)
      /\ memory' = C!Executed(s, memory, tid)
      /\ Bounded(memory')

Fire(k, tid) ==
  /\ Execute(k, tid)
  /\ \E j \in DOMAIN net[k].ts : \E b \in is_Fireable(net[k].ts[j], marking) :
       /\ b.tid = tid
       /\ marking' = Marking_after_fire(marking, net[k].ts[j], b)
  /\ UNCHANGED net

Next == \E k \in DOMAIN net : \E tid \in Running : Fire(k, tid)

Spec == Init /\ [][Next]_vars

-----------------------------------------------------------------------------
Stored(d, i, tid) ==
  LET v == Decls[d]
  IN  [data |-> [j \in DOMAIN Zeros(d) |->
                   memory.value[C!Cell(d, i, IF v.members = <<>> THEN "" ELSE v.members[j], tid)]],
       index |-> i, id |-> memory.at[C!Base(d, i, tid)], tid |-> C!Owner(d, tid)]

\* The places of the variables hold what C's memory holds, one token for
\* each cell of each thread and nothing else, after any sequence of
\* assignments, increments and accesses through pointers by any threads.
MemoryAsInC ==
  \A d \in DOMAIN Decls :
    LET held == {Stored(d, i, tid) : i \in Cells(d), tid \in Running}
    IN  marking.data[d] = [mapTokens |-> [t \in held |-> 1], color_count |-> Cardinality(held)]

\* Of the two transitions of a condition a thread can fire exactly the one
\* that C chooses.
BranchesAsInC ==
  \A k \in {n \in DOMAIN net : net[n].s.k = "if"} : \A tid \in Running :
    LET c == C!Eval(net[k].s.c, memory, tid)
    IN  c # C!Undefined =>
          \A j \in 1..2 : (tid \in {b.tid : b \in is_Fireable(net[k].ts[j], marking)}) <=> ((c # 0) = (j = 1))
=============================================================================

----------------------------- MODULE SearchStack -----------------------------
(***************************************************************************)
(* What CPN_Product_Automata expects of CPstack: a bounded stack of        *)
(* distinct product nodes in which the topmost node equal to a given one   *)
(* can be found.  Equality is that of product nodes (same RG node and same *)
(* automaton state), given by key; the nodes themselves are addresses.     *)
(***************************************************************************)
EXTENDS Integers, Sequences

CONSTANTS
  Nodes,     \* addresses of CPN_Product objects
  Keys,      \* pairs of an RG node and an automaton state
  key,       \* the pair an object stands for
  Capacity,  \* the number of entries of the arrays
  NULL       \* the null pointer

VARIABLES
  stack,     \* the open nodes, the top last
  query,     \* the key being searched for, NULL between searches
  answer     \* what the last operation returned

stackvars == <<stack, query, answer>>

On(n) == \E p \in DOMAIN stack : stack[p] = n

\* The topmost node that equals k, if there is one.
Topmost(k, n) ==
  \/ \E p \in DOMAIN stack :
       /\ stack[p] = n
       /\ key[n] = k
       /\ \A q \in DOMAIN stack : q > p => key[stack[q]] # k
  \/ n = NULL /\ \A q \in DOMAIN stack : key[stack[q]] # k

StackInit == stack = <<>> /\ query = NULL /\ answer = NULL

\* push returns OK (here TRUE) or, on a full stack, ERROR (here FALSE).
Push(n) ==
  /\ query = NULL /\ ~On(n)
  /\ IF Len(stack) < Capacity
       THEN stack' = Append(stack, n) /\ answer' = TRUE
       ELSE stack' = stack /\ answer' = FALSE
  /\ UNCHANGED query

Pop ==
  /\ query = NULL /\ stack # <<>>
  /\ answer' = stack[Len(stack)]
  /\ stack' = SubSeq(stack, 1, Len(stack) - 1)
  /\ UNCHANGED query

Ask(k) ==
  /\ query = NULL
  /\ query' = k
  /\ answer' = NULL
  /\ UNCHANGED stack

Answer ==
  /\ query # NULL
  /\ \E n \in Nodes \cup {NULL} : Topmost(query, n) /\ answer' = n
  /\ query' = NULL
  /\ UNCHANGED stack

Clear ==
  /\ query = NULL
  /\ stack' = <<>>
  /\ answer' = NULL
  /\ UNCHANGED query

StackNext ==
  \/ \E n \in Nodes : Push(n)
  \/ Pop
  \/ \E k \in Keys : Ask(k)
  \/ Answer
  \/ Clear

StackSpec == StackInit /\ [][StackNext]_stackvars
=============================================================================

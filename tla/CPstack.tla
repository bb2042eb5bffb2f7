------------------------------- MODULE CPstack -------------------------------
(***************************************************************************)
(* CPstack (product.cpp): the stack of open product nodes, an array with a *)
(* hash index threaded through it.  hashlink gives the position of the     *)
(* topmost node of every bucket and the stacknext field of a node the      *)
(* position of the next one below it in the same bucket.                   *)
(***************************************************************************)
EXTENDS Integers, Sequences

CONSTANTS
  Nodes,       \* addresses of CPN_Product objects
  Keys,        \* pairs of an RG node and an automaton state
  Buckets,     \* the values of hashfunction
  key,         \* the pair an object stands for
  bucketOf,    \* hashfunction: a function of the pair only
  CHASHSIZE,   \* the size of mydata
  UNREACHABLE, \* the index value that ends a chain (0xffffffff)
  NULL         \* the null pointer

ASSUME KeyAssumption == key \in [Nodes -> Keys]
ASSUME BucketAssumption == bucketOf \in [Keys -> Buckets]
ASSUME SizeAssumption == CHASHSIZE \in Nat /\ UNREACHABLE \notin 0 .. CHASHSIZE - 1
ASSUME NullAssumption == NULL \notin Nodes \cup Keys

VARIABLES
  mydata,      \* the array of pointers
  hashlink,    \* position of the topmost node of each bucket
  stacknext,   \* the field of the nodes
  toppoint,    \* number of nodes on the stack
  query,       \* the key search is walking a chain for, NULL outside search
  pos,         \* search's local pos
  answer       \* what the last operation returned

vars == <<mydata, hashlink, stacknext, toppoint, query, pos, answer>>

Slots == 0 .. CHASHSIZE - 1
Links == Slots \cup {UNREACHABLE}

hashfunction(n) == bucketOf[key[n]]

OnStack(n) == \E p \in 0 .. toppoint - 1 : mydata[p] = n
-----------------------------------------------------------------------------
Init ==
  /\ mydata = [p \in Slots |-> NULL]
  /\ hashlink = [b \in Buckets |-> UNREACHABLE]
  /\ stacknext \in [Nodes -> Links]     \* not initialized by CPN_Product
  /\ toppoint = 0
  /\ query = NULL
  /\ pos = UNREACHABLE
  /\ answer = NULL

\* Tarjan pushes a node it has just created, once.
Pushing(n) == query = NULL /\ ~OnStack(n)

PushFails(n) ==
  /\ Pushing(n)
  /\ toppoint >= CHASHSIZE
  /\ answer' = FALSE
  /\ UNCHANGED <<mydata, hashlink, stacknext, toppoint, query, pos>>

\* Slip: the new node cuts the chain of its bucket.
PushNoLink(n) ==
  /\ Pushing(n)
  /\ toppoint < CHASHSIZE
  /\ stacknext' = [stacknext EXCEPT ![n] = UNREACHABLE]
  /\ hashlink' = [hashlink EXCEPT ![hashfunction(n)] = toppoint]
  /\ mydata' = [mydata EXCEPT ![toppoint] = n]
  /\ toppoint' = toppoint + 1
  /\ answer' = TRUE
  /\ UNCHANGED <<query, pos>>

PushFits(n) ==
  /\ Pushing(n)
  /\ toppoint < CHASHSIZE
  /\ stacknext' = [stacknext EXCEPT ![n] = hashlink[hashfunction(n)]]
  /\ hashlink' = [hashlink EXCEPT ![hashfunction(n)] = toppoint]
  /\ mydata' = [mydata EXCEPT ![toppoint] = n]
  /\ toppoint' = toppoint + 1
  /\ answer' = TRUE
  /\ UNCHANGED <<query, pos>>

push(n) == PushFails(n) \/ PushFits(n)

\* Slip: the bucket of the node popped is emptied.
PopEmptiesBucket ==
  /\ query = NULL
  /\ toppoint > 0
  /\ LET popitem == mydata[toppoint - 1]
     IN  /\ hashlink' = [hashlink EXCEPT ![hashfunction(popitem)] = UNREACHABLE]
         /\ answer' = popitem
  /\ toppoint' = toppoint - 1
  /\ mydata' = [mydata EXCEPT ![toppoint - 1] = NULL]
  /\ UNCHANGED <<stacknext, query, pos>>

\* Tarjan pops down to a node it knows to be on the stack.
pop ==
  /\ query = NULL
  /\ toppoint > 0
  /\ LET popitem == mydata[toppoint - 1]
     IN  /\ hashlink' = [hashlink EXCEPT ![hashfunction(popitem)] = stacknext[popitem]]
         /\ answer' = popitem
  /\ toppoint' = toppoint - 1
  /\ mydata' = [mydata EXCEPT ![toppoint - 1] = NULL]
  /\ UNCHANGED <<stacknext, query, pos>>

SearchBegin(k) ==
  /\ query = NULL
  /\ query' = k
  /\ pos' = hashlink[bucketOf[k]]
  /\ answer' = NULL
  /\ UNCHANGED <<mydata, hashlink, stacknext, toppoint>>

\* Slip: pos is not advanced.
SearchStays ==
  /\ query # NULL
  /\ pos # UNREACHABLE
  /\ key[mydata[pos]] # query
  /\ pos' = pos
  /\ UNCHANGED <<mydata, hashlink, stacknext, toppoint, query, answer>>

\* One round of the loop of search: the node at pos is of another pair.
SearchOn ==
  /\ query # NULL
  /\ pos # UNREACHABLE
  /\ key[mydata[pos]] # query
  /\ pos' = stacknext[mydata[pos]]
  /\ UNCHANGED <<mydata, hashlink, stacknext, toppoint, query, answer>>

SearchHit ==
  /\ query # NULL
  /\ pos # UNREACHABLE
  /\ key[mydata[pos]] = query
  /\ answer' = mydata[pos]
  /\ query' = NULL
  /\ UNCHANGED <<mydata, hashlink, stacknext, toppoint, pos>>

SearchMiss ==
  /\ query # NULL
  /\ pos = UNREACHABLE
  /\ answer' = NULL
  /\ query' = NULL
  /\ UNCHANGED <<mydata, hashlink, stacknext, toppoint, pos>>

clear ==
  /\ query = NULL
  /\ toppoint' = 0
  /\ mydata' = [p \in Slots |-> NULL]
  /\ hashlink' = [b \in Buckets |-> UNREACHABLE]
  /\ answer' = NULL
  /\ UNCHANGED <<stacknext, query, pos>>

Search == SearchOn \/ SearchHit \/ SearchMiss

Next ==
  \/ \E n \in Nodes : push(n)
  \/ pop
  \/ \E k \in Keys : SearchBegin(k)
  \/ Search
  \/ clear

Spec == Init /\ [][Next]_vars

\* search is a loop of one thread: it goes on.
FairSpec == Spec /\ WF_vars(Search)
-----------------------------------------------------------------------------
TypeOK ==
  /\ mydata \in [Slots -> Nodes \cup {NULL}]
  /\ hashlink \in [Buckets -> Links]
  /\ stacknext \in [Nodes -> Links]
  /\ toppoint \in 0 .. CHASHSIZE
  /\ query \in Keys \cup {NULL}
  /\ pos \in Links

\* In the array data, link is the highest position below top whose node is in
\* bucket b, or UNREACHABLE if there is none.
LinksTo(data, b, top, link) ==
  IF link = UNREACHABLE
    THEN \A p \in 0 .. top - 1 : hashfunction(data[p]) # b
    ELSE /\ link \in 0 .. top - 1
         /\ hashfunction(data[link]) = b
         /\ \A p \in link + 1 .. top - 1 : hashfunction(data[p]) # b

\* The array holds distinct nodes below toppoint.
Occupied ==
  /\ \A p \in 0 .. toppoint - 1 : mydata[p] \in Nodes
  /\ \A p, q \in 0 .. toppoint - 1 : mydata[p] = mydata[q] => p = q

\* The index threads the array: hashlink leads to the topmost node of each
\* bucket, stacknext from each node to the next one below it in its bucket.
ChainsThread ==
  /\ \A b \in Buckets : LinksTo(mydata, b, toppoint, hashlink[b])
  /\ \A p \in 0 .. toppoint - 1 :
       LinksTo(mydata, hashfunction(mydata[p]), p, stacknext[mydata[p]])

\* While search walks a chain, it stays in the bucket of the pair it looks for
\* and no node above pos is of that pair.
Walked ==
  query # NULL =>
    /\ pos # UNREACHABLE =>
         pos \in 0 .. toppoint - 1 /\ hashfunction(mydata[pos]) = bucketOf[query]
    /\ \A p \in 0 .. toppoint - 1 :
         (pos = UNREACHABLE \/ p > pos) => key[mydata[p]] # query

\* The invariant that makes the index right, inductive as it stands.
IndexOK == TypeOK /\ Occupied /\ ChainsThread /\ Walked

\* The stack an index and an array stand for: CPstack implements SearchStack,
\* so that search finds the topmost equal node and push and pop are last in,
\* first out.
Stack == [i \in 1 .. toppoint |-> mydata[i - 1]]

Abs == INSTANCE SearchStack WITH stack <- Stack, Capacity <- CHASHSIZE

ImplementsStack == Abs!StackSpec

\* A walk along a chain ends.
SearchEnds == query # NULL ~> query = NULL
=============================================================================

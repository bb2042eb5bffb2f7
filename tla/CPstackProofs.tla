---------------------------- MODULE CPstackProofs ----------------------------
(***************************************************************************)
(* The hash index of CPstack is right for every capacity, every hash       *)
(* function and every number of nodes, and CPstack implements SearchStack. *)
(***************************************************************************)
EXTENDS CPstack, SequenceTheorems, TLAPS

\* The value that marks the end of a chain is no position.
LEMMA UnreachableIsNoSlot == UNREACHABLE \notin Slots /\ CHASHSIZE \in Nat
BY SizeAssumption DEF Slots

\* The bucket of a node is one of the buckets.
LEMMA HashInBuckets == \A n \in Nodes : hashfunction(n) \in Buckets /\ key[n] \in Keys
BY KeyAssumption, BucketAssumption DEF hashfunction

\* What a link means does not depend on the slots at and above top.
LEMMA LinksToFrame ==
  ASSUME NEW b, NEW top \in Nat, NEW link, NEW d1, NEW d2,
         LinksTo(d1, b, top, link),
         \A p \in 0 .. top - 1 : d2[p] = d1[p]
  PROVE  LinksTo(d2, b, top, link)
<1>1. CASE link = UNREACHABLE
  BY <1>1 DEF LinksTo
<1>2. CASE link # UNREACHABLE
  <2>1. link \in 0 .. top - 1 /\ \A p \in link + 1 .. top - 1 : p \in 0 .. top - 1
    BY <1>2 DEF LinksTo
  <2> QED BY <1>2, <2>1 DEF LinksTo
<1> QED BY <1>1, <1>2

\* A node put at top of another bucket is skipped by the links of bucket b.
LEMMA LinksToAbove ==
  ASSUME NEW b, NEW top \in Nat, NEW link, NEW d, hashfunction(d[top]) # b,
         LinksTo(d, b, top, link)
  PROVE  LinksTo(d, b, top + 1, link)
<1>1. \A p \in 0 .. (top + 1) - 1 : p = top \/ p \in 0 .. top - 1
  OBVIOUS
<1>2. CASE link = UNREACHABLE
  BY <1>1, <1>2 DEF LinksTo
<1>3. CASE link # UNREACHABLE
  <2>1. link \in 0 .. top - 1 /\ \A p \in link + 1 .. (top + 1) - 1 : p = top \/ p \in link + 1 .. top - 1
    BY <1>3 DEF LinksTo
  <2> QED BY <1>3, <2>1 DEF LinksTo
<1> QED BY <1>2, <1>3

\* The converse: a node of another bucket may be taken from the top.
LEMMA LinksToBelow ==
  ASSUME NEW b, NEW top \in Nat, NEW link, NEW d, hashfunction(d[top]) # b,
         LinksTo(d, b, top + 1, link)
  PROVE  LinksTo(d, b, top, link)
<1>1. CASE link = UNREACHABLE
  BY <1>1 DEF LinksTo
<1>2. CASE link # UNREACHABLE
  <2>1. link \in 0 .. top /\ hashfunction(d[link]) = b
    BY <1>2 DEF LinksTo
  <2>2. link \in 0 .. top - 1
    BY <2>1
  <2> QED BY <1>2, <2>2 DEF LinksTo
<1> QED BY <1>1, <1>2

\* The node at top is the one its bucket links to from the next position.
LEMMA LinksToTop ==
  ASSUME NEW b, NEW top \in Nat, NEW d, hashfunction(d[top]) = b, top # UNREACHABLE
  PROVE  LinksTo(d, b, top + 1, top)
BY DEF LinksTo

\* An empty stack.
LEMMA InitIndex == Init => IndexOK
<1> SUFFICES ASSUME Init PROVE IndexOK
  OBVIOUS
<1> USE DEF Init
<1>1. TypeOK
  BY SizeAssumption DEF TypeOK, Links
<1>2. Occupied
  BY DEF Occupied
<1>3. ChainsThread
  BY DEF ChainsThread, LinksTo
<1>4. Walked
  BY DEF Walked
<1> QED BY <1>1, <1>2, <1>3, <1>4 DEF IndexOK

\* push keeps the index right: the new node is the topmost of its bucket and
\* links to the node that was.
LEMMA PushIndex == ASSUME NEW n \in Nodes, IndexOK, PushFits(n) PROVE IndexOK'
<1>a. TypeOK /\ Occupied /\ ChainsThread
  BY DEF IndexOK
<1>b. PICK h \in Buckets : h = hashfunction(n)
  BY HashInBuckets
<1>c. toppoint \in Nat /\ toppoint < CHASHSIZE /\ toppoint \in Slots /\ toppoint' = toppoint + 1
  BY <1>a, UnreachableIsNoSlot DEF PushFits, TypeOK, Slots
<1>d. toppoint # UNREACHABLE
  BY <1>c, UnreachableIsNoSlot
<1>e. /\ mydata' = [mydata EXCEPT ![toppoint] = n]
      /\ hashlink' = [hashlink EXCEPT ![h] = toppoint]
      /\ stacknext' = [stacknext EXCEPT ![n] = hashlink[h]]
  BY <1>b DEF PushFits
<1>f. mydata'[toppoint] = n /\ \A p \in 0 .. toppoint - 1 : mydata'[p] = mydata[p]
  BY <1>a, <1>c, <1>e DEF TypeOK, Slots
<1>g. \A p \in 0 .. toppoint - 1 : mydata[p] # n
  BY DEF PushFits, Pushing, OnStack
<1>h. \A p \in 0 .. toppoint' - 1 : p = toppoint \/ p \in 0 .. toppoint - 1
  BY <1>c
<1>1. TypeOK'
  <2>1. toppoint \in Links /\ hashlink[h] \in Links /\ toppoint' \in 0 .. CHASHSIZE
    BY <1>a, <1>b, <1>c, UnreachableIsNoSlot DEF TypeOK, Links
  <2>2. mydata' \in [Slots -> Nodes \cup {NULL}]
    BY <1>a, <1>c, <1>e DEF TypeOK
  <2>3. hashlink' \in [Buckets -> Links] /\ stacknext' \in [Nodes -> Links]
    BY <2>1, <1>a, <1>e DEF TypeOK
  <2> QED BY <2>1, <2>2, <2>3, <1>a DEF TypeOK, PushFits
<1>2. Occupied'
  BY <1>a, <1>c, <1>f, <1>g, <1>h DEF Occupied
<1>3. ASSUME NEW b \in Buckets PROVE LinksTo(mydata', b, toppoint', hashlink'[b])
  <2>1. CASE b = h
    <3>1. hashlink'[b] = toppoint
      BY <2>1, <1>a, <1>b, <1>e DEF TypeOK
    <3> QED BY <3>1, <2>1, <1>b, <1>c, <1>d, <1>f, LinksToTop
  <2>2. CASE b # h
    <3>1. hashlink'[b] = hashlink[b]
      BY <2>2, <1>a, <1>b, <1>e DEF TypeOK
    <3>2. LinksTo(mydata', b, toppoint, hashlink[b])
      BY <1>a, <1>c, <1>f, LinksToFrame DEF ChainsThread
    <3> QED BY <3>1, <3>2, <2>2, <1>b, <1>c, <1>f, LinksToAbove
  <2> QED BY <2>1, <2>2
<1>4. ASSUME NEW p \in 0 .. toppoint' - 1
      PROVE  LinksTo(mydata', hashfunction(mydata'[p]), p, stacknext'[mydata'[p]])
  <2>1. CASE p = toppoint
    <3>1. stacknext'[n] = hashlink[h] /\ LinksTo(mydata, h, toppoint, hashlink[h])
      BY <1>a, <1>b, <1>e DEF TypeOK, ChainsThread
    <3>2. LinksTo(mydata', h, toppoint, hashlink[h])
      BY <1>c, <1>f, <3>1, LinksToFrame
    <3> QED BY <2>1, <3>1, <3>2, <1>b, <1>f
  <2>2. CASE p # toppoint
    <3>1. p \in 0 .. toppoint - 1 /\ p \in Nat
      BY <2>2, <1>c
    <3>2. mydata'[p] = mydata[p] /\ mydata[p] # n /\ mydata[p] \in Nodes
      BY <3>1, <1>a, <1>f, <1>g DEF Occupied
    <3>3. stacknext'[mydata[p]] = stacknext[mydata[p]]
      BY <3>2, <1>a, <1>e DEF TypeOK
    <3>4. LinksTo(mydata, hashfunction(mydata[p]), p, stacknext[mydata[p]])
      BY <3>1, <1>a DEF ChainsThread
    <3>5. \A q \in 0 .. p - 1 : mydata'[q] = mydata[q]
      BY <3>1, <1>c, <1>f
    <3> QED BY <3>1, <3>2, <3>3, <3>4, <3>5, LinksToFrame
  <2> QED BY <2>1, <2>2
<1>5. Walked'
  BY DEF PushFits, Pushing, Walked
<1> QED BY <1>1, <1>2, <1>3, <1>4, <1>5 DEF IndexOK, ChainsThread
\* pop keeps the index right: what the node popped linked to is now the
\* topmost of its bucket.
LEMMA PopIndex == ASSUME IndexOK, pop PROVE IndexOK'
<1>a. TypeOK /\ Occupied /\ ChainsThread
  BY DEF IndexOK
<1>b. PICK top \in Nat : top = toppoint - 1
  BY <1>a, UnreachableIsNoSlot DEF pop, TypeOK
<1>c. toppoint = top + 1 /\ toppoint' = top /\ top \in Slots /\ top < CHASHSIZE
      /\ top \in 0 .. toppoint - 1 /\ 0 .. top - 1 \subseteq 0 .. toppoint - 1
  BY <1>a, <1>b, UnreachableIsNoSlot DEF pop, TypeOK, Slots
<1>d. PICK n \in Nodes : n = mydata[top]
  BY <1>a, <1>c DEF Occupied
<1>e. PICK h \in Buckets : h = hashfunction(n)
  BY HashInBuckets
<1>f. /\ mydata' = [mydata EXCEPT ![top] = NULL]
      /\ hashlink' = [hashlink EXCEPT ![h] = stacknext[n]]
      /\ stacknext' = stacknext
  BY <1>b, <1>d, <1>e DEF pop
<1>g. \A p \in 0 .. top - 1 : mydata'[p] = mydata[p]
  BY <1>a, <1>c, <1>f DEF TypeOK, Slots
<1>1. TypeOK'
  <2>1. mydata' \in [Slots -> Nodes \cup {NULL}]
    BY <1>a, <1>c, <1>f DEF TypeOK
  <2>2. hashlink' \in [Buckets -> Links]
    BY <1>a, <1>f DEF TypeOK
  <2>3. toppoint' \in 0 .. CHASHSIZE
    BY <1>c, UnreachableIsNoSlot
  <2> QED BY <2>1, <2>2, <2>3, <1>a, <1>f DEF TypeOK, pop
<1>2. Occupied'
  BY <1>a, <1>c, <1>g DEF Occupied
<1>3. ASSUME NEW b \in Buckets PROVE LinksTo(mydata', b, toppoint', hashlink'[b])
  <2>1. CASE b = h
    <3>1. hashlink'[b] = stacknext[n]
      BY <2>1, <1>a, <1>f DEF TypeOK
    <3>2. LinksTo(mydata, b, top, stacknext[n])
      BY <2>1, <1>a, <1>c, <1>d, <1>e DEF ChainsThread
    <3> QED BY <3>1, <3>2, <1>c, <1>g, LinksToFrame
  <2>2. CASE b # h
    <3>1. hashlink'[b] = hashlink[b]
      BY <2>2, <1>a, <1>f DEF TypeOK
    <3>2. LinksTo(mydata, b, top, hashlink[b])
      BY <2>2, <1>a, <1>c, <1>d, <1>e, LinksToBelow DEF ChainsThread
    <3> QED BY <3>1, <3>2, <1>c, <1>g, LinksToFrame
  <2> QED BY <2>1, <2>2
<1>4. ASSUME NEW p \in 0 .. toppoint' - 1
      PROVE  LinksTo(mydata', hashfunction(mydata'[p]), p, stacknext'[mydata'[p]])
  <2>1. p \in Nat /\ p \in 0 .. toppoint - 1 /\ mydata'[p] = mydata[p]
        /\ \A q \in 0 .. p - 1 : mydata'[q] = mydata[q]
    BY <1>c, <1>g
  <2>2. LinksTo(mydata, hashfunction(mydata[p]), p, stacknext[mydata[p]])
    BY <2>1, <1>a DEF ChainsThread
  <2> QED BY <2>1, <2>2, <1>f, LinksToFrame
<1>5. Walked'
  BY DEF pop, Walked
<1> QED BY <1>1, <1>2, <1>3, <1>4, <1>5 DEF IndexOK, ChainsThread

\* search only moves pos: it starts at the topmost node of the bucket and the
\* nodes a link skips are of other buckets, so of other pairs.
LEMMA SearchIndex ==
  ASSUME IndexOK, (\E k \in Keys : SearchBegin(k)) \/ Search
  PROVE  IndexOK'
<1>a. TypeOK /\ Occupied /\ ChainsThread /\ Walked /\ toppoint \in Nat
  BY UnreachableIsNoSlot DEF IndexOK, TypeOK
<1>b. UNCHANGED <<mydata, hashlink, stacknext, toppoint>>
  BY DEF SearchBegin, Search, SearchOn, SearchHit, SearchMiss
<1>c. Occupied' /\ ChainsThread'
  BY <1>a, <1>b DEF Occupied, ChainsThread
<1>d. \A p \in 0 .. toppoint - 1 : mydata[p] \in Nodes
  BY <1>a DEF Occupied
<1>1. ASSUME NEW k \in Keys, SearchBegin(k) PROVE TypeOK' /\ Walked'
  <2>0. query' = k /\ pos' = hashlink[bucketOf[k]] /\ bucketOf[k] \in Buckets
    BY <1>1, BucketAssumption DEF SearchBegin
  <2>1. LinksTo(mydata, bucketOf[k], toppoint, pos') /\ pos' \in Links
    BY <2>0, <1>a DEF ChainsThread, TypeOK
  <2>2. TypeOK'
    BY <2>0, <2>1, <1>a, <1>b DEF TypeOK
  <2>3. pos' # UNREACHABLE =>
          pos' \in 0 .. toppoint - 1 /\ hashfunction(mydata[pos']) = bucketOf[k]
    BY <2>1 DEF LinksTo
  <2>4. ASSUME NEW p \in 0 .. toppoint - 1, pos' = UNREACHABLE \/ p > pos'
        PROVE  key[mydata[p]] # k
    <3>1. hashfunction(mydata[p]) # bucketOf[k]
      BY <2>1, <2>3, <2>4 DEF LinksTo
    <3> QED BY <3>1 DEF hashfunction
  <2> QED BY <2>0, <2>2, <2>3, <2>4, <1>b DEF Walked
<1>2. ASSUME SearchOn PROVE TypeOK' /\ Walked'
  <2>0. query' = query /\ query # NULL /\ pos # UNREACHABLE /\ pos' = stacknext[mydata[pos]]
        /\ key[mydata[pos]] # query
    BY <1>2 DEF SearchOn
  <2>1. pos \in 0 .. toppoint - 1 /\ mydata[pos] \in Nodes
        /\ hashfunction(mydata[pos]) = bucketOf[query]
    BY <2>0, <1>a, <1>d DEF Walked, TypeOK
  <2>2. LinksTo(mydata, hashfunction(mydata[pos]), pos, pos') /\ pos' \in Links
    BY <2>0, <2>1, <1>a DEF ChainsThread, TypeOK
  <2>3. TypeOK'
    BY <2>0, <2>2, <1>a, <1>b DEF TypeOK
  <2>4. pos' # UNREACHABLE => pos' \in 0 .. pos - 1
    BY <2>2 DEF LinksTo
  <2>5. pos' # UNREACHABLE =>
          pos' \in 0 .. toppoint - 1 /\ hashfunction(mydata[pos']) = bucketOf[query]
    BY <2>1, <2>2, <2>4, <1>a DEF LinksTo
  <2>6. ASSUME NEW p \in 0 .. toppoint - 1, pos' = UNREACHABLE \/ p > pos'
        PROVE  key[mydata[p]] # query
    <3>1. CASE p > pos
      BY <3>1, <2>0, <1>a DEF Walked
    <3>2. CASE p = pos
      BY <3>2, <2>0
    <3>3. CASE p < pos
      <4>1. hashfunction(mydata[p]) # hashfunction(mydata[pos])
        BY <3>3, <2>1, <2>2, <2>4, <2>6 DEF LinksTo
      <4> QED BY <4>1, <2>1 DEF hashfunction
    <3> QED BY <3>1, <3>2, <3>3, <2>1
  <2> QED BY <2>0, <2>3, <2>5, <2>6, <1>b DEF Walked
<1>3. ASSUME SearchHit \/ SearchMiss PROVE TypeOK' /\ Walked'
  <2>1. query' = NULL /\ pos' = pos
    BY <1>3 DEF SearchHit, SearchMiss
  <2> QED BY <2>1, <1>a, <1>b DEF TypeOK, Walked
<1> QED BY <1>1, <1>2, <1>3, <1>c DEF IndexOK, Search
\* clear empties the index with the array.
LEMMA ClearIndex == ASSUME IndexOK, clear PROVE IndexOK'
<1>1. TypeOK'
  BY UnreachableIsNoSlot DEF IndexOK, TypeOK, clear, Links
<1>2. Occupied' /\ Walked'
  BY DEF clear, Occupied, Walked
<1>3. ChainsThread'
  BY DEF clear, ChainsThread, LinksTo
<1> QED BY <1>1, <1>2, <1>3 DEF IndexOK

\* A step that leaves the variables of the index alone.
LEMMA FrameIndex ==
  ASSUME IndexOK, UNCHANGED <<mydata, hashlink, stacknext, toppoint, query, pos>>
  PROVE  IndexOK'
BY DEF IndexOK, TypeOK, Occupied, ChainsThread, Walked

LEMMA NextIndex == IndexOK /\ [Next]_vars => IndexOK'
<1> SUFFICES ASSUME IndexOK, [Next]_vars PROVE IndexOK'
  OBVIOUS
<1>1. ASSUME NEW n \in Nodes, push(n) PROVE IndexOK'
  BY <1>1, PushIndex, FrameIndex DEF push, PushFails
<1>2. CASE pop
  BY <1>2, PopIndex
<1>3. CASE (\E k \in Keys : SearchBegin(k)) \/ Search
  BY <1>3, SearchIndex
<1>4. CASE clear
  BY <1>4, ClearIndex
<1>5. CASE UNCHANGED vars
  BY <1>5, FrameIndex DEF vars
<1> QED BY <1>1, <1>2, <1>3, <1>4, <1>5 DEF Next

\* The index of CPstack always threads the array, and a search has always
\* passed over nodes of other pairs only.
THEOREM IndexCorrect == Spec => []IndexOK
<1>1. Init => IndexOK
  BY InitIndex
<1>2. IndexOK /\ [Next]_vars => IndexOK'
  BY NextIndex
<1> QED BY <1>1, <1>2, PTL DEF Spec
-----------------------------------------------------------------------------
\* The abstract stack has its length and its entries from the array.
LEMMA StackFacts ==
  ASSUME IndexOK
  PROVE  /\ Stack \in Seq(Nodes)
         /\ Len(Stack) = toppoint
         /\ DOMAIN Stack = 1 .. toppoint
         /\ toppoint \in Nat
         /\ \A i \in 1 .. toppoint : Stack[i] = mydata[i - 1]
<1>1. toppoint \in Nat /\ \A i \in 1 .. toppoint : mydata[i - 1] \in Nodes
  BY UnreachableIsNoSlot DEF IndexOK, TypeOK, Occupied
<1> QED BY <1>1 DEF Stack

\* The stack of the refinement and the array agree on what is open.
LEMMA OnIsOnStack == ASSUME IndexOK, NEW n PROVE Abs!On(n) <=> OnStack(n)
<1>1. \A i \in 1 .. toppoint : i - 1 \in 0 .. toppoint - 1
  BY StackFacts
<1>2. \A p \in 0 .. toppoint - 1 : p + 1 \in 1 .. toppoint /\ (p + 1) - 1 = p
  BY StackFacts
<1> QED BY <1>1, <1>2, StackFacts DEF Abs!On, OnStack

\* A successful push appends to the abstract stack.
LEMMA PushStack == ASSUME NEW n \in Nodes, IndexOK, PushFits(n)
                   PROVE  Stack' = Append(Stack, n)
<1>a. toppoint \in Slots /\ mydata \in [Slots -> Nodes \cup {NULL}] /\ toppoint' = toppoint + 1
      /\ mydata' = [mydata EXCEPT ![toppoint] = n]
  BY UnreachableIsNoSlot DEF IndexOK, TypeOK, PushFits, Slots
<1>b. mydata'[toppoint] = n /\ \A p \in 0 .. toppoint - 1 : mydata'[p] = mydata[p]
  BY <1>a DEF Slots
<1>1. Stack' \in Seq(Nodes) /\ Len(Stack') = toppoint + 1
      /\ \A i \in 1 .. toppoint + 1 : Stack'[i] = mydata'[i - 1]
  <2>1. toppoint' \in Nat /\ \A p \in 0 .. toppoint' - 1 : mydata'[p] \in Nodes
    BY PushIndex, UnreachableIsNoSlot DEF IndexOK, TypeOK, Occupied
  <2> QED BY <2>1, <1>a DEF Stack
<1>2. Append(Stack, n) \in Seq(Nodes) /\ Len(Append(Stack, n)) = toppoint + 1
      /\ \A i \in 1 .. toppoint + 1 :
           Append(Stack, n)[i] = IF i = toppoint + 1 THEN n ELSE Stack[i]
  BY StackFacts
<1>3. ASSUME NEW i \in 1 .. toppoint + 1
      PROVE  mydata'[i - 1] = IF i = toppoint + 1 THEN n ELSE Stack[i]
  <2>1. CASE i = toppoint + 1
    BY <2>1, <1>b, StackFacts
  <2>2. CASE i # toppoint + 1
    <3>1. i \in 1 .. toppoint /\ i - 1 \in 0 .. toppoint - 1
      BY <2>2, StackFacts
    <3> QED BY <3>1, <2>2, <1>b, StackFacts
  <2> QED BY <2>1, <2>2
<1> QED BY <1>1, <1>2, <1>3, SeqEqual

\* A pop takes the last node from the abstract stack.
LEMMA PopStack == ASSUME IndexOK, pop
                  PROVE  /\ Stack # <<>>
                         /\ answer' = Stack[Len(Stack)]
                         /\ Stack' = SubSeq(Stack, 1, Len(Stack) - 1)
<1>a. toppoint \in Nat /\ toppoint > 0 /\ toppoint \in 0 .. CHASHSIZE
      /\ mydata \in [Slots -> Nodes \cup {NULL}] /\ toppoint' = toppoint - 1
      /\ mydata' = [mydata EXCEPT ![toppoint - 1] = NULL] /\ answer' = mydata[toppoint - 1]
  BY UnreachableIsNoSlot DEF IndexOK, TypeOK, pop
<1>b. \A p \in 0 .. toppoint - 2 : mydata'[p] = mydata[p]
  BY <1>a, UnreachableIsNoSlot DEF Slots
<1>1. Stack # <<>> /\ answer' = Stack[Len(Stack)]
  BY <1>a, StackFacts
<1>2. Stack' = [i \in 1 .. toppoint - 1 |-> mydata'[i - 1]]
  BY <1>a DEF Stack
<1>3. SubSeq(Stack, 1, Len(Stack) - 1) = [i \in 1 .. toppoint - 1 |-> Stack[i]]
  BY <1>a, StackFacts
<1>4. ASSUME NEW i \in 1 .. toppoint - 1 PROVE mydata'[i - 1] = Stack[i]
  <2>1. i \in 1 .. toppoint /\ i - 1 \in 0 .. toppoint - 2
    BY <1>a
  <2> QED BY <2>1, <1>b, StackFacts
<1> QED BY <1>1, <1>2, <1>3, <1>4

\* A search that ends at pos ends at the topmost node of the pair, or nowhere.
LEMMA SearchTopmost ==
  ASSUME IndexOK, SearchHit \/ SearchMiss
  PROVE  Abs!Topmost(query, answer') /\ answer' \in Nodes \cup {NULL}
<1>a. \A q \in 1 .. toppoint : Stack[q] = mydata[q - 1] /\ q - 1 \in 0 .. toppoint - 1
  BY StackFacts
<1>w. query # NULL /\ Walked /\ Occupied
  BY DEF SearchHit, SearchMiss, IndexOK
<1>1. CASE SearchMiss
  <2>1. answer' = NULL /\ \A p \in 0 .. toppoint - 1 : key[mydata[p]] # query
    BY <1>1, <1>w DEF SearchMiss, Walked
  <2> QED BY <2>1, <1>a, StackFacts DEF Abs!Topmost
<1>2. CASE SearchHit
  <2>1. /\ answer' = mydata[pos] /\ key[mydata[pos]] = query /\ pos \in 0 .. toppoint - 1
        /\ \A p \in 0 .. toppoint - 1 : p > pos => key[mydata[p]] # query
    BY <1>2, <1>w DEF SearchHit, Walked
  <2>2. pos + 1 \in 1 .. toppoint /\ Stack[pos + 1] = answer'
    BY <2>1, StackFacts
  <2>3. \A q \in 1 .. toppoint : q > pos + 1 => key[Stack[q]] # query
    BY <2>1, <1>a
  <2>4. answer' \in Nodes
    BY <2>1, <1>w DEF Occupied
  <2>5. DOMAIN Stack = 1 .. toppoint
    BY StackFacts
  <2> QED BY <2>1, <2>2, <2>3, <2>4, <2>5 DEF Abs!Topmost
<1> QED BY <1>1, <1>2

\* An operation of CPstack is the operation of the abstract stack; a round of
\* search that moves on is a stutter.
LEMMA StepImplements == IndexOK /\ [Next]_vars => [Abs!StackNext]_(Abs!stackvars)
<1> SUFFICES ASSUME IndexOK, [Next]_vars PROVE [Abs!StackNext]_(Abs!stackvars)
  OBVIOUS
<1>1. ASSUME NEW n \in Nodes, push(n) PROVE Abs!Push(n)
  <2>1. query = NULL /\ ~Abs!On(n) /\ UNCHANGED query
    BY <1>1, OnIsOnStack DEF push, PushFits, PushFails, Pushing
  <2>2. CASE PushFits(n)
    BY <2>1, <2>2, PushStack, StackFacts DEF Abs!Push, PushFits
  <2>3. CASE PushFails(n)
    BY <2>1, <2>3, StackFacts, UnreachableIsNoSlot DEF Abs!Push, PushFails, Stack
  <2> QED BY <1>1, <2>2, <2>3 DEF push
<1>2. CASE pop
  BY <1>2, PopStack DEF Abs!StackNext, Abs!Pop, pop
<1>3. ASSUME NEW k \in Keys, SearchBegin(k) PROVE Abs!Ask(k)
  BY <1>3 DEF Abs!Ask, SearchBegin, Stack
<1>4. CASE SearchOn
  BY <1>4 DEF Abs!stackvars, SearchOn, Stack
<1>5. CASE SearchHit \/ SearchMiss
  BY <1>5, SearchTopmost DEF Abs!StackNext, Abs!Answer, SearchHit, SearchMiss, Stack
<1>6. CASE clear
  <2>1. Stack' = <<>>
    BY <1>6 DEF clear, Stack
  <2> QED BY <1>6, <2>1 DEF Abs!StackNext, Abs!Clear, clear
<1>7. CASE UNCHANGED vars
  BY <1>7 DEF vars, Abs!stackvars, Stack
<1> QED BY <1>1, <1>2, <1>3, <1>4, <1>5, <1>6, <1>7 DEF Next, Search, Abs!StackNext

\* CPstack implements the stack with search that Tarjan takes it for.
THEOREM CPstackImplements == Spec => ImplementsStack
<1>1. Init => Abs!StackInit
  BY DEF Init, Abs!StackInit, Stack
<1>2. IndexOK /\ [Next]_vars => [Abs!StackNext]_(Abs!stackvars)
  BY StepImplements
<1> QED BY <1>1, <1>2, IndexCorrect, PTL DEF Spec, ImplementsStack, Abs!StackSpec
=============================================================================

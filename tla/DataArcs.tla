------------------------------ MODULE DataArcs ------------------------------
(***************************************************************************)
(* The arcs between a transition and the places of variables: what CPN     *)
(* makes of an assignment, an increment, a condition and a pthread_create. *)
(*                                                                         *)
(* The variables stand in Decls in the order in which the variable tables  *)
(* are walked, the global table first: name, function ("global"), the      *)
(* expression that is unique among the places (exp), the length of an      *)
(* array of one dimension (0: none), whether it is a pointer, its basic    *)
(* type and its members.  An expression of C is a record, its variables    *)
(* given by their numbers in Decls.  Arrays in structures, arrays of more  *)
(* dimensions, function results and the types of arcs are left out.        *)
(***************************************************************************)
EXTENDS ArcExpressions

CONSTANTS
  Decls,
  NewThreads        \* the threads, in the order of their pthread_creates

Num(n)       == [k |-> "num", v |-> n]
Id(d)        == [k |-> "id", d |-> d]            \* x
Elem(d, e)   == [k |-> "elem", d |-> d, e |-> e] \* a[e], p[e]
Deref(d)     == [k |-> "deref", d |-> d]         \* *p
Member(d, m) == [k |-> "member", d |-> d, m |-> m]
Arrow(d, m)  == [k |-> "arrow", d |-> d, m |-> m]
Addr(l)      == [k |-> "addr", a |-> l]          \* &l
Bin(o, a, b) == [k |-> "bin", o |-> o, a |-> a, b |-> b]
Paren(a)     == [k |-> "paren", a |-> a]
Cond(c, a, b) == [k |-> "cond", c |-> c, a |-> a, b |-> b]

\* A statement: the left sides of an assignment from the outermost, and its
\* value; a step of "++" or "--"; the condition of an "if"; a new thread.
Assign(ls, e) == [k |-> "assign", ls |-> ls, e |-> e]
Step(l, o)    == [k |-> "step", l |-> l, o |-> o]
If(c)         == [k |-> "if", c |-> c]
Create(tid)   == [k |-> "create", tid |-> tid]

\* The variables of the net for the value and the address of a cell.
ValueV(exp, i, m) == <<"v", exp, i, m>>
AddressV(exp, i)  == <<"id", exp, i>>
Cells(d) == IF Decls[d].size = 0 THEN {-1} ELSE 0..Decls[d].size - 1
CellList(d) == IF Decls[d].size = 0 THEN <<-1>> ELSE [i \in 1..Decls[d].size |-> i - 1]

-----------------------------------------------------------------------------
\* Every cell there is, or its member m, as the arms of a case over an address.
Pointed(m) ==
  FlattenSeq([d \in DOMAIN Decls |->
    [j \in DOMAIN CellList(d) |-> LET i == CellList(d)[j]
                                 IN  Arm(Var(AddressV(Decls[d].exp, i)), Var(ValueV(Decls[d].exp, i, m)))]])

\* "_id" behind a text, or behind every arm of a case; behind a number it
\* is lost when the number is read.
RECURSIVE add_idPostfix(_)
add_idPostfix(text) ==
  LET w == Last(text)
      with == CASE w.k = "variable" -> Var(AddressV(w.v[2], w.v[3]))
                [] w.k = "case" -> Case(w.cond, [j \in DOMAIN w.arms |-> Arm(w.arms[j].key, add_idPostfix(w.arms[j].then))],
                                        w.dft)
                [] OTHER -> <<w>>
  IN  Front(text) \o with

Multiindexs2index(index) == index \o Op("*") \o Color(1)     \* of one dimension

RECURSIVE translate_exp2arcexp(_)
translate_exp2arcexp(e) ==
  CASE e.k = "num" -> Color(e.v)
    [] e.k = "id" -> LET d == Decls[e.d]
                     IN  IF d.size = 0 THEN Var(ValueV(d.exp, -1, "")) ELSE Var(AddressV(d.exp, 0))
    [] e.k = "bin" -> translate_exp2arcexp(e.a) \o Op(e.o) \o translate_exp2arcexp(e.b)
    [] e.k = "not" -> Op("!") \o translate_exp2arcexp(e.a)
    [] e.k = "minus" -> Op("-") \o translate_exp2arcexp(e.a)
    [] e.k = "paren" -> Op("(") \o translate_exp2arcexp(e.a) \o Op(")")
    [] e.k = "cond" -> Case(translate_exp2arcexp(e.c), <<Arm(Color(0), translate_exp2arcexp(e.b))>>,
                            translate_exp2arcexp(e.a))
    [] e.k = "addr" -> add_idPostfix(translate_exp2arcexp(e.a))
    [] e.k = "member" -> Var(ValueV(Decls[e.d].exp, -1, e.m))
    [] e.k = "deref" -> Case(Var(ValueV(Decls[e.d].exp, -1, "")), Pointed(""), NoText)
    [] e.k = "arrow" -> Case(Var(ValueV(Decls[e.d].exp, -1, "")), Pointed(e.m), NoText)
    [] e.k = "elem" -> LET d == Decls[e.d]
                           index == translate_exp2arcexp(e.e)
                       IN  IF d.pointer
                           THEN Case(Var(ValueV(d.exp, -1, "")) \o Op("+") \o index, Pointed(""), NoText)
                           ELSE IF e.e.k = "num" THEN Var(ValueV(d.exp, e.e.v, "")) \o Op("*") \o Color(1)
                           ELSE Case(Multiindexs2index(index),
                                     [j \in 1..d.size |-> Arm(Color(j - 1), Var(ValueV(d.exp, j - 1, "")))], NoText)

-----------------------------------------------------------------------------
\* The token of a cell: as it is read, or with a new content of a member.
generateToken(d, i, m, content) ==
  LET v == Decls[d]
  IN  TokenItem(IF v.members = <<>> THEN <<IF content = NoText THEN Var(ValueV(v.exp, i, "")) ELSE content>>
                ELSE [j \in DOMAIN v.members |->
                        IF v.members[j] = m /\ content # NoText THEN content ELSE Var(ValueV(v.exp, i, v.members[j]))],
                IF v.size = 0 THEN -1 ELSE i, Var(AddressV(v.exp, i)),
                IF v.func = "global" THEN "" ELSE "tid")

ReadTokens(d) == [j \in DOMAIN CellList(d) |-> [op |-> "++", item |-> generateToken(d, CellList(d)[j], "", NoText)]]

\* The arcs of a transition: from and to the places of variables.
NoArcs == [in |-> [d \in {} |-> <<>>], out |-> [d \in {} |-> <<>>]]
In(arcs, d, mt)   == [arcs EXCEPT !.in = (d :> mt) @@ @]
Out(arcs, d, mt)  == [arcs EXCEPT !.out = (d :> mt) @@ @]
More(arcs, d, mt) == [arcs EXCEPT !.out = (d :> (arcs.out[d] \o mt)) @@ @]  \* append

\* beoverrided: an arc that is there stays.
readOperation(arcs, d) ==
  [in |-> arcs.in @@ (d :> ReadTokens(d)), out |-> arcs.out @@ (d :> ReadTokens(d))]

readAll(arcs, ds) == FoldLeft(readOperation, arcs, SetToSeq(ds))
readPointer(arcs) == readAll(arcs, DOMAIN Decls)

RECURSIVE Named(_)              \* splitExpression: the variables of a text
Named(e) ==
  CASE e.k = "num" -> {}
    [] e.k \in {"id", "deref", "member", "arrow"} -> {e.d}
    [] e.k = "elem" -> {e.d} \cup Named(e.e)
    [] e.k \in {"not", "minus", "paren", "addr"} -> Named(e.a)
    [] e.k = "bin" -> Named(e.a) \cup Named(e.b)
    [] e.k = "cond" -> Named(e.c) \cup Named(e.a) \cup Named(e.b)

create_connect(arcs, e) ==
  LET read == readAll(arcs, Named(e)) IN IF \E d \in Named(e) : Decls[d].pointer THEN readPointer(read) ELSE read

-----------------------------------------------------------------------------

\* The cells an address may mean: those of the base type asked for ("": all).
writePointer(arcs, address, basetag, content, m) ==
  LET ds == {d \in DOMAIN Decls : basetag = "" \/ Decls[d].basetag = basetag}
      Arms(d, c) == [j \in DOMAIN CellList(d) |->
        LET i == CellList(d)[j] IN Arm(Var(AddressV(Decls[d].name, i)), Alone(generateToken(d, i, m, c)))]
      Item(d, c) == CasesItem(<<Case(address, Arms(d, c), NoText)[1]>>)
      Write(a, d) == More(readOperation(a, d), d, <<[op |-> "++", item |-> Item(d, content)],
                                                    [op |-> "--", item |-> Item(d, NoText)]>>)
  IN  FoldLeft(Write, arcs, SetToSeq(ds))

\* The pointer itself is only read, whatever was put there before.
AddwriteArc2pointer(arcs, d) == Out(In(arcs, d, ReadTokens(d)), d, ReadTokens(d))

\* The token with the new content, and the one it takes the place of (none
\* if the arc gives the place all its tokens anew).
Blocks(d, index, content) ==
  CasesItem([j \in 1..Decls[d].size |->
    Case(index, <<Arm(Color(j - 1), Alone(generateToken(d, j - 1, "", content)))>>, NoText)[1]])

\* Slip: an array's element is written as if it were all of the array.
generate_writeNormalstrAlone(l, content) ==
  CASE l.k = "member" -> <<generateToken(l.d, -1, l.m, content)>>
    [] l.k = "elem" /\ l.e.k = "num" -> <<generateToken(l.d, l.e.v, "", content)>>
    [] l.k = "elem" -> <<Blocks(l.d, Multiindexs2index(translate_exp2arcexp(l.e)), content)>>
    [] OTHER -> <<generateToken(l.d, -1, "", content)>>

generate_writeNormalstr(l, content) ==
  CASE l.k = "id" -> <<generateToken(l.d, -1, "", content)>>
    [] l.k = "member" -> <<generateToken(l.d, -1, l.m, content)>>
    [] l.k = "elem" /\ l.e.k = "num" -> <<generateToken(l.d, l.e.v, "", content), generateToken(l.d, l.e.v, "", NoText)>>
    [] OTHER -> LET index == Multiindexs2index(translate_exp2arcexp(l.e))
                IN  <<Blocks(l.d, index, content), Blocks(l.d, index, NoText)>>

writeOperation(arcs, l, content) ==
  LET d == l.d
      value   == Var(ValueV(Decls[d].exp, -1, ""))
      address == IF l.k = "elem" THEN value \o Op("+") \o translate_exp2arcexp(l.e) ELSE value
      basetag == IF l.k = "deref" THEN "" ELSE Decls[d].basetag
      member  == IF l.k = "arrow" THEN l.m ELSE ""
  IN  CASE l.k \in {"deref", "arrow"} \/ (l.k = "elem" /\ Decls[d].pointer) ->
             AddwriteArc2pointer(writePointer(arcs, address, basetag, content, member), d)
        [] l.k = "id" /\ Decls[d].pointer ->
             Out(In(arcs, d, ReadTokens(d)), d, Alone(generateToken(d, -1, "", content)))
        [] OTHER ->
             LET two == generate_writeNormalstr(l, content)
                 read == readOperation(arcs, d)
             IN  IF Len(two) = 1 THEN Out(read, d, Alone(two[1]))
                 ELSE More(read, d, <<[op |-> "++", item |-> two[1]], [op |-> "--", item |-> two[2]]>>)

-----------------------------------------------------------------------------
\* Expressions in brackets are expressions of their own: what they name is
\* read before the assignment around them is looked at.
Indexes(l) == IF l.k = "elem" THEN <<l.e>> ELSE <<>>

handle_assignment_expression(ls, e) ==
  LET content == translate_exp2arcexp(e)
      indexed == FoldLeft(create_connect, NoArcs, FlattenSeq([j \in DOMAIN ls |-> Indexes(ls[j])]))
      Write(a, l) == writeOperation(a, l, content)
  IN  FoldLeft(Write, create_connect(indexed, e), ls)

handle_INC_DEC_OP(l, o) ==
  create_connect(writeOperation(FoldLeft(create_connect, NoArcs, Indexes(l)), l,
                                translate_exp2arcexp(l) \o Op(o) \o Color(1)), l)

\* The copies of the locals for a new thread, at addresses of its own: each
\* pthread_create takes the next 2000, counted in 16 bits.
\* Slip: the addresses are the same for every thread.
threadDomainInitOnce(tid) == 2000

threadDomainInit(tid) ==
  LET n == 2000 * (CHOOSE j \in DOMAIN NewThreads : NewThreads[j] = tid) IN ((n + 32768) % 65536) - 32768

Locals == {d \in DOMAIN Decls : Decls[d].func # "global"}
CopyAt(d, tid) ==
  threadDomainInit(tid) + FoldSet(LAMBDA c, n : n + Cardinality(Cells(c)), 0, {c \in Locals : c < d})

Zeros(d) == [j \in DOMAIN (IF Decls[d].members = <<>> THEN <<"">> ELSE Decls[d].members) |-> Color(0)]

\* A copy has no index, not even one of an array's elements.
Add_pthreadCopys(newtid) ==
  [in |-> NoArcs.in,
   out |-> [d \in Locals |-> [j \in DOMAIN CellList(d) |->
              [op |-> "++", item |-> TokenItem(Zeros(d), -1, Color(CopyAt(d, newtid) + j - 1), newtid)]]]]

\* The transitions of a statement: its arcs, and the guard if it has one.
Transition(arcs, guard) == [in |-> arcs.in, out |-> arcs.out, guard |-> guard]
Opposite(text) == Op("!") \o Op("(") \o text \o Op(")")

Transitions(s) ==
  CASE s.k = "assign" -> <<Transition(handle_assignment_expression(s.ls, s.e), NoText)>>
    [] s.k = "step" -> <<Transition(handle_INC_DEC_OP(s.l, s.o), NoText)>>
    [] s.k = "create" -> <<Transition(Add_pthreadCopys(s.tid), NoText)>>
    [] s.k = "if" -> LET read == create_connect(NoArcs, s.c)
                         condition == translate_exp2arcexp(s.c)
                     IN  <<Transition(read, condition), Transition(read, Opposite(condition))>>

\* The tokens that init_place_MS and gen_id give the main thread's cells.
FirstAddress(d) ==
  1 + FoldSet(LAMBDA c, n : n + (IF Decls[c].size = 0 THEN 1 ELSE Decls[c].size)
                                 * (IF Decls[c].members = <<>> THEN 1 ELSE Len(Decls[c].members)),
              0, {c \in DOMAIN Decls : c < d})

InitToken(d, i, tid) ==
  [data |-> [j \in DOMAIN Zeros(d) |-> 0], index |-> i,
   id |-> FirstAddress(d) + (IF i = -1 THEN 0
                             ELSE i * (IF Decls[d].members = <<>> THEN 1 ELSE Len(Decls[d].members))),
   tid |-> IF Decls[d].func = "global" THEN "" ELSE tid]

init_place_MS(d, tid) ==
  [mapTokens |-> [t \in {InitToken(d, i, tid) : i \in Cells(d)} |-> 1], color_count |-> Cardinality(Cells(d))]
=============================================================================

------------------------------ MODULE CMemory ------------------------------
(***************************************************************************)
(* What C says of the statements of module DataArcs: a memory of cells,    *)
(* each of a variable, an element or a member, and for a local variable    *)
(* also of a thread.  A memory is the cells' values and the variables'     *)
(* addresses, numbers; where C leaves a step undefined, Undefined comes    *)
(* out.                                                                    *)
(***************************************************************************)
EXTENDS DataArcs

Undefined == -77777

Owner(d, tid) == IF Decls[d].func = "global" THEN "" ELSE tid
Cell(d, i, m, tid) == <<d, i, m, Owner(d, tid)>>
Base(d, i, tid) == <<d, i, Owner(d, tid)>>
Parts(d) == IF Decls[d].members = <<>> THEN {""} ELSE ToSet(Decls[d].members)

\* The main thread's variables have their first addresses, the others'
\* locals those of the copies.
At(d, i, tid) ==
  IF tid # "main" /\ Decls[d].func # "global" THEN CopyAt(d, tid) + (IF i = -1 THEN 0 ELSE i)
  ELSE InitToken(d, i, tid).id

\* The values of some variables' cells for a thread, and where they lie.
Allocated(ds, tid) ==
  LET bases == {<<d, i>> \in ds \X (-1..Cardinality(UNION {Cells(d) : d \in ds})) : i \in Cells(d)}
      parts == UNION {{<<b[1], b[2], m>> : m \in Parts(b[1])} : b \in bases}
  IN  [value |-> [c \in {Cell(p[1], p[2], p[3], tid) : p \in parts} |-> 0],
       at |-> [b \in {Base(x[1], x[2], tid) : x \in bases} |-> At(b[1], b[2], tid)]]

\* What a pointer with value n means to a thread.
Target(n, mem, tid) ==
  {<<b[1], b[2]>> : b \in {x \in DOMAIN mem.at : mem.at[x] = n /\ x[3] \in {"", tid}}}

Offset(c, k) == IF c[2] # -1 /\ c[2] + k \in Cells(c[1]) THEN {<<c[1], c[2] + k>>} ELSE IF k = 0 THEN {c} ELSE {}

\* The cell k beyond the one a pointer points to, and the n-th of an array.
Pointee(d, k, m, mem, tid) ==
  LET pointed == {c \in Target(mem.value[Cell(d, -1, "", tid)], mem, tid) : Decls[c[1]].basetag = Decls[d].basetag /\ ~Decls[c[1]].pointer}
  IN  {Cell(c[1], c[2], m, tid) : c \in UNION {Offset(c, k) : c \in pointed}}

Element(d, n, mem, tid) ==
  IF Decls[d].pointer THEN Pointee(d, n, "", mem, tid)
  ELSE IF n \in Cells(d) THEN {Cell(d, n, "", tid)} ELSE {}

RECURSIVE Eval(_, _, _), Place(_, _, _)
\* The cells an lvalue means: one, or none if that is undefined.
Place(l, mem, tid) ==
  CASE l.k = "id" -> {Cell(l.d, -1, "", tid)}
    [] l.k = "member" -> {Cell(l.d, -1, l.m, tid)}
    [] l.k = "deref" -> Pointee(l.d, 0, "", mem, tid)
    [] l.k = "arrow" -> Pointee(l.d, 0, l.m, mem, tid)
    [] l.k = "elem" -> Element(l.d, Eval(l.e, mem, tid), mem, tid)

Both(a, b, o) ==
  IF Undefined \in {a, b} \/ (o \in {"/", "%"} /\ b = 0) THEN Undefined ELSE operate(a, b, o)
Either(c, a, b) == IF c = Undefined THEN Undefined ELSE IF c # 0 THEN a ELSE b
Content(p, mem) == IF p = {} THEN Undefined ELSE mem.value[CHOOSE c \in p : TRUE]
Address(p, mem) == IF p = {} THEN Undefined ELSE CHOOSE n \in {mem.at[<<c[1], c[2], c[4]>>] : c \in p} : TRUE

Eval(e, mem, tid) ==
  CASE e.k = "num" -> e.v
    [] e.k = "bin" -> Both(Eval(e.a, mem, tid), Eval(e.b, mem, tid), e.o)
    [] e.k = "not" -> Both(Eval(e.a, mem, tid), 0, "!")
    [] e.k = "minus" -> Both(Eval(e.a, mem, tid), 0, "@")
    [] e.k = "paren" -> Eval(e.a, mem, tid)
    [] e.k = "cond" -> Either(Eval(e.c, mem, tid), Eval(e.a, mem, tid), Eval(e.b, mem, tid))
    [] e.k = "addr" -> Address(Place(e.a, mem, tid), mem)
    [] e.k = "id" /\ Decls[e.d].size > 0 -> mem.at[Base(e.d, 0, tid)]
    [] OTHER -> Content(Place(e, mem, tid), mem)

-----------------------------------------------------------------------------
\* The memory after a statement other than "if" and a new thread.
Put(p, n, mem) == IF p = {} THEN mem ELSE [mem EXCEPT !.value[CHOOSE c \in p : TRUE] = n]
Assigned(ls, n, mem, tid) == FoldRight(LAMBDA l, m : Put(Place(l, m, tid), n, m), ls, mem)

Defined(s, mem, tid) ==
  CASE s.k = "assign" -> /\ Eval(s.e, mem, tid) # Undefined
                         /\ \A j \in DOMAIN s.ls : Place(s.ls[j], mem, tid) # {}
    [] s.k = "step" -> Place(s.l, mem, tid) # {}
    [] s.k = "if" -> Eval(s.c, mem, tid) # Undefined
    [] OTHER -> TRUE

Executed(s, mem, tid) ==
  CASE s.k = "assign" -> Assigned(s.ls, Eval(s.e, mem, tid), mem, tid)
    [] s.k = "step" -> Assigned(<<s.l>>, operate(Eval(s.l, mem, tid), 1, s.o), mem, tid)
    [] s.k = "create" -> LET new == Allocated(Locals, s.tid)
                         IN  [value |-> mem.value @@ new.value, at |-> mem.at @@ new.at]
    [] OTHER -> mem
=============================================================================

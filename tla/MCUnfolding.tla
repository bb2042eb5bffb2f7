---------------------------- MODULE MCUnfolding ----------------------------
(***************************************************************************)
(* Instances of the unfolding: the synchronized nets of small programs of  *)
(* two threads, over a mutex, two variables and a function f, in the shape *)
(* that the net construction (module PDNet) and SYNCH (module Synch) give  *)
(* them: a block hands its statements their control token, "executed"      *)
(* places keep them in order, and the statements after a lock get their    *)
(* control from it.                                                        *)
(*                                                                         *)
(* A program is a sequence of functions, each a name and a body.  "main"   *)
(* is the main thread; a function that is created is a thread named like   *)
(* it; any other is called.  A statement "if" guards the statement after   *)
(* it; "spin" is a loop with an empty body.  Variables are shared and hold *)
(* "0" or "1".                                                             *)
(***************************************************************************)
EXTENDS UnfoldingVerdict

Stmt(k, v, val) == [k |-> k, v |-> v, val |-> val]
Set(v, val)    == Stmt("set", v, val)
Copy(w, v)     == Stmt("copy", v, w)
If(v, val)     == Stmt("if", v, val)
Spin(v, val)   == Stmt("spin", v, val)
Lock           == Stmt("lock", "m", "")
Unlock         == Stmt("unlock", "m", "")
Create(f)      == Stmt("create", f, "")
Join(f)        == Stmt("join", f, "")
Call(f)        == Stmt("call", f, "")
Fn(name, body) == [name |-> name, body |-> body]

Values == {"0", "1"}

\* An automaton: its arcs with what they ask, and its accepting states; the
\* initial state is "0".
BAArc(from, to, guard) == [from |-> from, to |-> to, guard |-> guard]
Value(v, val, neg)     == [kind |-> "LTLV", obs |-> <<"v", v>>, val |-> val, neg |-> neg]

-----------------------------------------------------------------------------
P(f, i) == <<"P", f, i>>        \* of a statement
X(f, i) == <<"X", f, i>>        \* executed place before a statement
C(f, i) == <<"C", f, i>>        \* of the call of a statement
BeginP(f) == <<"b", f>>
EndP(f)   == <<"e", f>>
Var(v)    == <<"v", v>>
Mutex     == <<"m", "m">>
Q(q)      == <<"Q", q>>
B         == <<"B">>
S         == <<"S">>

Arc(p, type) == [p |-> p, type |-> type]
Arcs(ps, type) == {Arc(p, type) : p \in ps}

\* A transition is named by its function, statement and place in it: "b" of
\* the function's beginning, "c" of a call, "1" and "2" of the two branches.
Id(f, i, j) == <<f, i, j>>

IdsOf(f, i, s) ==
  CASE s.k \in {"if", "spin"} -> <<Id(f, i, "1"), Id(f, i, "2")>>
    [] s.k = "call" -> <<Id(f, i, "c"), Id(f, i, "t")>>
    [] OTHER -> <<Id(f, i, "t")>>

Ids(prog) ==
  FlattenSeq([n \in DOMAIN prog |->
    <<Id(prog[n].name, 0, "b")>> \o
      FlattenSeq([i \in DOMAIN prog[n].body |-> IdsOf(prog[n].name, i, prog[n].body[i])])])

Names(prog) == {prog[n].name : n \in DOMAIN prog}
NumberOf(prog, f) == CHOOSE n \in DOMAIN prog : prog[n].name = f
Body(prog, f) == prog[NumberOf(prog, f)].body
Named(prog, k) ==
  {s.v : s \in UNION {{r \in ToSet(prog[n].body) : r.k = k} : n \in DOMAIN prog}}

Threads(prog) == {"main"} \cup Named(prog, "create")
Runners(prog, f) ==
  IF f \in Threads(prog) THEN {f} ELSE {g \in Threads(prog) : Call(f) \in ToSet(Body(prog, g))}

\* The order of the statements of a body s of function f.
Guarded(s, i) == i > 1 /\ s[i - 1].k = "if"

Exits(f, s, i) == {Id(f, i, IF s[i].k = "spin" THEN "2" ELSE "t")}

\* After statement i, or after the statement i guards.
Behind(f, s, i) ==
  Exits(f, s, i) \cup IF Guarded(s, i) THEN {Id(f, i - 1, "2")} ELSE {}

Ahead(f, s, i) ==
  CASE i = 1 -> {Id(f, 0, "b")}
    [] Guarded(s, i) -> {Id(f, i - 1, "1")}
    [] OTHER -> Behind(f, s, i - 1)

Ending(f, s) == IF s = <<>> THEN {Id(f, 0, "b")} ELSE Behind(f, s, Len(s))

\* The transition that gives statement i its control token.
Control(f, s, i) ==
  LET held == {j \in 1..i-1 : s[j].k = "lock" /\ ~Guarded(s, j) /\ \A k \in j+1..i : s[k].k \notin {"lock", "unlock"}}
  IN  IF Guarded(s, i) THEN Id(f, i - 1, "1")
      ELSE IF held = {} THEN Id(f, 0, "b") ELSE Id(f, Max(held), "t")

Place(f, s, i) == IF s[i].k = "call" THEN C(f, i) ELSE P(f, i)

VarUse(s, j) ==
  CASE s.k = "set"  -> {Arc(Var(s.v), "writeArc")}
    [] s.k = "copy" -> {Arc(Var(s.v), "readArc"), Arc(Var(s.val), "writeArc")}
    [] s.k \in {"if", "spin"} -> {Arc(Var(s.v), "readArc")}
    [] OTHER -> {}

In(prog, id) ==
  LET f == id[1]  i == id[2]  j == id[3]  s == Body(prog, f)[i] IN
  IF j = "b" THEN {Arc(BeginP(f), "executed")}
  ELSE IF j = "c" THEN {Arc(C(f, i), "control"), Arc(X(f, i), "executed")}
  ELSE {Arc(P(f, i), "control"), Arc(IF s.k = "call" THEN EndP(s.v) ELSE X(f, i), "executed")}
         \cup VarUse(s, j)
         \cup (IF s.k = "lock" THEN {Arc(Mutex, "control")} ELSE {})
         \cup (IF s.k = "join" THEN {Arc(EndP(s.v), "control")} ELSE {})

Out(prog, id) ==
  LET f == id[1]  i == id[2]  j == id[3]
      body == Body(prog, f)
      own(s) ==
        IF j = "c" THEN {Arc(P(f, i), "call_connect"), Arc(BeginP(s.v), "call_enter")}
        ELSE VarUse(s, j)
               \cup (IF s.k = "unlock" THEN {Arc(Mutex, "control")} ELSE {})
               \cup (IF s.k = "create" THEN {Arc(BeginP(s.v), "control")} ELSE {})
               \cup (IF s.k = "spin" /\ j = "1"
                     THEN {Arc(P(f, i), "control"), Arc(X(f, i), "executed")} ELSE {})
  IN  Arcs({Place(f, body, k) : k \in {n \in DOMAIN body : Control(f, body, n) = id}}, "control")
        \cup Arcs({X(f, k) : k \in {n \in DOMAIN body : id \in Ahead(f, body, n)}}, "executed")
        \cup (IF id \in Ending(f, body) THEN {Arc(EndP(f), "call_exit")} ELSE {})
        \cup (IF j = "b" THEN {} ELSE own(body[i]))

\* The colour of the tokens on a control place, for a transition of thread tid.
Colored(prog, id, p, tid) ==
  LET s == Body(prog, id[1])[id[2]]
  IN  IF p \in {S, B} THEN <<p, "ba">>
      ELSE IF p = Mutex THEN <<p, "0">>
      ELSE IF id[3] # "b" /\ s.k \in {"create", "join"} /\ p \in {BeginP(s.v), EndP(s.v)} THEN <<p, s.v>>
      ELSE <<p, tid>>

IsVar(p) == p[1] = "v"

\* The firings: one for each thread and each value of the variables used.
Modes(prog, id, in, out) ==
  LET s == Body(prog, id[1])[id[2]]
      use == IF id[3] \in {"b", "c"} THEN {} ELSE {a.p : a \in VarUse(s, id[3])}
      after(val, p) ==
        CASE s.k = "set" -> s.val
          [] s.k = "copy" /\ p = Var(s.val) -> val[Var(s.v)]
          [] OTHER -> val[p]
      allowed(val) ==
        s.k \in {"if", "spin"} => (val[Var(s.v)] = s.val) = (id[3] = "1")
      tokens(arcs, tid) == {Colored(prog, id, a.p, tid) : a \in {b \in arcs : ~IsVar(b.p)}}
      mode(tid, val) == [in  |-> tokens(in, tid) \cup {<<p, val[p]>> : p \in use},
                         out |-> tokens(out, tid) \cup {<<p, after(val, p)>> : p \in use}]
  IN  Listed({mode(tid, val) : tid \in Runners(prog, id[1]),
                                 val \in {v \in [use -> Values] : use = {} \/ allowed(v)}})

\* The synchronized net of program prog and an automaton.
Net(prog, ba) ==
  LET ids == Ids(prog)
      seen == {a.obs : a \in UNION {ba.arcs[k].guard : k \in DOMAIN ba.arcs}}
      visible(id) == {a.p : a \in In(prog, id) \cup Out(prog, id)} \cap seen # {}
      in(id)  == In(prog, id) \cup IF visible(id) THEN {Arc(S, "control")} ELSE {}
      out(id) == Out(prog, id) \cup IF visible(id) THEN {Arc(B, "control")} ELSE {}
      fnRow(id) == 10 * NumberOf(prog, id[1]) + id[2]
      t(id) == CHOOSE k \in DOMAIN ids : ids[k] = id
      tran(id) == [row |-> IF id[3] = "c" THEN NoneRow ELSE fnRow(id), line |-> fnRow(id),
                   in |-> in(id), out |-> out(id)]
      baTran(a) == [row |-> NoneRow, line |-> 0,
                    in  |-> Arcs({Q(a.from), B}, "control"),
                    out |-> Arcs({Q(a.to), S}, "control")]
      baMode(a) == [in |-> {<<Q(a.from), "ba">>, <<B, "ba">>}, out |-> {<<Q(a.to), "ba">>, <<S, "ba">>}]
      n0 == Len(ids)
      baT == n0 + 1 .. n0 + Len(ba.arcs)
      rows(k) == SortSeq(Listed({fnRow(id) : id \in {x \in ToSet(ids) : x[3] = "t" /\ Body(prog, x[1])[x[2]].k = k}}), <)
      trans == [k \in DOMAIN ids |-> tran(ids[k])] \o [k \in DOMAIN ba.arcs |-> baTran(ba.arcs[k])]
      places == UNION {{a.p : a \in trans[k].in \cup trans[k].out} : k \in DOMAIN trans}
      creates == {id \in ToSet(ids) : id[3] = "t" /\ Body(prog, id[1])[id[2]].k = "create"}
      calls == {id \in ToSet(ids) : id[3] = "c"}
      varPlaces == {p \in places : p[1] = "v"} \cup seen
  IN  [trans |-> trans,
       modes |-> [k \in DOMAIN ids |-> Modes(prog, ids[k], in(ids[k]), out(ids[k]))]
                   \o [k \in DOMAIN ba.arcs |-> <<baMode(ba.arcs[k])>>],
       guard |-> [k \in DOMAIN ids |-> {}] \o [k \in DOMAIN ba.arcs |-> ba.arcs[k].guard],
       abort |-> {},
       S     |-> S,
       m0    |-> {<<BeginP("main"), "main">>, <<Q("0"), "ba">>, <<B, "ba">>}
                   \cup (IF Mutex \in places THEN {<<Mutex, "0">>} ELSE {})
                   \cup {<<p, "0">> : p \in varPlaces},
       controlP |-> {p \in places : p[1] \notin {"v", "m"}},
       baT   |-> baT,
       I     |-> {k \in baT : ba.arcs[k - n0].to \in ba.accepted},
       threads |-> {[enter |-> mainCall, begin |-> BeginP("main"), end |-> EndP("main")]}
                     \cup {[enter |-> <<t(id)>>, begin |-> BeginP(Body(prog, id[1])[id[2]].v),
                            end |-> EndP(Body(prog, id[1])[id[2]].v)] : id \in creates},
       calls |-> [k \in {t(id) : id \in calls} |->
                    LET id == ids[k]  f == Body(prog, id[1])[id[2]].v
                    IN  [begin |-> BeginP(f), end |-> EndP(f), exit |-> P(id[1], id[2])]],
       creators |-> {t(id) : id \in creates},
       begins |-> {BeginP(f) : f \in Names(prog)},
       mutexP |-> places \cap {Mutex},
       condP  |-> {},
       places |-> Listed(places \cap {Mutex}) \o Listed(varPlaces),
       lockT   |-> IF Mutex \in places THEN [m \in {Mutex} |-> rows("lock")] ELSE <<>>,
       unlockT |-> IF Mutex \in places THEN [m \in {Mutex} |-> rows("unlock")] ELSE <<>>]

-----------------------------------------------------------------------------
\* Automata of negated formulas: F x = 1 and G F x = 1.
Is(val) == {Value("x", val, FALSE)}
EventuallyX == [arcs |-> <<BAArc("0", "0", {}), BAArc("0", "1", Is("1")), BAArc("1", "1", {})>>,
                accepted |-> {"1"}]
RepeatedlyX == [arcs |-> <<BAArc("0", "0", {}), BAArc("0", "1", Is("1")),
                           BAArc("1", "1", Is("1")), BAArc("1", "0", {})>>,
                accepted |-> {"1"}]

\* Bodies of main and of the thread it creates and joins.
X1 == Set("x", "1")   X0 == Set("x", "0")
Y1 == Set("y", "1")   Y0 == Set("y", "0")
XY == Copy("x", "y")  YX == Copy("y", "x")
IfY == If("y", "1")
L == Lock  U == Unlock
F == Call("f")

Plain == <<
  <<X1, X0>>, <<Y1, Y0>>, <<XY, YX>>, <<IfY, XY, X0>>, <<L, Y1, Y0, U>>, <<L, Y1, U, L, Y0, U>>,
  <<L, IfY, X1, U>>, <<Spin("y", "0"), X1>> >>
Calls == << <<Y1, F, Y0>>, <<L, F, U>>, <<F, F>> >>
Bodies_f == << <<XY>>, <<L, XY, U>>, <<IfY, X1>> >>

Two(b1, b2) == << Fn("t1", b1), Fn("main", <<Create("t1")>> \o b2 \o <<Join("t1")>>) >>
Pairs(bodies, more, ba) ==
  LET n == Len(bodies)
  IN  [k \in 1..n * n |-> Net(Two(bodies[((k - 1) \div n) + 1], bodies[((k - 1) % n) + 1]) \o more, ba)]

\* An assignment that reads w is chosen twice from one configuration, as the
\* thread's step and as what must come before a step of t2.
Reread ==
  Net(<< Fn("t1", <<Copy("z", "w"), If("u", "1"), X0, X0>>),
         Fn("main", <<Create("t1"), Create("t2"), Set("w", "0"), X0, Join("t1"), Join("t2")>>),
         Fn("t2", <<Set("w", "1")>>) >>, EventuallyX)
NetsReread == <<Reread>>

MCNets ==
  Pairs(Plain, <<>>, EventuallyX)
    \o NetsReread
    \o Pairs(SubSeq(Plain, 1, 3), <<>>, RepeatedlyX)
    \o FlattenSeq([k \in DOMAIN Bodies_f |-> Pairs(Calls, <<Fn("f", Bodies_f[k])>>, EventuallyX)])

\* A thread that has set x while main waits for y; a thread that
\* takes the lock only if z = 1.
NetsWaiting == << Net(Two(<<L, X1, U>>, <<Spin("y", "0"), X1>>), EventuallyX) >>

MCUninitialised == {"none"}
=============================================================================

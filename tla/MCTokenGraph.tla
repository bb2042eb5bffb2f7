---------------------------- MODULE MCTokenGraph ----------------------------
(* main creates two threads that both run f:  x = g; g = 1 - x; if (g != x)*)
(* a[0]++ else abort.  A table of 5 entries makes the hashes collide.      *)
EXTENDS TokenGraph, Firing

Declared(name, func, size) ==
  [name |-> name, func |-> func, exp |-> name, size |-> size, pointer |-> FALSE, basetag |-> "int", members |-> <<>>]
MCDecls == << Declared("g", "global", 0), Declared("a", "global", 2), Declared("x", "f", 0) >>
MCNewThreads == <<"t", "u">>

G == Id(1)
X == Id(3)

At(p) == <<<<p, "tid">>>>
Flow(id, pre, post, s, j) ==
  [id |-> id, pre |-> At(pre), post |-> At(post), abort |-> FALSE, s |-> s, branch |-> j]
Starts(id, pre, post, tid) == [Flow(id, pre, post, Create(tid), 1) EXCEPT !.post = @ \o <<<<"f0", tid>>>>]
Differ == If(Bin("!=", G, X))

MCSteps == <<
  Starts("create_t", "m0", "m1", "t"),
  Starts("create_u", "m1", "m2", "u"),
  Flow("read", "f0", "f1", Assign(<<X>>, G), 1),
  Flow("flip", "f1", "f2", Assign(<<G>>, Bin("-", Num(1), X)), 1),
  Flow("then", "f2", "f3", Differ, 1),
  [Flow("abort", "f2", "f3", Differ, 2) EXCEPT !.abort = TRUE],
  Flow("count", "f3", "f4", Step(Elem(2, Num(0)), "+"), 1) >>
MCPriority == <<5, 6>>

MCControlPlaces == <<"m0", "m1", "m2", "f0", "f1", "f2", "f3", "f4">>
MCStart == [control |-> [p \in ToSet(MCControlPlaces) |-> IF p = "m0" THEN SingleToken("main", 1) ELSE EmptyMS],
            data |-> [d \in DOMAIN Decls |-> init_place_MS(d, "main")]]

MCNet == [k \in DOMAIN MCSteps |->
            LET step == MCSteps[k]
            IN  Constructed(step.id, step.pre, step.post, Transitions(step.s)[step.branch])]
MCTransCount == Len(MCSteps)
MCAborts == {k \in DOMAIN MCSteps : MCSteps[k].abort}
MCBindings(k, m) == SetToSeq(is_Fireable(MCNet[k], m))
MCFired(m, k, b) == Marking_after_fire(m, MCNet[k], b)
MCHash(m) == Hash(m, MCControlPlaces)

\* All markings firing leads to, also that of a transition that aborts.
MCMarkings ==
  LET after(m) == UNION {{MCFired(m, k, b) : b \in is_Fireable(MCNet[k], m)} : k \in DOMAIN MCSteps}
      found[n \in 0 .. 100] ==
        IF n = 0 THEN [all |-> {MCStart}, new |-> {MCStart}]
        ELSE LET before == found[n - 1]
                 new == UNION {after(m) : m \in before.new} \ before.all
             IN  [all |-> before.all \cup new, new |-> new]
  IN  found[100].all

-----------------------------------------------------------------------------
\* In no marking do two cells, of any variables and threads, have one
\* address.
AddressesApart ==
  \A n \in Nodes :
    LET data == rgnodevec[n].marking.data
        cells == UNION {{<<d, t>> : t \in Tokens(data[d])} : d \in DOMAIN data}
    IN  Cardinality({c[2].id : c \in cells}) = Cardinality(cells)
=============================================================================

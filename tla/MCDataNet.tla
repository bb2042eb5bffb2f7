----------------------------- MODULE MCDataNet -----------------------------
(* Instances of the data of a net: a global variable g, an array a, a      *)
(* pointer p, a structure s, a pointer sp to it, and a local variable x.   *)
EXTENDS DataNet

Declared(name, func, size, pointer, basetag, members) ==
  [name |-> name, func |-> func, exp |-> name, size |-> size, pointer |-> pointer, basetag |-> basetag,
   members |-> members]

MCDecls == <<
  Declared("g", "global", 0, FALSE, "int", <<>>),
  Declared("a", "global", 2, FALSE, "int", <<>>),
  Declared("p", "global", 0, TRUE, "int", <<>>),
  Declared("s", "global", 0, FALSE, "struct", <<"m", "n">>),
  Declared("sp", "global", 0, TRUE, "struct", <<>>),
  Declared("x", "f", 0, FALSE, "int", <<>>) >>
g == 1
a == 2
p == 3
s == 4
sp == 5
x == 6

G == Id(g)
A == Id(a)
P == Id(p)
SP == Id(sp)
X == Id(x)
One == Num(1)
Flip(e) == Bin("-", One, e)

MCNewThreads == <<"t">>

MCStatements == <<
  Create("t"),
  Assign(<<G>>, Flip(X)),
  Assign(<<X>>, Elem(a, G)),
  Assign(<<Elem(a, Num(1))>>, X),
  Assign(<<G, Member(s, "m")>>, Bin("!=", Member(s, "m"), Bin("+", Elem(a, Num(0)), One))),
  Assign(<<P>>, Addr(G)),
  Assign(<<P>>, A),
  Assign(<<P>>, Addr(Elem(a, G))),
  Assign(<<Deref(p)>>, Flip(Deref(p))),
  Assign(<<X>>, Member(s, "n")),
  Assign(<<X>>, Flip(Elem(p, G))),
  Assign(<<Elem(p, X)>>, G),
  Assign(<<SP>>, Addr(Id(s))),
  Assign(<<Arrow(sp, "n")>>, Bin("*", One, Paren(Bin("+", X, G)))),
  Step(X, "+"), Step(Elem(a, Num(0)), "-"),
  If(Bin("&&", Bin("<", X, One), Bin("==", G, One))),
  If(Bin("!=", P, Addr(G))),
  If(Bin("==", Deref(p), Arrow(sp, "n"))) >>
=============================================================================

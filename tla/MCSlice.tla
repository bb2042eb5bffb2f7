------------------------------ MODULE MCSlice ------------------------------
(* Small programs for the slices and the edits, one per main function.     *)
EXTENDS ChangeImpact

(* The statements in source order, four entries each: the kind, the number *)
(* of the statement it is part of, and two operands: of expressions and    *)
(* conditions the variable that is read and the one that is written, of    *)
(* calls to pthread the thread and its function, the mutex or condition.   *)
MCText == <<
  \* edited() { i = 1; y = i; while (i) { d = i; i = d; } h = y; d = h; x8 = d; }  from 1
    "expr", 0, "-", "i",  "expr", 0, "i", "y",  "while", 0, "i", "-",
    "block", 3, "-", "-",  "expr", 4, "i", "d",  "expr", 4, "d", "i",
    "expr", 0, "y", "h",  "expr", 0, "h", "d",  "expr", 0, "d", "x8",
  \* inner() { i = 1; while (i) { d = i; h = d; y = h; i = y; } }  from 10
    "expr", 0, "-", "i",  "while", 0, "i", "-",  "block", 11, "-", "-",
    "expr", 12, "i", "d",  "expr", 12, "d", "h",  "expr", 12, "h", "y",  "expr", 12, "y", "i",
  \* later() { y = 2; if (y) i = y; h = y; }  from 17
    "expr", 0, "-", "y",  "if", 0, "y", "-",  "expr", 18, "y", "i",  "expr", 0, "y", "h",
  \* loop() { h = 0; i = 0; while (i) { h = 1; i = i + 1; } x1 = i; }  from 21
    "expr", 0, "-", "h",  "expr", 0, "-", "i",  "while", 0, "i", "-",
    "block", 23, "-", "-",  "expr", 24, "-", "h",  "expr", 24, "i", "i",
    "expr", 0, "i", "x1",
  \* branch() { c = 0; h = c; if (c) { x2 = 1; } else x2 = c; h = x2; }  from 28
    "expr", 0, "-", "c",  "expr", 0, "c", "h",  "if", 0, "c", "-",
    "block", 30, "-", "-",  "expr", 31, "-", "x2",  "expr", 30, "c", "x2",
    "expr", 0, "x2", "h",
  \* enters() { u = 1; e = 2; if (e) f(u); f(e); }  from 35
    "expr", 0, "-", "u",  "expr", 0, "-", "e",  "if", 0, "e", "-",
    "expr", 37, "-", "-",  "expr", 0, "-", "-",
  \* f(a) { h = 0; x3 = a; }  from 40
    "expr", 0, "-", "h",  "expr", 0, "a", "x3",
  \* returns() { h = 0; x4 = g(); h = 1; }  from 42
    "expr", 0, "-", "h",  "expr", 0, "g_", "x4",  "expr", 0, "-", "h",
  \* g() { r = 1; r = r + 1; return r; }  from 45
    "expr", 0, "-", "r",  "expr", 0, "r", "r",  "return", 0, "r", "g_",
  \* threads() { create(t1, w); lock(m); h = s; s = 0; unlock(m); join(t1); x5 = s; }  from 48
    "create", 0, "t1", "w",  "lock", 0, "m", "-",  "expr", 0, "s", "h",  "expr", 0, "-", "s",
    "unlock", 0, "m", "-",  "join", 0, "t1", "w",  "expr", 0, "s", "x5",
  \* w() { k = 1; lock(m); h = k; s = k; unlock(m); h = k; }  from 55
    "expr", 0, "-", "k",  "lock", 0, "m", "-",  "expr", 0, "k", "h",  "expr", 0, "k", "s",
    "unlock", 0, "m", "-",  "expr", 0, "k", "h",
  \* signals() { create(t1, c); lock(n); z = 1; signal(v); unlock(n); join(t1); }  from 61
    "create", 0, "t1", "c",  "lock", 0, "n", "-",  "expr", 0, "-", "z",  "signal", 0, "v", "-",
    "unlock", 0, "n", "-",  "join", 0, "t1", "c",
  \* c() { lock(n); wait(v, n); x6 = z; unlock(n); h = x6; }  from 67
    "lock", 0, "n", "-",  "wait", 0, "v", "n",  "expr", 0, "z", "x6",
    "unlock", 0, "n", "-",  "expr", 0, "x6", "h",
  \* breaks() { i = 1; while (i) { if (d) break; i = d; h = i; d = i; } x7 = i; }  from 72
    "expr", 0, "-", "i",  "while", 0, "i", "-",  "block", 73, "-", "-",
    "if", 74, "d", "-",  "break", 75, "-", "-",
    "expr", 74, "d", "i",  "expr", 74, "i", "h",  "expr", 74, "i", "d",
    "expr", 0, "i", "x7",
  \* spins() { h = 0; while (1) { if (h) break; h = k; x9 = h; } k = h; }  from 81
    "expr", 0, "-", "h",  "while", 0, "-", "-",  "block", 82, "-", "-",
    "if", 83, "h", "-",  "break", 84, "-", "-",  "expr", 83, "k", "h",  "expr", 83, "h", "x9",
    "expr", 0, "h", "k"
    >>

Nodes     == 1..(Len(MCText) \div 4)
Word(n)   == MCText[4 * n - 3]
First(n)  == MCText[4 * n - 1]
Second(n) == MCText[4 * n]
Data      == {"expr", "if", "while", "return"}

MCKind  == [n \in Nodes |-> Word(n)]
MCKids  == [n \in Nodes |-> SelectSeq([m \in Nodes |-> m], LAMBDA m : MCText[4 * m - 2] = n)]
MCStep  == [n \in Nodes |-> 0]
MCCalls == [n \in Nodes |-> IF n \in {38, 39} THEN <<"f">> ELSE IF n = 43 THEN <<"g">> ELSE <<>>]
MCArg   == [n \in Nodes |->
             CASE Word(n) \in {"create", "join"} -> [tid |-> First(n), fn |-> Second(n)]
               [] Word(n) = "wait" -> <<First(n), Second(n)>>
               [] OTHER -> First(n)]
MCBody  ==
  [edited |-> <<1, 2, 3, 7, 8, 9>>,  inner |-> <<10, 11>>,  later |-> <<17, 18, 20>>,
   loop |-> <<21, 22, 23, 27>>,  branch |-> <<28, 29, 30, 34>>,  enters |-> <<35, 36, 37, 39>>,
   f |-> <<40, 41>>,  returns |-> <<42, 43, 44>>,  g |-> <<45, 46, 47>>,
   threads |-> <<48, 49, 50, 51, 52, 53, 54>>,  w |-> <<55, 56, 57, 58, 59, 60>>,
   signals |-> <<61, 62, 63, 64, 65, 66>>,  c |-> <<67, 68, 69, 70, 71>>,
   breaks |-> <<72, 73, 80>>,  spins |-> <<81, 82, 88>>]

(* A call hands over its argument. *)
MCReads ==
  [t \in Transitions |->
     CASE t[1] \in {"T", "true", "false"} /\ Word(t[2]) \in Data /\ First(t[2]) # "-" -> <<First(t[2])>>
       [] t = CallT(38, 1) -> <<"u">>
       [] t = CallT(39, 1) -> <<"e">>
       [] OTHER -> <<>>]
MCWrites ==
  [t \in Transitions |->
     CASE t[1] = "T" /\ Word(t[2]) \in Data /\ Second(t[2]) # "-" -> {Second(t[2])}
       [] t \in {CallT(38, 1), CallT(39, 1)} -> {"a"}
       [] OTHER -> {}]

MCObserved ==
  [loop |-> {Var("x1")}, branch |-> {Var("x2")}, enters |-> {T(41)}, returns |-> {T(43)},
   threads |-> {T(54)}, signals |-> {T(69)}, breaks |-> {Var("x7")},
   spins |-> {Var("x9")}]

MCChanged ==
  [loop |-> 21..27, branch |-> 28..34, enters |-> 35..41, returns |-> 42..47, threads |-> 48..60,
   signals |-> 61..71, breaks |-> 72..80, spins |-> 81..88]

MCEndless == {82}

(* Statement 20 says what 7 says: in newer versions 7 may be found there.  *)
MCSays == [n \in Nodes |-> IF n = 20 THEN 7 ELSE n]

(* One or two statements less, one or two more, one for another, one moved.*)
Put(l, k, ns)  == SubSeq(l, 1, k - 1) \o ns \o SubSeq(l, k, Len(l))
Inserted(l, n) == {Put(l, k, <<n>>) : k \in 1..Len(l) + 1}
Removed(l)     == {SubSeq(l, 1, k - 1) \o SubSeq(l, k + 1, Len(l)) : k \in DOMAIN l}
Edits(l) ==
  Removed(l) \cup UNION {Removed(k) : k \in Removed(l)} \cup Inserted(l, 17) \cup Inserted(l, 18)
    \cup UNION {Inserted(k, 17) : k \in Removed(l)}
    \cup {Put(l, k, <<17, 18>>) : k \in DOMAIN l}
Moved(l, k, m) ==
  Inserted(SubSeq(l, 1, k - 1) \o SubSeq(l, k + 1, Len(l)), m) \ {SubSeq(l, 1, k - 1) \o <<m>> \o SubSeq(l, k + 1, Len(l))}

MCNewer ==
  [edited |-> {(0 :> l) @@ (4 :> <<5, 6>>) : l \in Edits(MCBody["edited"]) \cup Moved(MCBody["edited"], 4, 20)},
   inner  |-> {(0 :> <<10, 11>>) @@ (12 :> l) : l \in Edits(<<13, 14, 15, 16>>)}]
=============================================================================

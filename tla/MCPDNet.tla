------------------------------ MODULE MCPDNet -------------------------------
(***************************************************************************)
(* Small programs, one per function, over the constructs the translation   *)
(* knows.  A configuration chooses those it runs by Mains.                 *)
(***************************************************************************)
EXTENDS PDNetThreads, TLC

(***************************************************************************)
(* The statements in source order, four entries each: the kind, the number *)
(* of the statement it is part of, and two operands: the functions that an *)
(* expression or a loop condition calls, a thread and its function, a      *)
(* mutex, or a condition and a mutex.                                      *)
(***************************************************************************)
MCText == <<
  \* nest() { x; while (c) { if (d) { y; } else z; w; } v; }  from 1
    "expr", 0, "-", "-",  "while", 0, "-", "-",  "block", 2, "-", "-",
    "if", 3, "-", "-",  "block", 4, "-", "-",  "expr", 5, "-", "-",
    "expr", 4, "-", "-",  "expr", 3, "-", "-",  "expr", 0, "-", "-",
  \* breaks() { while (a) { x; while (b) { y; if (c) break; } } }  from 10
    "while", 0, "-", "-",  "block", 10, "-", "-",  "expr", 11, "-", "-",
    "while", 11, "-", "-",  "block", 13, "-", "-",  "expr", 14, "-", "-",
    "if", 14, "-", "-",  "break", 16, "-", "-",
  \* calls() { f(); if (c) { x; f(); } else f(); }  from 18
    "expr", 0, "f", "-",  "if", 0, "-", "-",  "block", 19, "-", "-",
    "expr", 20, "-", "-",  "expr", 20, "f", "-",  "expr", 19, "f", "-",
  \* f() { if (c) { x; } else { return; } }  from 24
    "if", 0, "-", "-",  "block", 24, "-", "-",  "expr", 25, "-", "-",
    "block", 24, "-", "-",  "return", 27, "-", "-",
  \* asserts() { x; { if (c) { L: { f(); } } y; } z; }  from 29
    "expr", 0, "-", "-",  "block", 0, "-", "-",  "if", 30, "-", "-",
    "block", 31, "-", "-",  "label", 32, "-", "-",  "block", 33, "-", "-",
    "expr", 34, "f", "-",  "expr", 30, "-", "-",  "expr", 0, "-", "-",
  \* waits() { while (c) {} lock(m); { x; } unlock(m); }  from 38
    "while", 0, "-", "-",  "block", 38, "-", "-",  "init", 0, "m", "-",
    "lock", 0, "m", "-",  "block", 0, "-", "-",  "expr", 42, "-", "-",
    "unlock", 0, "m", "-",
  \* forloop() { for (x; c; z) { y; }   as   { x; while (c) { { y; } z; } } }  from 45
    "block", 0, "-", "-",  "expr", 45, "-", "-",  "for", 45, "-", "-",
    "block", 47, "-", "-",  "block", 48, "-", "-",  "expr", 49, "-", "-",
    "expr", 48, "-", "-",
  \* locks() { create(t1, worker); create(t2, worker); join(t1); join(t2); }  from 52
    "create", 0, "t1", "worker",  "create", 0, "t2", "worker",
    "join", 0, "t1", "worker",  "join", 0, "t2", "worker",
  \* worker() { lock(n); x; if (c) { y; } unlock(n); }  from 56
    "lock", 0, "n", "-",  "expr", 0, "-", "-",  "if", 0, "-", "-",
    "block", 58, "-", "-",  "expr", 59, "-", "-",  "unlock", 0, "n", "-",
  \* signals() { create(t1, consumer); lock(n); x; signal(v); unlock(n); join(t1); }  from 62
    "create", 0, "t1", "consumer",  "lock", 0, "n", "-",  "expr", 0, "-", "-",
    "signal", 0, "v", "-",  "unlock", 0, "n", "-",
    "join", 0, "t1", "consumer",
  \* consumer() { lock(n); if (c) wait(v, n); x; unlock(n); exit; }  from 68
    "lock", 0, "n", "-",  "if", 0, "-", "-",  "wait", 69, "v", "n",
    "expr", 0, "-", "-",  "unlock", 0, "n", "-",  "exit", 0, "-", "-",
  \* continues() { while (1) { x; if (a) continue; y; if (b) break; } z; }  from 74
    "while", 0, "-", "-",  "block", 74, "-", "-",  "expr", 75, "-", "-",
    "if", 75, "-", "-",  "continue", 77, "-", "-",  "expr", 75, "-", "-",
    "if", 75, "-", "-",  "break", 80, "-", "-",  "expr", 0, "-", "-",
  \* condcalls() { while (f()) { x; } }  from 83
    "while", 0, "f", "-",  "block", 83, "-", "-",  "expr", 84, "-", "-",
  \* pool() { create(t1, taker); create(t2, taker); join(t2); join(t1); x; }  from 86
    "create", 0, "t1", "taker",  "create", 0, "t2", "taker",
    "join", 0, "t2", "taker",  "join", 0, "t1", "taker",  "expr", 0, "-", "-",
  \* taker() { while (c) { x; lock(n); if (d) { lock(o); y; unlock(o); } f(); unlock(n); } z; }  from 91
    "while", 0, "-", "-",  "block", 91, "-", "-",  "expr", 92, "-", "-",
    "lock", 92, "n", "-",  "if", 92, "-", "-",  "block", 95, "-", "-",
    "lock", 96, "o", "-",  "expr", 96, "-", "-",  "unlock", 96, "o", "-",
    "expr", 92, "f", "-",  "unlock", 92, "n", "-",  "expr", 0, "-", "-",
  \* loopfirst() { while (a) { if (b) { while (c) {} continue; } break; } }  from 103
    "while", 0, "-", "-",  "block", 103, "-", "-",  "if", 104, "-", "-",
    "block", 105, "-", "-",  "while", 106, "-", "-",  "block", 107, "-", "-",
    "continue", 106, "-", "-",  "break", 104, "-", "-",
  \* twocalls() { x = f() + g(); }  from 111
    "expr", 0, "g", "f",
  \* g() { (empty) }
  \* labelled() { if (c) L: g();  x; }  from 112
    "if", 0, "-", "-",  "label", 112, "-", "-",  "expr", 113, "g", "-",
    "expr", 0, "-", "-"
>>

Numbers     == 1..(Len(MCText) \div 4)
Word(n)   == MCText[4 * n - 3]
Within(n)   == SelectSeq([m \in Numbers |-> m], LAMBDA m : MCText[4 * m - 2] = n)
Operands(n) == <<MCText[4 * n - 1], MCText[4 * n]>>

MCKind  == [n \in Numbers |-> IF Word(n) = "for" THEN "while" ELSE Word(n)]
MCKids  == [n \in Numbers |-> Within(n)]
MCStep  == [n \in Numbers |-> IF Word(n) = "for" THEN Last(Within(Within(n)[1])) ELSE 0]
MCCalls == [n \in Numbers |-> IF Word(n) \in {"expr", "while"}
                              THEN SelectSeq(Operands(n), LAMBDA f : f # "-") ELSE <<>>]
MCArg   == [n \in Numbers |->
             CASE Word(n) \in {"create", "join"} ->
                    [tid |-> MCText[4 * n - 1], fn |-> MCText[4 * n]]
               [] Word(n) = "wait" -> Operands(n)
               [] OTHER -> MCText[4 * n - 1]]

MCBody ==
  [nest |-> <<1, 2, 9>>,  breaks |-> <<10>>,  calls |-> <<18, 19>>,
   f |-> <<24>>,  asserts |-> <<29, 30, 37>>,
   waits |-> <<38, 40, 41, 42, 44>>,  forloop |-> <<45>>,
   locks |-> <<52, 53, 54, 55>>,  worker |-> <<56, 57, 58, 61>>,
   signals |-> <<62, 63, 64, 65, 66, 67>>,
   consumer |-> <<68, 69, 71, 72, 73>>,  continues |-> <<74, 82>>,
   condcalls |-> <<83>>,  pool |-> <<86, 87, 88, 89, 90>>,
   taker |-> <<91, 102>>,  loopfirst |-> <<103>>,  twocalls |-> <<111>>,
   g |-> <<>>,  labelled |-> <<112, 115>>]
=============================================================================

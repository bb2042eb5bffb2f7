-------------------------------- MODULE CText --------------------------------
(***************************************************************************)
(* C text as a sequence of tokens, and what a function does that is        *)
(* written in it: the yardstick for the passes that rewrite the text.      *)
(*                                                                         *)
(* A token has a word and the row of the source that it stands for (0 for  *)
(* most of them).  "NL" ends a row and "sp" is a blank that matters; other *)
(* blanks are left out.  A flow graph has a node for each statement and    *)
(* condition, found by the position of its token: what it does, and what   *)
(* comes after it, for a condition when it holds (yes) and when not (no).  *)
(***************************************************************************)
EXTENDS Integers, SequencesExt

Tok(w)     == [w |-> w, row |-> 0]
Toks(ws)   == [i \in DOMAIN ws |-> Tok(ws[i])]
Words(s)   == [i \in DOMAIN s |-> s[i].w]
Blank      == {"NL", "sp"}
Types      == {"int", "char", "pthread_t", "_Bool"}
Digits     == {"0", "1"}
Signs      == {";", ",", "(", ")", "{", "}", "=", "+", "-", "!", "+=", "-="} \cup Blank
IsName(w)  == w \notin Digits \cup Signs

(* The first position from i on, and the last one up to i, that Test picks *)
(* (Len(s) + 1 or 0 if there is none).                                     *)
Next1(s, i, Test(_)) == Min({j \in i..Len(s) : Test(s[j].w)} \cup {Len(s) + 1})
Prev1(s, i, Test(_)) == Max({j \in 1..i : Test(s[j].w)} \cup {0})

(* How many more braces w than v are between i and j.                      *)
Depth(s, i, j, w, v) == Cardinality({k \in i..j : s[k].w = w}) - Cardinality({k \in i..j : s[k].w = v})

(* The position of the bracket that closes the one at i.                   *)
Closing(s, i) ==
  LET v == IF s[i].w = "(" THEN ")" ELSE "}"
  IN  Min({j \in i..Len(s) : s[j].w = v /\ Depth(s, i, j, s[i].w, v) = 0})

-----------------------------------------------------------------------------
(* The flow of a statement: where it begins, what comes behind it in the   *)
(* text, and its nodes; k, b and c are where the statement, a break and a  *)
(* continue lead to.  0 is the end of the function.                        *)

Node(what, yes, no)      == [what |-> what, yes |-> yes, no |-> no]
Flow(entry, after, nodes) == [entry |-> entry, after |-> after, nodes |-> nodes]
NoNodes == <<>>

(* What an assignment does: x -= e is x = x - e, and NULL is 0.            *)
Meaning(ws) ==
  LET m == IF Len(ws) > 1 /\ ws[2] \in {"+=", "-="}
             THEN <<ws[1], "=", ws[1], IF ws[2] = "+=" THEN "+" ELSE "-">> \o SubSeq(ws, 3, Len(ws))
             ELSE ws
  IN  [i \in DOMAIN m |-> IF m[i] = "NULL" THEN "0" ELSE m[i]]

(* The parts of i..j, which commas separate.                               *)
Parts(s, i, j) ==
  LET ends == {e \in i..j + 1 : e = j + 1 \/ s[e].w = ","}
  IN  {<<Max({e + 1 : e \in {f \in ends : f < x}} \cup {i}), x - 1>> : x \in ends}

(* A declaration whose initial values are constants does nothing here; the *)
(* others are assignments, from left to right.                             *)
Assigned(s, i, j) ==
  {p \in Parts(s, i, j) : \E e \in p[1]..p[2] : s[e].w = "=" /\ \E v \in e..p[2] : IsName(s[v].w)}

(* Nodes for an expression or a declaration from i up to j, then k.        *)
Simple(s, i, j, k) ==
  IF s[i].w \in Types
    THEN LET as == Assigned(s, i + 1, j)
             next(p) == LET more == {q \in as : q[1] > p[1]}
                        IN  IF more = {} THEN k ELSE Min({q[1] : q \in more})
         IN  Flow(IF as = {} THEN k ELSE Min({p[1] : p \in as}), 0,
                  [x \in {p[1] : p \in as} |->
                     LET p == CHOOSE q \in as : q[1] = x
                     IN  Node(Meaning(Words(SubSeq(s, p[1], p[2]))), next(p), next(p))])
    ELSE IF j < i THEN Flow(k, 0, NoNodes)
    ELSE Flow(i, 0, [x \in {i} |-> Node(Meaning(Words(SubSeq(s, i, j))), k, k)])

(* The node of the condition between the brackets at o and c.              *)
Test(s, o, yes, no) ==
  IF s[o + 1].w = "!" THEN Node(<<"?", s[o + 3].w>>, no, yes)
                      ELSE Node(<<"?", s[o + 1].w>>, yes, no)

RECURSIVE Stmt(_, _, _, _, _), Stmts(_, _, _, _, _)
Stmt(s, p, k, b, c) ==
  LET w == s[p].w
      semi == Next1(s, p, LAMBDA x : x = ";")
  IN CASE w = "{" ->
            LET f == Stmts(s, p + 1, k, b, c) IN Flow(f.entry, f.after + 1, f.nodes)
       [] w = "ERROR:" -> Stmt(s, p + 1, k, b, c)
       [] w = "break"    -> Flow(b, semi + 1, NoNodes)
       [] w = "continue" -> Flow(c, semi + 1, NoNodes)
       [] w = "while" ->
            LET close == Closing(s, p + 1)
                body == Stmt(s, close + 1, p, k, p)
            IN  Flow(p, body.after, body.nodes @@ (p :> Test(s, p + 1, body.entry, k)))
       [] w = "do" ->
            LET end == Stmt(s, p + 1, p, k, p).after
                body == Stmt(s, p + 1, p, k, p)
            IN  Flow(body.entry, Closing(s, end + 1) + 2, body.nodes @@ (p :> Test(s, end + 1, body.entry, k)))
       [] w = "for" ->
            LET close == Closing(s, p + 1)
                two == Next1(s, semi + 1, LAMBDA x : x = ";")
                init == Simple(s, p + 2, semi - 1, p)
                upd  == Simple(s, two + 1, close - 1, p)
                body == Stmt(s, close + 1, upd.entry, k, upd.entry)
            IN  Flow(init.entry, body.after,
                     init.nodes @@ upd.nodes @@ body.nodes @@ (p :> Test(s, semi, body.entry, k)))
       [] w = "if" ->
            LET close == Closing(s, p + 1)
                yes == Stmt(s, close + 1, k, b, c)
                no == IF yes.after <= Len(s) /\ s[yes.after].w = "else"
                        THEN Stmt(s, yes.after + 1, k, b, c) ELSE Flow(k, yes.after, NoNodes)
            IN  Flow(p, no.after, yes.nodes @@ no.nodes @@ (p :> Test(s, p + 1, yes.entry, no.entry)))
       [] OTHER ->
            LET f == Simple(s, p, semi - 1, k) IN Flow(f.entry, semi + 1, f.nodes)
Stmts(s, p, k, b, c) ==
  IF s[p].w = "}" THEN Flow(k, p, NoNodes)
  ELSE LET rest == Stmts(s, Stmt(s, p, k, b, c).after, k, b, c)
           one == Stmt(s, p, rest.entry, b, c)
       IN  Flow(one.entry, rest.after, one.nodes @@ rest.nodes)

(* The function that text s defines under one of the names fs.  One whose  *)
(* name is in locked holds the lock while it runs.                         *)
Function(s, fs, locked) ==
  LET t == SelectSeq(s, LAMBDA x : x.w \notin Blank)
      p == CHOOSE i \in 1..Len(t) : t[i].w \in fs /\ t[i + 1].w = "("
      plain == Stmt(t, p + 3, 0, 0, 0)
      under == Stmt(t, p + 3, -2, 0, 0)
  IN  IF t[p].w \in locked
        THEN Flow(-1, 0, under.nodes @@ (-1 :> Node(<<"lock">>, under.entry, under.entry))
                                     @@ (-2 :> Node(<<"unlock">>, 0, 0)))
        ELSE plain

(* A loop that never ends by its condition is not seen to test it.         *)
RECURSIVE Settle(_, _)
Settle(g, p) == IF p # 0 /\ g[p].what = <<"?", "1">> THEN Settle(g, g[p].yes) ELSE p
=============================================================================

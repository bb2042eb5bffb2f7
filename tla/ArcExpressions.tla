--------------------------- MODULE ArcExpressions ---------------------------
(***************************************************************************)
(* Expression trees (expression_tree.cpp) and their evaluation (CPN's      *)
(* CTN2SingleColor, CTN2Token, CTN2MS).                                    *)
(*                                                                         *)
(* A text is a sequence of words: operators, variables, colours, and cases *)
(* "case$cond:key=>text:...:default;".  The text of an arc is a sequence   *)
(* of items, each with the "++" or "--" before it; an item is a token      *)
(* "1`{...}" or cases set one after the other.  Numbers are integers: no   *)
(* reals or strings but the thread of a token, which stands apart.         *)
(***************************************************************************)
EXTENDS MultiSets, SequencesExt

Op(s)    == <<[k |-> "op", s |-> s]>>
Var(v)   == <<[k |-> "variable", v |-> v]>>
Color(n) == <<[k |-> "color", v |-> n]>>
Case(cond, arms, dft) == <<[k |-> "case", cond |-> cond, arms |-> arms, dft |-> dft]>>
Arm(key, then) == [key |-> key, then |-> then]

NoText == <<>>                  \* an empty string, or "default"
Null   == [node_type |-> "null"]

\* Results that no C program has: a C++ exception, and a variable of the net
\* that the binding did not set.
Thrown == -99999
Stale  == -88888

\* The name that is left of a text cut in the middle: no variable of the net.
Lost == <<"lost">>

-----------------------------------------------------------------------------
Unary == {"!", "@"}

priority(s) ==
  CASE s = "#" -> -2
    [] s = "(" -> -1
    [] s \in {"&&", "||"} -> 1
    [] s \in {">", "<", ">=", "<=", "==", "!="} -> 2
    [] s \in {"+", "-"} -> 3
    [] s \in {"*", "/", "%"} -> 4
    [] s \in {"&", "|"} -> 5
    [] OTHER -> 7

\* A "*" is an operator only behind a name, a number or a case.
is_operator(text, i) ==
  /\ text[i].k = "op"
  /\ text[i].s = "*" => i > 1 /\ text[i - 1].k # "op"

process_stack(st) ==
  LET o == Head(st.o)  n == Len(st.n)
  IN  IF o \in Unary
      THEN [st EXCEPT !.o = Tail(@),
            !.n = Append(Front(@), [node_type |-> "Operator", node_name |-> o, left |-> Last(st.n), right |-> Null])]
      ELSE [st EXCEPT !.o = Tail(@),
            !.n = Append(SubSeq(@, 1, n - 2),
                         [node_type |-> "Operator", node_name |-> o, left |-> st.n[n - 1], right |-> st.n[n]])]

RECURSIVE Until(_, _)
Until(st, bound) ==             \* processes what binds as tightly as bound
  IF Head(st.o) \notin {"#", "("} /\ bound <= priority(Head(st.o)) THEN Until(process_stack(st), bound) ELSE st

\* A number without its first digit.
Cut(n) == n % (CHOOSE p \in {10, 100, 1000, 10000} : p <= n /\ n < 10 * p)

\* What is read of a last part other than "default".  It is taken to have a
\* key: what stands up to its first "=>" is dropped, and if it has none, as
\* in c ? a : b, its first character.  Of an operator nothing is left, of a
\* number its other digits, of a name no name of the net.  Where no expression
\* is left, the value that is read is no program's either.
Behind(text) ==
  LET w == Head(text)
  IN  CASE \E i \in DOMAIN text : text[i].k = "case" -> Var(Lost)
        [] w.k = "op" /\ w.s \in {"!", "-"} -> Tail(text)
        [] w.k = "color" /\ w.v >= 10 -> Color(Cut(w.v)) \o Tail(text)
        [] w.k = "color" /\ w.v < 10 /\ Len(text) > 1 -> Tail(text)
        [] w.k = "variable" -> Var(Lost) \o Tail(text)
        [] OTHER -> Var(Lost)

RECURSIVE color_construct(_), manytoken_construct(_), process_case(_, _), Scan(_, _, _)

\* The tree of an arm: of a token text if many, otherwise of a colour text.
Part(text, many) ==
  IF text = NoText THEN Null ELSE IF many THEN manytoken_construct(text) ELSE color_construct(text)

\* The arms in order (the last part of token texts is always "default").
process_case(case, many) ==
  IF case.arms = <<>> THEN Part(IF case.dft = NoText THEN NoText ELSE Behind(case.dft), many)
  ELSE [node_type |-> "CaseOperator", condition |-> color_construct(case.cond \o Op("==") \o Head(case.arms).key),
        left |-> Part(Head(case.arms).then, many), right |-> process_case([case EXCEPT !.arms = Tail(@)], many)]

\* Words gathered that are no operator make one leaf: a "*" that was taken
\* for the beginning of a name gives a constant that reads as 0.
Singlecolor_construct(tmp) ==
  LET w == Head(tmp)
  IN  CASE w.k = "case" -> process_case(w, FALSE)
        [] w.k = "variable" -> [node_type |-> "variable", node_name |-> w.v]
        [] w.k = "color" -> [node_type |-> "color", value |-> w.v]
        [] OTHER -> [node_type |-> "color", value |-> 0]

Gathered(st) ==
  IF st.tmp = <<>> THEN st ELSE [st EXCEPT !.n = Append(@, Singlecolor_construct(st.tmp)), !.tmp = <<>>]

\* A "-" that no operand stands before is a sign.
Taken(st, text, i) ==
  IF ~is_operator(text, i) THEN [st EXCEPT !.tmp = Append(@, text[i])]
  ELSE LET o == text[i].s
           sign  == o = "-" /\ st.tmp = <<>>
           bound == IF sign \/ o = "(" THEN 8 ELSE IF o = ")" THEN -1 ELSE priority(o)
       IN  [Until(Gathered(st), bound) EXCEPT
              !.o = IF o = ")" THEN Tail(@) ELSE <<IF sign THEN "@" ELSE o>> \o @]

Scan(text, i, st) ==
  IF i > Len(text) THEN Last(Until(Gathered(st), -2).n) ELSE Scan(text, i + 1, Taken(st, text, i))

color_construct(text) == Scan(text, 1, [o |-> <<"#">>, n |-> <<>>, tmp |-> <<>>])

-----------------------------------------------------------------------------
\* Arc expressions.  A token has its data, the index of an array's element
\* (-1: none), its address, and whether it ends with the thread.
TokenItem(data, index, id, tid) == [k |-> "token", data |-> data, index |-> index, id |-> id, tid |-> tid]
CasesItem(blocks) == [k |-> "cases", blocks |-> blocks]
Alone(item) == <<[op |-> "++", item |-> item]>>

RECURSIVE item_construct(_)
\* Of cases set one after the other only the first is read.
item_construct(item) ==
  IF item.k = "cases" THEN process_case(item.blocks[1], TRUE)
  ELSE [node_type |-> "Token", data |-> [j \in DOMAIN item.data |-> color_construct(item.data[j])],
        index |-> item.index, id |-> color_construct(item.id), tid |-> item.tid]

\* Operators associate to the right: a ++ b -- c is a ++ (b -- c).
manytoken_construct(mt) ==
  IF Len(mt) = 1 THEN item_construct(mt[1].item)
  ELSE [node_type |-> "TokenOperator", node_name |-> mt[2].op,
        left |-> item_construct(mt[1].item), right |-> manytoken_construct(Tail(mt))]

-----------------------------------------------------------------------------
Truth(b) == IF b THEN 1 ELSE 0

\* C's division rounds to zero.
Quotient(a, b) ==
  LET q == (IF a < 0 THEN -a ELSE a) \div (IF b < 0 THEN -b ELSE b) IN IF (a < 0) = (b < 0) THEN q ELSE -q

operate(a, b, o) ==
  CASE o = "+" -> a + b   [] o = "-" -> a - b   [] o = "*" -> a * b
    [] o = "/" -> Quotient(a, b)   [] o = "%" -> a - b * Quotient(a, b)
    [] o = "!" -> Truth(a = 0)     [] o = "@" -> -a
    [] o = "==" -> Truth(a = b)  [] o = "!=" -> Truth(a # b)
    [] o = "<" -> Truth(a < b)   [] o = "<=" -> Truth(a <= b)
    [] o = ">" -> Truth(a > b)   [] o = ">=" -> Truth(a >= b)
    [] o = "&&" -> Truth(a # 0 /\ b # 0)   [] o = "||" -> Truth(a # 0 \/ b # 0)

RECURSIVE CTN2SingleColor(_, _)
CTN2SingleColor(root, env) ==
  CASE root.node_type = "color" -> root.value
    [] root.node_type = "variable" ->
         IF root.node_name = Lost THEN Thrown
         ELSE IF root.node_name \in DOMAIN env THEN env[root.node_name] ELSE Stale
    [] root.node_type = "Operator" ->
         LET l == CTN2SingleColor(root.left, env)
         IN  operate(l, IF root.right = Null THEN 0 ELSE CTN2SingleColor(root.right, env), root.node_name)
    [] root.node_type = "CaseOperator" ->
         IF CTN2SingleColor(root.condition, env) # 0 THEN CTN2SingleColor(root.left, env)
         ELSE IF root.right = Null THEN Thrown ELSE CTN2SingleColor(root.right, env)

\* The token an item stands for under a binding, by which thread it is fired.
CTN2Token(root, env, tid) ==
  [data |-> [j \in DOMAIN root.data |-> CTN2SingleColor(root.data[j], env)], index |-> root.index,
   id |-> CTN2SingleColor(root.id, env), tid |-> IF root.tid = "tid" THEN tid ELSE root.tid]

RECURSIVE CTN2MS(_, _, _)
CTN2MS(root, env, tid) ==
  CASE root.node_type = "Token" -> SingleToken(CTN2Token(root, env, tid), 1)
    [] root.node_type = "TokenOperator" ->
         LET l == PLUS(EmptyMS, CTN2MS(root.left, env, tid))
             r == CTN2MS(root.right, env, tid)
         IN  IF root.node_name = "++" THEN PLUS(l, r) ELSE MINUS(l, r)
    [] root.node_type = "CaseOperator" ->
         IF CTN2SingleColor(root.condition, env) # 0 THEN PLUS(EmptyMS, CTN2MS(root.left, env, tid))
         ELSE IF root.right = Null THEN EmptyMS ELSE PLUS(EmptyMS, CTN2MS(root.right, env, tid))
    [] root.node_type = "null" -> EmptyMS
=============================================================================

----------------------------- MODULE Preprocess -----------------------------
(***************************************************************************)
(* The passes that rewrite the C text before it is parsed                  *)
(* (pre_process.cpp, preProcessGetRowMap), and the row map that leads from *)
(* the rows of the source, which a formula names, to the rows of the       *)
(* rewritten text, which the net knows (xmlTransform.cpp).  One action is  *)
(* one replacement.  When the text is complete, the source and the         *)
(* rewritten text are run side by side.                                    *)
(*                                                                         *)
(* Words stand for the text between signs.  Left out are the passes that   *)
(* preProcessGetRowMap does not call, and switch.                          *)
(***************************************************************************)
EXTENDS CText

CONSTANTS
  Programs,       \* the programs: sequences of rows, rows are sequences of tokens
  AtomicNames,    \* the function names that begin with __VERIFIER_atomic
  FunctionNames   \* the names of the functions to compare

VARIABLES
  source,         \* the rows of the source
  text,           \* the text (temp_s)
  rowMap,         \* from rows of the source to rows of the file that gcc made
  rowMap1,        \* from there to rows of the text
  phase,          \* the pass that is at work
  rest,           \* what the pass has still to look at (text)
  items,          \* trans_advancedef: what to remove and to insert, and where
  flows,          \* the functions of the source and of the text
  at              \* where they are

passvars == <<text, rowMap1, rest, items>>
runvars  == <<flows, at>>
vars     == <<source, passvars, rowMap, phase, runvars>>

-----------------------------------------------------------------------------
(* Rows and row maps. *)

extractRowNum(s, pos) == 1 + Cardinality({i \in 1..pos - 1 : s[i].w = "NL"})
getRowCount(s)        == Cardinality({i \in DOMAIN s : s[i].w = "NL"})

initRowMap(rowCount)  == [r \in 1..rowCount |-> r]

(* rowMapMultiple throws if a row is not found; here the map is undefined. *)
rowMapMultiple(map1, map2) == [r \in DOMAIN map1 |-> map2[map1[r]]]

(* A slip: the entry with number rowStart stays.                           *)
rowMapOffsetBehind(map, rowStart, rowOffset) ==
  [r \in DOMAIN map |->
     map[r] + IF Cardinality({q \in DOMAIN map : q <= r}) > rowStart THEN rowOffset ELSE 0]

(* The entries are counted: the one with number rowStart and those behind  *)
(* it are moved.                                                           *)
rowMapOffset(map, rowStart, rowOffset) ==
  [r \in DOMAIN map |->
     map[r] + IF Cardinality({q \in DOMAIN map : q <= r}) >= rowStart THEN rowOffset ELSE 0]

-----------------------------------------------------------------------------
(* gcc -E, and what is read from its line markers.  "#f" is a marker for a *)
(* row of this file, "#h" one for another file.                            *)

Marker(row) == [w |-> "#f", row |-> row]

gccpreprocess(rows) ==
  <<<<Marker(1)>>, <<Tok("#h")>>, <<Tok("#h")>>, <<Marker(1)>>>>
    \o FlattenSeq([r \in DOMAIN rows |->
         IF rows[r] # <<>> /\ rows[r][1].w = "#include"
           THEN <<<<Tok("#h")>>, Toks(<<"extern", "int", "h", ";">>), <<Marker(r + 1)>>>>
           ELSE <<rows[r]>>])

(* The marker in the first row does not count, and of several markers for  *)
(* a row the first one counts.  The last row of the source gets no entry.  *)
getRowMap(irows, originRowCount) ==
  LET marks == {j \in 2..Len(irows) : irows[j] # <<>> /\ irows[j][1].w = "#f"}
      keys  == {irows[j][1].row : j \in marks}
      first(k) == 1 + Min({j \in marks : irows[j][1].row = k})
      last  == Max(keys)
  IN  [r \in Min(keys)..(IF last > originRowCount - 1 THEN last ELSE originRowCount) - 1 |->
         LET k == Max({q \in keys : q <= r}) IN first(k) + r - k]

clearLineMarker(irows) ==
  FlattenSeq([j \in DOMAIN irows |->
    IF irows[j] # <<>> /\ irows[j][1].w \in {"#f", "#h"} THEN <<Tok("NL")>> ELSE Append(irows[j], Tok("NL"))])

-----------------------------------------------------------------------------
(* Search and replacement. *)

StartsAt(s, i, ws) ==
  i + Len(ws) - 1 <= Len(s) /\ \A j \in DOMAIN ws : s[i + j - 1].w = ws[j]

(* string::find: the first place of the words ws, Len(s) + 1 if none.      *)
find(s, ws) == Min({i \in 1..Len(s) : StartsAt(s, i, ws)} \cup {Len(s) + 1})

replace(s, i, n, new) == SubSeq(s, 1, i - 1) \o new \o SubSeq(s, i + n, Len(s))

(* Every occurrence, from the left.                                        *)
string_replace(s, ws, new) ==
  LET found == {i \in 1..Len(s) : StartsAt(s, i, ws)}
      apart[i \in 0..Len(s)] ==
        IF i = 0 THEN {}
        ELSE IF i \in found /\ \A j \in apart[i - 1] : j + Len(ws) <= i
          THEN apart[i - 1] \cup {i} ELSE apart[i - 1]
      starts == apart[Len(s)]
  IN  FlattenSeq([i \in DOMAIN s |->
        IF i \in starts THEN new
        ELSE IF \E j \in starts : j < i /\ i < j + Len(ws) THEN <<>> ELSE <<s[i]>>])

EndOfRow(s, i) == Next1(s, i, LAMBDA w : w = "NL")

-----------------------------------------------------------------------------
(* The header of a loop has its three parts on one row; the third one goes *)
(* up to the last bracket of the row (the expression is greedy).           *)

ForHeader(s, i) ==
  LET one == Next1(s, i, LAMBDA w : w = ";")
      two == Next1(s, one + 1, LAMBDA w : w = ";")
      close == Prev1(s, EndOfRow(s, i) - 1, LAMBDA w : w = ")")
  IN  [at |-> i, one |-> one, two |-> two, close |-> close,
       ok |-> s[i].w = "for" /\ StartsAt(s, i + 1, <<"(">>) /\ two < close]

Fors(s) == {i \in 1..Len(s) : s[i].w = "for" /\ ForHeader(s, i).ok}

(* The body ends with the brace that closes its first one, or with the     *)
(* first semicolon outside of braces.                                      *)
BodyEnd(s, close) ==
  Min({i \in close + 1..Len(s) : /\ Depth(s, close + 1, i, "{", "}") = 0
                                 /\ s[i].w \in {"}", ";"}} \cup {Len(s)})

for_to_while(s) ==
  LET h == ForHeader(s, Min(Fors(s)))
      end == BodyEnd(s, h.close)
      part(i, j) == SubSeq(s, i, j)
      newtext == Toks(<<"{">>) \o part(h.at + 2, h.one - 1) \o Toks(<<";", "NL", "while", "(">>)
                   \o part(h.one + 1, h.two - 1) \o Toks(<<")", "{">>) \o part(h.close + 1, end)
                   \o Toks(<<"NL">>) \o part(h.two + 1, h.close - 1) \o Toks(<<";", "}", "}">>)
      forRow == extractRowNum(s, h.at)
      afterContentRow == extractRowNum(s, end) + 1
  IN  [s |-> string_replace(s, Words(part(h.at, end)), newtext),
       rowMap |-> rowMapOffset(rowMapOffset(initRowMap(getRowCount(s)), forRow, 1), afterContentRow, 1)]

(* do ... while (...);, all on one row, with a sign or a blank in front of *)
(* do, which is lost, and one between while and its bracket.               *)
DoWhiles(s) ==
  {i \in 2..Len(s) : s[i].w = "do" /\ ~IsName(s[i - 1].w) /\
     \E j \in i + 2..EndOfRow(s, i) - 1 : StartsAt(s, j, <<"while", "sp", "(">>)}

do_while_to_while(s) ==
  LET i == Min(DoWhiles(s))
      w == Max({j \in i + 2..EndOfRow(s, i) - 1 : StartsAt(s, j, <<"while", "sp", "(">>)})
      end == Next1(s, w, LAMBDA x : x = ";")
      newText == Toks(<<"while", "(", "1", ")", "{">>) \o SubSeq(s, i + 1, w - 1)
                   \o Toks(<<"NL", "if", "(", "!", "(">>) \o SubSeq(s, w + 3, end - 2)
                   \o Toks(<<")", ")", "break", ";", "}">>)
      afterRow == extractRowNum(s, end) + 1
  IN  [s |-> replace(s, i - 1, end - i + 2, newText),
       rowMap |-> rowMapOffset(initRowMap(getRowCount(s)), afterRow, 1)]

-----------------------------------------------------------------------------
(* trans_assign: x -= e becomes x = x-e, the signs one after the other.    *)

trans_assign(s) ==
  LET of(w) == {i \in 1..Len(s) - 1 : IsName(s[i].w) /\ s[i + 1].w = w}
      w == IF of("+=") # {} THEN "+=" ELSE "-="
      i == Min(of(w))
  IN  replace(s, i + 1, 1, Toks(<<"=", s[i].w, IF w = "+=" THEN "+" ELSE "-">>))

Assigns(s) == {i \in 1..Len(s) - 1 : IsName(s[i].w) /\ s[i + 1].w \in {"+=", "-="}}

(* The word _Bool becomes int, NULL becomes 0.                             *)
trans_Bool2int(s) == [i \in DOMAIN s |-> IF s[i].w = "_Bool" THEN [s[i] EXCEPT !.w = "int"] ELSE s[i]]
trans_NULL(s) == [i \in DOMAIN s |-> IF s[i].w = "NULL" THEN [s[i] EXCEPT !.w = "0"] ELSE s[i]]

-----------------------------------------------------------------------------
(* A function whose name begins with __VERIFIER_atomic takes the lock in a *)
(* new row behind its first brace, and gives it back in front of its last. *)

AtomicBraces(s) ==
  {[open |-> i, close |-> Closing(s, i)] : i \in
     {j \in 5..Len(s) : /\ s[j].w = "{"
                        /\ LET k == Prev1(s, j - 1, LAMBDA w : w \notin Blank)
                           IN  k > 3 /\ s[k].w = ")" /\ s[k - 2].w \in AtomicNames /\ s[k - 3].w = "void"}}

trans_atomic(s, map) ==
  LET heads == AtomicBraces(s)
      opens == {h.open : h \in heads}
      closes == {h.close : h \in heads}
      shift(r) == 1 + Cardinality({o \in opens : extractRowNum(s, o) + 1 <= r})
                    + Cardinality({c \in closes : extractRowNum(s, c) <= r})
      with == FlattenSeq([i \in DOMAIN s |->
                IF i \in opens THEN <<s[i]>> \o Toks(<<"NL", "lock", ";">>)
                ELSE IF i \in closes THEN Toks(<<"unlock", ";", "NL">>) \o <<s[i]>>
                ELSE <<s[i]>>])
  IN  IF heads = {} THEN [s |-> s, map |-> map]
      ELSE [s |-> Toks(<<"pthread_mutex_t", "atomic_lock", ";", "NL">>) \o with,
            map |-> rowMapMultiple(map, [r \in 1..getRowCount(s) |-> r + shift(r)])]

-----------------------------------------------------------------------------
(* Declarations on one row from their type on, with something in front of  *)
(* it: the search goes on behind the semicolon of the one before.          *)

dec_type == Types \ {"_Bool"}

Declarations(s) ==
  {i \in 2..Len(s) : s[i].w \in dec_type /\ Next1(s, i, LAMBDA w : w = ";") < EndOfRow(s, i)}

(* Only text with a "=" outside of brackets has something to initialise.   *)
judge_func_def(s) ==
  \A i \in {j \in 1..Len(s) : s[j].w = "="} : Depth(s, 1, i, "(", ")") # 0

(* A slip: the first word is not looked at.                                *)
has_variableBehind(s, i, j) == \E k \in i + 1..j : IsName(s[k].w)

has_variable(s, i, j) == \E k \in i..j : IsName(s[k].w)

(* The declarators whose initial value has a variable lose it (s) and come *)
(* back as assignments (st), the first one first.                          *)
extract_dynamic_init(s) ==
  LET commas == {0, Len(s) + 1} \cup {i \in 1..Len(s) : s[i].w = ","}
      end(i) == Min({c \in commas : c > i})
      begin(i) == Max({c \in commas : c < i})
      dynamic == {i \in 1..Len(s) : s[i].w = "=" /\ has_variable(s, i + 1, end(i) - 1)}
  IN  [s  |-> FlattenSeq([i \in 1..Len(s) |->
                 IF \E d \in dynamic : d <= i /\ i < end(d) THEN <<>> ELSE <<s[i]>>]),
       st |-> FlattenSeq([i \in 1..Len(s) |->
                 IF i \in dynamic THEN SubSeq(s, begin(i) + 1, end(i) - 1) \o <<Tok(";")>> ELSE <<>>])]

(* The declaration at i of what is left to look at: the first place of its *)
(* words in the text is shortened, and the assignments go in front of the  *)
(* first place of the words that follow it.                                *)
trans_dynamic_init(s, left, i) ==
  LET semi == Next1(left, i, LAMBDA w : w = ";")
      old_res == SubSeq(left, i + 1, semi - 1)
      new == extract_dynamic_init(old_res)
      after == SubSeq(left, semi + 1, Len(left))
      short == replace(s, find(s, Words(old_res)), Len(old_res), new.s)
  IN  IF judge_func_def(s) \/ new.st = <<>> THEN [s |-> s, rest |-> after]
      ELSE [s    |-> replace(short, find(short, Words(after)), Len(after), new.st \o after),
            rest |-> new.st \o after]

-----------------------------------------------------------------------------
(* trans_advancedef moves a declaration that follows a statement or begins *)
(* a block to the beginning of the block.                                  *)

Enclosing(s, i) == Max({q \in 1..i : s[q].w = "{" /\ Depth(s, q, i, "{", "}") = 1} \cup {0})

(* What to remove and to insert for the declaration at i of text s.        *)
Moved(s, i) ==
  LET content == SubSeq(s, i, Next1(s, i, LAMBDA w : w = ";"))
      last == Prev1(s, i - 1, LAMBDA w : w \notin Blank)
      open == Enclosing(s, i - 1)
  IN  IF last > 0 /\ s[last].w \in {";", "{"} /\ open # 0
        THEN <<[content |-> content, pos |-> i, is_insert |-> FALSE],
               [content |-> content, pos |-> open + 1, is_insert |-> TRUE]>>
        ELSE <<>>

(* The row of a declaration leads to the row of the brace; of several in a *)
(* row the last one counts.                                                *)
MovedRows(s, its) ==
  [r \in 1..getRowCount(s) |->
     LET of == {i \in DOMAIN its : ~its[i].is_insert /\ extractRowNum(s, its[i].pos) = r}
     IN  IF of = {} THEN r ELSE extractRowNum(s, its[Max(of) + 1].pos)]

(* The items by their places, from the back of the text to its front.      *)
(* Items at one place keep their order, which std::sort keeps up to 16 of  *)
(* them.                                                                   *)
trans_advancedef(s, its) ==
  LET before(i, j) == its[i].pos < its[j].pos \/ (its[i].pos = its[j].pos /\ i < j)
      order == SortSeq([i \in DOMAIN its |-> i], before)
      change(i, acc) == IF its[i].is_insert THEN replace(acc, its[i].pos, 0, its[i].content)
                                            ELSE replace(acc, its[i].pos, Len(its[i].content), <<>>)
  IN  FoldRight(change, order, s)

-----------------------------------------------------------------------------
(* What a formula can name, after changeProgramXML2PDNetXML: a row stands  *)
(* for all transitions of the row it leads to, a variable and a row for    *)
(* the place of the variable that is declared there.                       *)

FinalRow(row) == rowMap1[rowMap[row]]

(* The tokens that stand for something of the source.                      *)
Heads(s) == {i \in DOMAIN s : s[i].row # 0 /\ s[i].w # "#f"}

getRowRelatedPT(row) == {text[i].row : i \in {j \in Heads(text) : extractRowNum(text, j) = row}}

statementTransform(row) == getRowRelatedPT(FinalRow(row))

(* Declarations stand in the order of the tables, the first one in the row *)
(* counts.                                                                 *)
getVarRelatedP(name, row) ==
  Min({i \in 2..Len(text) : /\ text[i].w = name /\ text[i - 1].w \in dec_type
                            /\ extractRowNum(text, i) = row})

variableTransform(name, row) == getVarRelatedP(name, FinalRow(row))

-----------------------------------------------------------------------------
(* The passes *)

Source == FlattenSeq([r \in DOMAIN source |-> Append(source[r], Tok("NL"))])

Init ==
  /\ source \in Programs
  /\ text = <<>> /\ rowMap = <<>> /\ rowMap1 = <<>>
  /\ phase = "gcc"
  /\ rest = <<>> /\ items = <<>>
  /\ flows = <<>> /\ at = <<>>

(* gcc -E, getRowMap, clearLineMarker, and the words that are replaced.    *)
Read ==
  /\ phase = "gcc"
  /\ LET irows == gccpreprocess(source)
         s == clearLineMarker(irows)
     IN  /\ rowMap' = getRowMap(irows, Len(source))
         /\ text' = trans_Bool2int(trans_NULL(s))
         /\ rowMap1' = initRowMap(getRowCount(s))
  /\ phase' = "assign"
  /\ UNCHANGED <<source, rest, items, runvars>>

Assign ==
  /\ phase = "assign" /\ Assigns(text) # {}
  /\ text' = trans_assign(text)
  /\ UNCHANGED <<source, rowMap, rowMap1, phase, rest, items, runvars>>

(* for_to_while_all *)
ForToWhile ==
  /\ phase = "assign" /\ Assigns(text) = {} /\ Fors(text) # {}
  /\ LET w == for_to_while(text)
     IN  text' = w.s /\ rowMap1' = rowMapMultiple(rowMap1, w.rowMap)
  /\ UNCHANGED <<source, rowMap, phase, rest, items, runvars>>

(* do_while_to_while_all *)
DoWhileToWhile ==
  /\ phase = "assign" /\ Assigns(text) = {} /\ Fors(text) = {} /\ DoWhiles(text) # {}
  /\ LET w == do_while_to_while(text)
     IN  text' = w.s /\ rowMap1' = rowMapMultiple(rowMap1, w.rowMap)
  /\ UNCHANGED <<source, rowMap, phase, rest, items, runvars>>

Atomic ==
  /\ phase = "assign" /\ Assigns(text) = {} /\ Fors(text) = {} /\ DoWhiles(text) = {}
  /\ LET a == trans_atomic(text, rowMap1)
     IN  text' = a.s /\ rowMap1' = a.map /\ rest' = a.s
  /\ phase' = "dynamic"
  /\ UNCHANGED <<source, rowMap, items, runvars>>

DynamicInit ==
  /\ phase = "dynamic" /\ Declarations(rest) # {}
  /\ LET d == trans_dynamic_init(text, rest, Min(Declarations(rest)))
     IN  text' = d.s /\ rest' = d.rest
  /\ UNCHANGED <<source, rowMap, rowMap1, phase, items, runvars>>

DynamicInitEnds ==
  /\ phase = "dynamic" /\ Declarations(rest) = {}
  /\ rest' = text /\ phase' = "advance"
  /\ UNCHANGED <<source, text, rowMap, rowMap1, items, runvars>>

AdvanceDef ==
  /\ phase = "advance" /\ Declarations(rest) # {}
  /\ LET i == Min(Declarations(rest))
         semi == Next1(rest, i, LAMBDA w : w = ";")
     IN  /\ items' = items \o Moved(text, Len(text) - Len(rest) + i)
         /\ rest' = SubSeq(rest, semi + 1, Len(rest))
  /\ UNCHANGED <<source, text, rowMap, rowMap1, phase, runvars>>

AdvanceDefEnds ==
  /\ phase = "advance" /\ Declarations(rest) = {}
  /\ text' = trans_advancedef(text, items)
  /\ rowMap1' = rowMapMultiple(rowMap1, MovedRows(text, items))
  /\ items' = <<>> /\ rest' = <<>> /\ phase' = "abort"
  /\ UNCHANGED <<source, rowMap, runvars>>

(* trans_addAbort: two functions in two rows of their own.                 *)
trans_addAbort(s) ==
  Toks(<<"void", "reach_error", "(", ")", "{", "}", "NL", "void", "abort", "(", ")", "{", "}", "NL">>) \o s

(* Declarations and calls of __VERIFIER_atomic_begin and _end, and the     *)
(* label ERROR: go.                                                        *)
trans_deleteAtomicBeginEnd(s) ==
  SelectSeq(string_replace(string_replace(s, <<"extern", "atomic_begin", ";">>, <<>>), <<"atomic_begin", ";">>, <<>>),
            LAMBDA t : t.w # "ERROR:")

Finish ==
  /\ phase = "abort"
  /\ text' = trans_deleteAtomicBeginEnd(trans_addAbort(text))
  /\ rowMap1' = rowMapOffset(rowMap1, 1, 2)
  /\ phase' = "run"
  /\ flows' = <<Function(Source, FunctionNames, AtomicNames), Function(text', FunctionNames, {})>>
  /\ at' = [k \in {1, 2} |-> Settle(flows'[k].nodes, flows'[k].entry)]
  /\ UNCHANGED <<source, rowMap, rest, items>>

(* The source and the text take a statement or decide a condition.         *)
Here(k) == flows[k].nodes[at[k]]
Run ==
  /\ phase = "run" /\ 0 \notin {at[1], at[2]}
  /\ Here(1).what = Here(2).what
  /\ \/ at' = [k \in {1, 2} |-> Settle(flows[k].nodes, Here(k).yes)]
     \/ at' = [k \in {1, 2} |-> Settle(flows[k].nodes, Here(k).no)]
  /\ UNCHANGED <<source, passvars, rowMap, phase, flows>>

Next ==
  \/ Read \/ Assign \/ ForToWhile \/ DoWhileToWhile \/ Atomic
  \/ DynamicInit \/ DynamicInitEnds \/ AdvanceDef \/ AdvanceDefEnds
  \/ Finish \/ Run

Spec == Init /\ [][Next]_vars

-----------------------------------------------------------------------------
(* Properties *)

(* Behind every pass, a row of the source that has a statement, a          *)
(* condition or a declaration leads to the row of the text where it stands *)
(* now: the proposition for the row is about its transitions, and the one  *)
(* for a variable declared there finds its place.                          *)
RowsFollow ==
  phase # "gcc" =>
    \A i \in Heads(Source) :
      /\ Source[i].row \in statementTransform(Source[i].row)
      /\ (phase = "run" /\ Source[i].w \in Types) =>
           text[variableTransform(Source[i + 1].w, Source[i].row) - 1].row = Source[i].row

(* The rewritten text does what the source does: the same assignments,     *)
(* calls and tests in the same order, however its conditions turn out, and *)
(* under the lock in an atomic function.                                   *)
RunsAlike ==
  phase = "run" =>
    \/ at[1] = 0 /\ at[2] = 0
    \/ 0 \notin {at[1], at[2]} /\ Here(1).what = Here(2).what
=============================================================================

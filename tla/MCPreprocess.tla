---------------------------- MODULE MCPreprocess ----------------------------
(* Functions made of loops, declarations and statements in every order.    *)
EXTENDS Preprocess

(* A row: its words, and which of them stands for the row (0: none).       *)
Row(ws, head) == [ws |-> ws, head |-> head]

(* for (i = 0; c1; i += 1) { s1; }                                         *)
Loop == <<Row(<<"for", "(", "i", "=", "0", ";", "c1", ";", "i", "+=", "1", ")", "{">>, 7),
          Row(<<"s1", ";">>, 1), Row(<<"}">>, 0)>>
(* for (int j = n; c2; u2) s2; in two rows                                 *)
Bare == <<Row(<<"for", "(", "int", "j", "=", "n", ";", "c2", ";", "u2", ")">>, 8), Row(<<"s2", ";">>, 1)>>
(* for (; c3; u3) { for (k = 0; c4; u4) { s3; if (c5) break; } }           *)
Nested == <<Row(<<"for", "(", ";", "c3", ";", "u3", ")", "{">>, 4),
            Row(<<"for", "(", "k", "=", "0", ";", "c4", ";", "u4", ")", "{">>, 7),
            Row(<<"s3", ";">>, 1), Row(<<"if", "(", "c5", ")">>, 3), Row(<<"break", ";">>, 0),
            Row(<<"}">>, 0), Row(<<"}">>, 0)>>
(* do { s4; z = NULL; } while (c6);                                        *)
DoLoop == <<Row(<<"sp", "do", "{", "s4", ";", "z", "=", "NULL", ";", "}", "while", "sp", "(", "c6", ")", ";">>, 4)>>
(* int v = y;   int p = 0, q = y, r = v;   _Bool b = y;                    *)
Dynamic == <<Row(<<"int", "v", "=", "y", ";">>, 1)>>
Several == <<Row(<<"int", "p", "=", "0", ",", "q", "=", "y", ",", "r", "=", "q", ";">>, 1),
             Row(<<"_Bool", "b", "=", "y", ";">>, 1)>>
(* while (c7) { int w = y; if (c8) break; s5; y -= a; }                    *)
While == <<Row(<<"while", "(", "c7", ")", "{">>, 3), Row(<<"int", "w", "=", "y", ";">>, 1),
           Row(<<"if", "(", "c8", ")">>, 3), Row(<<"break", ";">>, 0),
           Row(<<"s5", ";">>, 1), Row(<<"y", "-=", "a", ";">>, 1), Row(<<"}">>, 0)>>
(* if (c9) s6; else { s7; }  with a label                                  *)
Branch == <<Row(<<"if", "(", "c9", ")">>, 3), Row(<<"s6", ";">>, 1), Row(<<"else", "{">>, 0),
            Row(<<"ERROR:", "s7", ";">>, 2), Row(<<"}">>, 0)>>

Fragments == {Loop, Bare, Nested, DoLoop, Dynamic, Several, While, Branch}

Function1(fs, name, before) ==
  before \o <<Row(<<"int", "y", "=", "0", ";">>, 0), Row(<<"void", name, "(", ")", "{">>, 0)>>
         \o FlattenSeq(fs) \o <<Row(<<"s9", ";">>, 1), Row(<<"}">>, 0)>>

Numbered(rows) ==
  [r \in DOMAIN rows |-> [i \in DOMAIN rows[r].ws |->
     [w |-> rows[r].ws[i], row |-> IF i = rows[r].head THEN r ELSE 0]]]

(* Up to three fragments in a function, and up to two in an atomic one     *)
(* behind an include.                                                      *)
Bodies == {<<f>> : f \in Fragments} \cup {fs \in Fragments \X Fragments : fs[1] # fs[2]}
MCPrograms ==
  {Numbered(Function1(fs, "main", <<>>)) : fs \in Bodies}
    \cup {Numbered(Function1(fs, "main", <<>>)) :
             fs \in {t \in Fragments \X Fragments \X Fragments : t[1] # t[2] /\ t[2] # t[3] /\ t[1] # t[3]}}
    \cup {Numbered(Function1(fs, "atomic_f", <<Row(<<"#include">>, 0)>>)) : fs \in Bodies}
MCAtomicNames   == {"atomic_f"}
MCFunctionNames == {"main", "atomic_f"}
=============================================================================

----------------------------- MODULE MultiSets -----------------------------
(***************************************************************************)
(* Class MultiSet: the tokens of a place.  mapTokens maps the tokens that  *)
(* occur to their counts, and color_count is kept by hand next to it: it   *)
(* should be the number of different tokens.  A count may be negative      *)
(* between the MINUS and the PLUS of one arc expression.  The 16 bits of a *)
(* count (token_count_t) are not modelled: the counts of a net are small.  *)
(***************************************************************************)
EXTENDS Integers, FiniteSets

Tokens(ms) == DOMAIN ms.mapTokens
EmptyMS == [mapTokens |-> [t \in {} |-> 0], color_count |-> 0]

\* What a multiset holds of a token.
Held(ms, t) == IF t \in Tokens(ms) THEN ms.mapTokens[t] ELSE 0

SingleToken(t, n) == [mapTokens |-> [u \in {t} |-> n], color_count |-> 1]

-----------------------------------------------------------------------------

\* A token that is not held enters uncounted; one that is used up leaves.
MINUS(a, b) ==
  LET spent == {t \in Tokens(a) \cap Tokens(b) : a.mapTokens[t] = b.mapTokens[t]}
  IN  [mapTokens |-> [t \in (Tokens(a) \cup Tokens(b)) \ spent |-> Held(a, t) - Held(b, t)],
       color_count |-> a.color_count - Cardinality(spent)]

PLUS(a, b) ==
  [mapTokens |-> [t \in Tokens(a) \cup Tokens(b) |-> Held(a, t) + Held(b, t)],
   color_count |-> a.color_count + Cardinality(Tokens(b) \ Tokens(a))]

\* Drops the counts of zero, without counting them off.
merge(ms) ==
  [ms EXCEPT !.mapTokens = [t \in {u \in Tokens(ms) : ms.mapTokens[u] # 0} |-> ms.mapTokens[t]]]

\* operator==: the numbers of colours, and then only b's tokens in a.
\* Slip: only the numbers of colours.
SameCounts(a, b) == a.color_count = b.color_count

Same(a, b) ==
  /\ a.color_count = b.color_count
  /\ \A t \in Tokens(b) : t \in Tokens(a) /\ a.mapTokens[t] = b.mapTokens[t]

-----------------------------------------------------------------------------
\* A multiset as the rest of the program takes it: counts of one or more,
\* and as many colours as color_count says.
Exact(ms) ==
  /\ IsFiniteSet(Tokens(ms))
  /\ ms.mapTokens \in [Tokens(ms) -> Nat \ {0}]
  /\ ms.color_count = Cardinality(Tokens(ms))

\* operator>=.
AtLeast(a, b) == \A t \in Tokens(b) : t \in Tokens(a) /\ a.mapTokens[t] >= b.mapTokens[t]
=============================================================================

--------------------------- MODULE MCQueryRefresh ---------------------------
(***************************************************************************)
(* QueryRefresh on two queries.                                            *)
(***************************************************************************)
EXTENDS QueryRefresh

CONSTANTS k1, k2

MCText(first, second, others) ==
    [key |-> <<first, second>>, parameterized |-> others]

\* Twins; twins of which the second shadows the first; different texts, one parameterized
MCTexts == { MCText(k1, k1, {}), MCText(k1, k1, {2}), MCText(k1, k2, {2}) }

\* Plain queries with different texts
TwoTexts == { MCText(k1, k2, {}) }
=============================================================================

----------------------------- MODULE MCDnsCache -----------------------------
(* DnsCacheUse on a small instance. *)
EXTENDS DnsCacheUse, TLC

CONSTANT d

\* A response with these answer and additional TTLs.
Msg(ans, add, fits) ==
  [parses |-> TRUE, fits |-> fits, data |-> d,
   answers |-> ans, additionals |-> add]

MCData == {d}

\* Between them: a TTL of zero, one below and one above the bounds, a shorter
\* additional record, no answers at all, a response whose length changes when
\* it is encoded again, and one that does not parse.
MCResponses ==
  { Msg({2}, {}, TRUE), Msg({4}, {}, TRUE), Msg({2, 4}, {0}, TRUE),
    Msg({}, {}, TRUE), Msg({2}, {}, FALSE),
    [Msg({}, {}, FALSE) EXCEPT !.parses = FALSE] }

Symmetry == Permutations(Keys)
=============================================================================

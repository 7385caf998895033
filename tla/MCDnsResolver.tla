--------------------------- MODULE MCDnsResolver ---------------------------
(* DnsResolver on a small instance: q1 by UDP, t1 and t2 on one TCP         *)
(* connection.                                                              *)
EXTENDS DnsResolver, TLC

CONSTANTS q1, t1, t2, c1, k2

MCVia == [q \in Queries |-> IF q \in {t1, t2} THEN c1 ELSE Udp]
MCNo == [q \in Queries |-> IF q = t2 THEN 2 ELSE 1]

\* An answer about k2 is one byte too long for its length prefix.
Size(key) == IF key = k2 THEN 65536 ELSE 512

MCData ==
  { [id |-> q, key |-> key, asOf |-> t, size |-> Size(key)] :
      q \in Queries, key \in Keys \cup {NoKey}, t \in 0..MaxTime }

\* One record; the other shapes of a response are the cache's own run.
MCResponses ==
  { [parses |-> TRUE, fits |-> TRUE, answers |-> {1}, additionals |-> {}, data |-> x] :
      x \in MCData }
=============================================================================

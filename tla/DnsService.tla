----------------------------- MODULE DnsService -----------------------------
(***************************************************************************)
(* What zebrafish-dns promises a client and a reader of its query log,      *)
(* whatever happens behind it: it takes a query once; for one that parses   *)
(* it makes a reply ready, with at most one line in the log, written before *)
(* any of the reply is; the reply is then sent, or lost with its client.  A *)
(* query that does not parse is ignored.  A query may stay pending for good *)
(* if the upstream is silent, and ready for good if its client does not     *)
(* read.                                                                    *)
(***************************************************************************)
EXTENDS Naturals

CONSTANT Queries

VARIABLES
  state,     \* state[q]: what became of q
  lines      \* lines[q]: lines of the query log about q

svars == <<state, lines>>

Move(q, from, to) == state[q] = from /\ state' = [state EXCEPT ![q] = to]

Quiet(q, from, to) == Move(q, from, to) /\ UNCHANGED lines

Take(q) == Quiet(q, "idle", "pending")
TakeBad(q) == Quiet(q, "idle", "bad")
Reply(q) == Quiet(q, "ready", "replied")
Lose(q) == Quiet(q, "ready", "lost")
Ignore(q) == Quiet(q, "bad", "ignored")

Ready(q) ==
  /\ Move(q, "pending", "ready")
  /\ \/ UNCHANGED lines
     \/ lines' = [lines EXCEPT ![q] = 1]

Init ==
  /\ state = [q \in Queries |-> "idle"]
  /\ lines = [q \in Queries |-> 0]

Next ==
  \E q \in Queries :
    Take(q) \/ TakeBad(q) \/ Ready(q) \/ Reply(q) \/ Lose(q) \/ Ignore(q)

Spec == Init /\ [][Next]_svars
=============================================================================

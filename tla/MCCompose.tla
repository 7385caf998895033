----------------------------- MODULE MCCompose -----------------------------
(* Compose on small instances: three projects that declare a network each.  *)
EXTENDS Compose

MCFiles == <<"caddy", "cloud", "web">>
MCProjects == {"caddy", "cloud", "web"}
MCNetworks == MCProjects \cup {"host"}
MCDeclares == [p \in MCProjects |-> {p}]

\* Every dependency between them, cycles included; caddy joins a network
\* that is managed elsewhere, too.
MCJoins ==
  { j \in [MCProjects -> SUBSET MCNetworks] :
      \A p \in MCProjects : p \notin j[p] /\ ("host" \in j[p] <=> p = "caddy") }

\* Two projects, one joining the other's network.
MCTwoFiles == <<"caddy", "cloud">>
MCTwoProjects == {"caddy", "cloud"}
MCTwoDeclares == [p \in MCTwoProjects |-> {p}]
MCTwoJoins == {[caddy |-> {"cloud"}, cloud |-> {}]}
=============================================================================

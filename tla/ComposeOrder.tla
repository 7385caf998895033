---------------------------- MODULE ComposeOrder ----------------------------
(***************************************************************************)
(* order_compose_projects of rootfs-overlay/etc/init.d/S64compose: sort the *)
(* compose projects so that a project that declares a network comes before  *)
(* the projects that join it.  The script makes passes over the projects     *)
(* left; a pass that orders none ends the loop and the rest go last.         *)
(*                                                                         *)
(* A network is named by its project and its key in the compose file; the   *)
(* parsing of the file (compose_networks, project_name) is abstracted to    *)
(* the two sets it yields for a project.                                     *)
(***************************************************************************)
EXTENDS Integers, Sequences

CONSTANTS
  Projects,   \* the compose files
  Files,      \* the order in which find lists them
  Networks,   \* qualified network names
  Declares    \* Declares[p]: networks p creates ("external: false")

Elements(s) == {s[i] : i \in 1..Len(s)}
NoDuplicates(s) == \A i, j \in 1..Len(s) : s[i] = s[j] => i = j

ASSUME OrderAssumption ==
  /\ Files \in Seq(Projects) /\ Elements(Files) = Projects /\ NoDuplicates(Files)
  /\ Declares \in [Projects -> SUBSET Networks]

VARIABLES
  joins,     \* joins[p]: networks p takes from elsewhere ("external: true")
  stage,     \* "none" (not called), "sorting" or "sorted" (it returned)
  pending,   \* left to visit in this pass
  next,      \* put off to the next pass
  ordered,   \* the result so far
  progress   \* this pass ordered something

orderVars == <<stage, pending, next, ordered, progress>>

ALL_PROJECT_NETWORKS == UNION {Declares[p] : p \in Projects}
ORDERED_NETWORKS == UNION {Declares[p] : p \in Elements(ordered)}

\* Broken variant: a network nobody under /compose declares is never there.
OnlyOrdered(net) == net \in ORDERED_NETWORKS

network_satisfied(net) == net \in ORDERED_NETWORKS \/ net \notin ALL_PROJECT_NETWORKS

Ready(p) == \A net \in joins[p] : network_satisfied(net)
-----------------------------------------------------------------------------
OrderBegin ==
  /\ stage' = "sorting"
  /\ pending' = Files /\ next' = <<>> /\ ordered' = <<>> /\ progress' = FALSE

\* Broken variant: a project that is not ready is taken too.
VisitTakesAll ==
  /\ stage = "sorting" /\ pending # <<>>
  /\ pending' = Tail(pending) /\ ordered' = Append(ordered, Head(pending))
  /\ progress' = TRUE
  /\ UNCHANGED <<stage, next>>

Visit ==
  /\ stage = "sorting" /\ pending # <<>>
  /\ pending' = Tail(pending)
  /\ IF Ready(Head(pending))
     THEN /\ ordered' = Append(ordered, Head(pending))
          /\ progress' = TRUE
          /\ UNCHANGED next
     ELSE /\ next' = Append(next, Head(pending))
          /\ UNCHANGED <<ordered, progress>>
  /\ UNCHANGED stage

NextPass ==
  /\ stage = "sorting" /\ pending = <<>> /\ next # <<>> /\ progress
  /\ pending' = next /\ next' = <<>> /\ progress' = FALSE
  /\ UNCHANGED <<stage, ordered>>

\* "Anything still unresolved is attempted last".
OrderEnd ==
  /\ stage = "sorting" /\ pending = <<>> /\ (next = <<>> \/ ~progress)
  /\ stage' = "sorted"
  /\ ordered' = ordered \o next /\ next' = <<>>
  /\ UNCHANGED <<pending, progress>>

-----------------------------------------------------------------------------
(* What the order is for *)

Declarers(net) == {p \in Projects : net \in Declares[p]}

\* A set of projects in which each waits for a network only the set declares: no
\* order satisfies any of them.
Deadlocked(S) ==
  \A p \in S : \E net \in joins[p] \cap ALL_PROJECT_NETWORKS : Declarers(net) \subseteq S

Unresolvable(p) == \E S \in SUBSET Projects : p \in S /\ Deadlocked(S)

DeclaredBefore(i) == UNION {Declares[ordered[j]] : j \in 1..(i - 1)}

\* The result lists each project exactly once (S64compose: "instead of silently
\* dropping the project").
Complete == Elements(ordered) = Projects /\ NoDuplicates(ordered)

\* Each project that some order can satisfy comes after a provider of every
\* network it joins (S64compose: "the projects providing a network come before
\* the projects joining it").
ProvidersFirst ==
  \A i \in 1..Len(ordered) :
    ~Unresolvable(ordered[i]) =>
      joins[ordered[i]] \cap ALL_PROJECT_NETWORKS \subseteq DeclaredBefore(i)

\* When the function returns, its result is complete and providers come first.
OrderCorrect == stage = "sorted" => Complete /\ ProvidersFirst
=============================================================================

------------------------------ MODULE Compose ------------------------------
(***************************************************************************)
(* rootfs-overlay/etc/init.d/S64compose: start, stop and pull of all compose *)
(* projects under /compose, over a container engine whose commands may fail *)
(* and a machine that may reboot at any point.  Container records outlive a *)
(* reboot, the files they depend on and the boot marker in /run do not.      *)
(***************************************************************************)
EXTENDS ComposeOrder

CONSTANTS
  JoinChoices,   \* what the compose files may join
  MaxOps,        \* bound: invocations of the script
  MaxBoots       \* bound: reboots

\* Folder names stay different under project_name: a network has one declarer.
\* There is a compose file: without one, printf still prints an empty line, and the
\* loops have one turn, in the directory the script was called from.
ASSUME ComposeAssumption ==
  /\ Files # <<>>
  /\ JoinChoices \subseteq [Projects -> SUBSET Networks]
  /\ \A p, q \in Projects : p # q => Declares[p] \cap Declares[q] = {}
  /\ MaxOps \in Nat /\ MaxBoots \in Nat

VARIABLES
  up,       \* containerd answers
  nets,     \* networks that exist, of those some project declares
  ctr,      \* ctr[p]: the containers of p
  other,    \* the engine's other containers, on networks of their own: "none",
            \* "running", or "orphan" (records of an earlier boot only)
  marker,   \* COMPOSE_BOOT_MARKER exists
  op,       \* the command running: "none", "start", "stop" or "pull"
  pc,       \* the loop it is in
  at,       \* position in that loop
  failed,   \* history: a command of this run failed
  ops, boots

engine == <<up, nets, ctr, other>>
script == <<marker, op, pc, at, failed>>
vars == <<joins, orderVars, engine, script, ops, boots>>

Present(p) == ctr[p] # "none"

\* Joined networks that a project under /compose has to provide.
Needs(p) == joins[p] \cap ALL_PROJECT_NETWORKS

\* Networks containers of other projects are attached to.
UsedByOthers(p) == UNION {Needs(q) : q \in {r \in Projects \ {p} : Present(r)}}

Goto(loop) == pc' = loop /\ at' = 1
Exit == op' = "none" /\ Goto("idle")
-----------------------------------------------------------------------------
Begin(command) ==
  /\ op = "none" /\ ops < MaxOps
  /\ ops' = ops + 1 /\ op' = command /\ failed' = FALSE
  /\ CASE command = "start" -> Goto("clean") /\ UNCHANGED orderVars
       [] command = "stop"  -> Goto("order") /\ OrderBegin
       [] command = "pull"  -> Goto("pull") /\ UNCHANGED orderVars
  /\ UNCHANGED <<joins, engine, marker, boots>>

\* Broken variant: every start removes every container.
CleanAlways ==
  /\ pc = "clean"
  /\ ctr' = IF up THEN [p \in Projects |-> "none"] ELSE ctr
  /\ other' = IF up THEN "none" ELSE other
  /\ Goto("mark")
  /\ UNCHANGED <<joins, orderVars, up, nets, marker, op, failed, ops, boots>>

\* do_start goes on when wait_for_containerd gives up.  The first time in a boot,
\* all that `docker ps -aq' finds is removed, as far as that succeeds: what already
\* runs in this boot too, and what belongs to no project ...
Clean ==
  /\ pc = "clean"
  /\ IF up /\ ~marker
     THEN /\ \E left \in SUBSET {p \in Projects : Present(p)} :
               ctr' = [p \in Projects |-> IF p \in left THEN ctr[p] ELSE "none"]
          /\ other' \in {other, "none"}
     ELSE UNCHANGED <<ctr, other>>
  /\ Goto("mark")
  /\ UNCHANGED <<joins, orderVars, up, nets, marker, op, failed, ops, boots>>

\* ... and the marker is set whatever came of it.
Mark ==
  /\ pc = "mark"
  /\ marker' = TRUE
  /\ Goto("order") /\ OrderBegin
  /\ UNCHANGED <<joins, engine, op, failed, ops, boots>>

Order ==
  /\ pc = "order"
  /\ \/ (Visit \/ NextPass) /\ UNCHANGED <<pc, at>>
     \/ OrderEnd /\ Goto(IF op = "start" THEN "create" ELSE "stop")
  /\ UNCHANGED <<joins, engine, marker, op, failed, ops, boots>>
-----------------------------------------------------------------------------
(* One command of the loops, for the project at position i *)

\* Broken variant: the projects are torn down in the order they were created in.
Forward(i) == ordered[i]

\* do_stop walks the order backwards.
Reversed(i) == ordered[Len(ordered) + 1 - i]

\* The next project, or the next loop.
Advance(loop) ==
  IF at < Len(Files)
  THEN at' = at + 1 /\ UNCHANGED <<pc, op>>
  ELSE IF loop = "idle" THEN Exit ELSE Goto(loop) /\ UNCHANGED op

Step(loop, after) ==
  /\ pc = loop
  /\ Advance(after)
  /\ UNCHANGED <<joins, orderVars, up, other, marker, ops, boots>>

\* The command fails, without effect.
Failure(loop, after) ==
  /\ Step(loop, after)
  /\ failed' = TRUE
  /\ UNCHANGED <<nets, ctr>>

\* docker compose create: the networks declared, then the containers.  A joined
\* network that is missing is an error.
Create ==
  LET p == ordered[at] IN
  /\ Step("create", "start")
  /\ up /\ Needs(p) \subseteq nets
  /\ nets' = nets \cup Declares[p]
  /\ ctr' = [ctr EXCEPT ![p] = IF @ = "none" THEN "created" ELSE @]
  /\ UNCHANGED failed

\* It may fail half-way: with networks, and with some containers.
CreateFailure ==
  LET p == ordered[at] IN
  /\ Step("create", "start")
  /\ failed' = TRUE
  /\ \/ UNCHANGED <<nets, ctr>>
     \/ /\ up /\ nets' = nets \cup Declares[p]
        /\ \E made \in {ctr[p], "created"} :
             ctr' = [ctr EXCEPT ![p] = IF @ = "none" THEN made ELSE @]

\* docker compose start: an orphaned record cannot be started.
Start ==
  LET p == ordered[at] IN
  /\ Step("start", "idle")
  /\ up /\ ctr[p] \in {"created", "running"}
  /\ ctr' = [ctr EXCEPT ![p] = "running"]
  /\ UNCHANGED <<nets, failed>>

Stop ==
  LET p == Reversed(at) IN
  /\ Step("stop", "down")
  /\ up
  /\ ctr' = [ctr EXCEPT ![p] = IF @ = "running" THEN "created" ELSE @]
  /\ UNCHANGED <<nets, failed>>

\* Broken variant: the networks are left.
DownKeepsNetworks ==
  /\ Step("down", "idle")
  /\ up
  /\ ctr' = [ctr EXCEPT ![Reversed(at)] = "none"]
  /\ UNCHANGED <<nets, failed>>

\* docker compose down and docker network rm: a network in use stays.
Down ==
  LET p == Reversed(at) IN
  /\ Step("down", "idle")
  /\ up
  /\ ctr' = [ctr EXCEPT ![p] = "none"]
  /\ nets' = nets \ (Declares[p] \ UsedByOthers(p))
  /\ UNCHANGED failed

\* down failed: network rm still removes the networks no container is left on.
DownFailure ==
  LET p == Reversed(at) IN
  /\ Step("down", "idle")
  /\ failed' = TRUE
  /\ \/ UNCHANGED <<nets, ctr>>
     \/ /\ up /\ nets' = nets \ (Declares[p] \ UsedByOthers(p))
        /\ ctr' = [ctr EXCEPT ![p] = "none"]

\* pull: new images, then `compose up' for the projects that run.
Pull ==
  LET p == Files[at] IN
  /\ Step("pull", "idle")
  /\ \/ ctr[p] # "running" /\ UNCHANGED nets
     \/ ctr[p] = "running" /\ up /\ Needs(p) \subseteq nets /\ nets' = nets \cup Declares[p]
  /\ UNCHANGED <<ctr, failed>>

\* `compose up' stops the old containers first.
PullFailure ==
  LET p == Files[at] IN
  /\ Step("pull", "idle")
  /\ ctr[p] = "running"
  /\ \E left \in {"running", "created"} : ctr' = [ctr EXCEPT ![p] = left]
  /\ failed' = TRUE
  /\ UNCHANGED nets
-----------------------------------------------------------------------------
ContainerdUp ==
  /\ ~up /\ up' = TRUE
  /\ UNCHANGED <<joins, orderVars, nets, ctr, other, script, ops, boots>>

\* S63coolify, or the operator, runs containers of no project and takes them away.
OtherRuns ==
  /\ up /\ other # "running" /\ other' = "running"
  /\ UNCHANGED <<joins, orderVars, up, nets, ctr, script, ops, boots>>

OtherEnds ==
  /\ up /\ other = "running" /\ other' = "none"
  /\ UNCHANGED <<joins, orderVars, up, nets, ctr, script, ops, boots>>

\* The operator brings a project up by hand, while the script does not run.
UpByHand(p) ==
  /\ op = "none" /\ ops < MaxOps /\ ops' = ops + 1
  /\ up /\ Needs(p) \subseteq nets /\ ctr[p] # "orphan"
  /\ nets' = nets \cup Declares[p]
  /\ ctr' = [ctr EXCEPT ![p] = "running"]
  /\ UNCHANGED <<joins, orderVars, up, other, script, boots>>

\* The operator interrupts the script.
Interrupt ==
  /\ op # "none"
  /\ Exit
  /\ stage' = "none" /\ UNCHANGED <<pending, next, ordered, progress>>
  /\ UNCHANGED <<joins, engine, marker, failed, ops, boots>>

Reboot ==
  /\ boots < MaxBoots /\ boots' = boots + 1
  /\ up' = FALSE /\ marker' = FALSE /\ failed' = FALSE
  /\ ctr' = [p \in Projects |-> IF Present(p) THEN "orphan" ELSE "none"]
  /\ other' = IF other = "none" THEN "none" ELSE "orphan"
  /\ \E kept \in {nets, {}} : nets' = kept
  /\ Exit
  /\ stage' = "none" /\ UNCHANGED <<pending, next, ordered, progress>>
  /\ UNCHANGED <<joins, ops>>

Init ==
  /\ joins \in JoinChoices
  /\ stage = "none" /\ pending = <<>> /\ next = <<>> /\ ordered = <<>> /\ progress = FALSE
  /\ up = FALSE /\ nets = {} /\ ctr = [p \in Projects |-> "none"] /\ other = "none"
  /\ marker = FALSE /\ op = "none" /\ pc = "idle" /\ at = 1 /\ failed = FALSE
  /\ ops = 0 /\ boots = 0

Next ==
  \/ \E command \in {"start", "stop", "pull"} : Begin(command)
  \/ Clean \/ Mark \/ Order
  \/ Create \/ CreateFailure
  \/ Start \/ Failure("start", "idle")
  \/ Stop \/ Failure("stop", "down")
  \/ Down \/ DownFailure
  \/ Pull \/ PullFailure
  \/ ContainerdUp \/ OtherRuns \/ OtherEnds \/ (\E p \in Projects : UpByHand(p))
  \/ Interrupt \/ Reboot

Spec == Init /\ [][Next]_vars
-----------------------------------------------------------------------------
(* Properties *)

\* "the networks another project joins already exist by the time it is created":
\* a start whose commands succeed never meets a missing network, unless no order
\* could provide it.
NetworksExistAtCreate ==
  pc = "create" /\ ~failed /\ ~Unresolvable(ordered[at]) => Needs(ordered[at]) \subseteq nets

\* "Tear down consumers first, so no network is removed while a container from
\* another project is still attached to it": a stop whose commands succeed.
ConsumersGoFirst ==
  pc = "down" /\ ~failed /\ (\A p \in Projects : ~Unresolvable(p)) =>
    Declares[Reversed(at)] \cap UsedByOthers(Reversed(at)) = {}

\* "so the next start cannot inherit stale CNI state": a stop whose commands
\* succeed leaves no network and no container behind, also after earlier starts
\* and stops that failed or were interrupted.
StopLeavesNothing ==
  [][Down /\ at = Len(Files) /\ ~failed /\ (\A p \in Projects : ~Unresolvable(p)) =>
       nets' = {} /\ \A p \in Projects : ctr'[p] = "none"]_vars

\* Once a start of this boot has set the marker, what runs goes on running: only a
\* stop, or an update that fails, ends the containers of a project, and no command
\* of the script ends those of no project.  Before that the cleaning takes whatever
\* runs (S64compose do_start).
RunningSurvives ==
  [][/\ \A p \in Projects : ctr[p] = "running" /\ ctr'[p] # "running" =>
          pc \in {"stop", "down"} \/ (pc = "pull" /\ failed') \/ ~marker'
     /\ other = "running" /\ other' # "running" => OtherEnds \/ ~marker']_vars

\* "Drop those orphaned records once per boot": past the cleaning, none is left.
OrphansDropped == marker => \A p \in Projects : ctr[p] # "orphan"
=============================================================================

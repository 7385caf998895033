------------------------------ MODULE NbdHeal ------------------------------
(***************************************************************************)
(* The NBD supervisor, rootfs-overlay/etc/nbd-heal/nbd-heal: a loop that    *)
(* watches the NBD devices and the ZFS pools on them, attaches a device that *)
(* is gone and resumes a suspended pool with `zpool clear', over an          *)
(* environment of servers, transports and pools that fail at any time.       *)
(* Before it starts, S45nbd connects the devices and S46mounts imports the   *)
(* pools; these two and S48nbd-heal can be run again by hand.                *)
(*                                                                         *)
(* Time is discrete.  The timestamps last_clear and last_wedged only matter *)
(* through their ages, which are kept up to the delay they are compared     *)
(* with; the age of a timestamp of 0 (never) is that delay.                  *)
(***************************************************************************)
EXTENDS Integers, Sequences, FiniteSets

CONSTANTS
  DEV,             \* the configured NBD devices, in order
  Unnamed,         \* those whose server has only the anonymous export
  POOLS,           \* the configured pools, in order
  Backing,         \* Backing[p]: the devices under pool p
  INTERVAL, FAIL_THRESHOLD, REPAIR_BACKOFF, CLEAR_COOLDOWN,
  WEDGED_HOLD,     \* the literal 600 of the main loop
  max_attempts     \* of S45nbd

Devices == {DEV[k] : k \in DOMAIN DEV}
Pools == {POOLS[k] : k \in DOMAIN POOLS}

ASSUME HealAssumption ==
  /\ DEV \in Seq(Devices) /\ DEV # << >> /\ Unnamed \subseteq Devices
  /\ POOLS \in Seq(Pools) /\ Backing \in [Pools -> SUBSET Devices]
  /\ {INTERVAL, FAIL_THRESHOLD, REPAIR_BACKOFF, CLEAR_COOLDOWN, WEDGED_HOLD,
      max_attempts} \subseteq Nat \ {0}

VARIABLES
  (* the environment *)
  server,      \* server[d]: "down", "hung" (accepts and says no more) or "up"
  link,        \* link[d]: "missing" (no size), "alive", "stalled" or "dead"
  pool,        \* pool[p]: the health zpool reports
  (* the daemon *)
  pc,          \* of init: "connect", "wait", "import"; then of the daemon, or
               \* "none" and, with a child that still has its lock, "orphan"
  nap,         \* ticks left to sleep
  i,           \* place of the current loop in DEV or in POOLS
  counter,     \* attempts of S45nbd at the current device
  failures,    \* consecutive bad checks
  all_ok,      \* all_attached and all_answer
  wedged,      \* repair will return 2
  clearAge,    \* age of last_clear, up to CLEAR_COOLDOWN
  wedgeAge,    \* age of last_wedged, up to WEDGED_HOLD
  (* history, read by the properties only *)
  probed,      \* devices whose read completed in this repair
  quiet,       \* quiet[p]: time since this daemon last cleared p, as clearAge
  said         \* the last line on a repair, a clear or a wedged pool

env == <<server, link, pool>>
daemon == <<pc, nap, i, counter, failures, all_ok, wedged, clearAge, wedgeAge>>
vars == <<env, daemon, probed, quiet, said>>

Alive(d) == link[d] = "alive"
SetLink(d, state) == link' = [link EXCEPT ![d] = state]

Booting == pc \in {"connect", "wait", "import"}
Stopped == pc \in {"none", "orphan"}

Older(age, limit) == IF age < limit THEN age + 1 ELSE age
-----------------------------------------------------------------------------
(* The environment: not part of the scripts *)

\* nbd-server on the exporting host starts, stops or hangs, or the network does.
ServerChange(d) ==
  /\ \E state \in {"down", "hung", "up"} \ {server[d]} : server' = [server EXCEPT ![d] = state]
  /\ UNCHANGED <<link, pool>>

\* A stall may pass ...
Stall(d) == Alive(d) /\ SetLink(d, "stalled") /\ UNCHANGED <<server, pool>>

Unstall(d) ==
  /\ link[d] = "stalled" /\ server[d] = "up"
  /\ SetLink(d, "alive") /\ UNCHANGED <<server, pool>>

\* ... or last longer than the kernel's -timeout: only a reboot helps that device.
TimeOut(d) == link[d] = "stalled" /\ SetLink(d, "dead") /\ UNCHANGED <<server, pool>>

\* A server that is stopped takes its connections with it.
Drop(d) ==
  /\ link[d] \in {"alive", "stalled"} /\ server[d] = "down"
  /\ SetLink(d, "missing") /\ UNCHANGED <<server, pool>>

Suspend(p) ==
  /\ pool[p] \in {"ONLINE", "DEGRADED"} /\ \E d \in Backing[p] : ~Alive(d)
  /\ pool' = [pool EXCEPT ![p] = "SUSPENDED"]
  /\ UNCHANGED <<server, link>>

Environment ==
  /\ \/ \E d \in Devices :
          ServerChange(d) \/ Stall(d) \/ Unstall(d) \/ TimeOut(d) \/ Drop(d)
     \/ \E p \in Pools : Suspend(p)
  /\ UNCHANGED <<daemon, probed, quiet, said>>

\* Time passes while the daemon sleeps, and while a command of it runs.
Tick ==
  /\ pc = "sleep" => nap > 0
  /\ nap' = IF nap > 0 THEN nap - 1 ELSE 0
  /\ clearAge' = Older(clearAge, CLEAR_COOLDOWN)
  /\ wedgeAge' = Older(wedgeAge, WEDGED_HOLD)
  /\ quiet' = [p \in Pools |-> Older(quiet[p], CLEAR_COOLDOWN)]
  /\ UNCHANGED <<env, pc, i, counter, failures, all_ok, wedged, probed, said>>
-----------------------------------------------------------------------------
(* Boot: S45nbd start, S46mounts start, S48nbd-heal start *)

\* nbd-client over a device that has no size yet, when the server is up and has
\* an export of that kind.
Connected(d, exported) ==
  IF link[d] = "missing" /\ server[d] = "up" /\ exported
  THEN SetLink(d, "alive")
  ELSE UNCHANGED link

\* The named export or, failing that, the anonymous one.  Nothing ends an
\* nbd-client whose server accepts the connection and then says nothing.
S45Connect ==
  /\ pc = "connect" /\ server[DEV[i]] # "hung"
  /\ Connected(DEV[i], TRUE)
  /\ IF i = Len(DEV) THEN pc' = "wait" /\ i' = 1 ELSE i' = i + 1 /\ UNCHANGED pc
  /\ UNCHANGED <<server, pool, nap, counter, failures, all_ok, wedged, clearAge, wedgeAge,
                 probed, quiet, said>>

\* S45nbd is through with a device.
NextWait ==
  /\ IF i = Len(DEV) THEN pc' = "import" /\ i' = 1 ELSE i' = i + 1 /\ UNCHANGED pc
  /\ counter' = 0

\* Broken variant: no limit on the attempts.
S45WaitForever ==
  /\ pc = "wait" /\ Alive(DEV[i]) /\ NextWait
  /\ UNCHANGED <<env, nap, failures, all_ok, wedged, clearAge, wedgeAge,
                 probed, quiet, said>>

\* One turn of the loop: the disk has appeared, or the attempt is counted.
S45Wait ==
  /\ pc = "wait"
  /\ IF Alive(DEV[i]) \/ counter + 1 >= max_attempts
     THEN NextWait
     ELSE counter' = counter + 1 /\ UNCHANGED <<pc, i>>
  /\ UNCHANGED <<env, nap, failures, all_ok, wedged, clearAge, wedgeAge,
                 probed, quiet, said>>

\* zpool import of one pool; its result, the keys and the mounts are only printed.
Imported(p) ==
  IF pool[p] = "MISSING" /\ \A d \in Backing[p] : Alive(d)
  THEN pool' = [pool EXCEPT ![p] = "ONLINE"]
  ELSE UNCHANGED pool

S46Import ==
  /\ pc = "import" /\ i <= Len(POOLS)
  /\ Imported(POOLS[i]) /\ i' = i + 1
  /\ UNCHANGED <<server, link, pc, nap, counter, failures, all_ok, wedged,
                 clearAge, wedgeAge, probed, quiet, said>>

\* A process with all its variables at their start, or none any more.
Fresh(state) ==
  /\ pc' = state /\ nap' = 0 /\ i' = 1 /\ counter' = 0 /\ failures' = 0
  /\ all_ok' = TRUE /\ wedged' = FALSE
  /\ clearAge' = CLEAR_COOLDOWN /\ wedgeAge' = WEDGED_HOLD

S48Start ==
  /\ pc = "import" /\ i > Len(POOLS)
  /\ Fresh("sleep")
  /\ UNCHANGED <<env, probed, quiet, said>>

Boot == S45Connect \/ S45Wait \/ S46Import \/ S48Start
-----------------------------------------------------------------------------
(* main *)

\* Broken variant: a device that is gone does not count.
BadPoolsOnly == \E p \in Pools : pool[p] = "SUSPENDED"

Bad == \/ \E d \in Devices : link[d] = "missing"
       \/ \E p \in Pools : pool[p] = "SUSPENDED"

CheckGood ==
  /\ pc = "sleep" /\ nap = 0 /\ ~Bad
  /\ failures' = 0 /\ nap' = INTERVAL
  /\ UNCHANGED <<env, pc, i, counter, all_ok, wedged, clearAge, wedgeAge, probed, quiet, said>>

\* Below the threshold, or held after a wedged repair: only count.
Held(count) == count < FAIL_THRESHOLD \/ wedgeAge < WEDGED_HOLD

CheckBad ==
  /\ pc = "sleep" /\ nap = 0 /\ Bad
  /\ LET count == IF failures < FAIL_THRESHOLD THEN failures + 1 ELSE failures
     IN  /\ Held(count)
         /\ failures' = count
  /\ nap' = INTERVAL
  /\ UNCHANGED <<env, pc, i, counter, all_ok, wedged, clearAge, wedgeAge, probed, quiet, said>>

StartRepair ==
  /\ pc = "sleep" /\ nap = 0 /\ Bad
  /\ ~Held(failures + 1)
  /\ pc' = "attach" /\ i' = 1
  /\ all_ok' = TRUE /\ wedged' = FALSE /\ probed' = {}
  /\ said' = <<"repair">>
  /\ UNCHANGED <<env, nap, counter, failures, clearAge, wedgeAge, quiet>>

\* repair returned and its locals are gone: the hold starts or ends, and the
\* back-off runs.
EndRepair ==
  /\ pc = "pools" /\ i > Len(POOLS)
  /\ pc' = "sleep" /\ i' = 1 /\ nap' = REPAIR_BACKOFF /\ failures' = 0
  /\ wedgeAge' = IF wedged THEN 0 ELSE WEDGED_HOLD
  /\ all_ok' = TRUE /\ wedged' = FALSE /\ probed' = {}
  /\ UNCHANGED <<env, counter, clearAge, quiet, said>>
-----------------------------------------------------------------------------
(* repair *)

\* On to the next device, or to the first of what comes after the loop.
NextDev(after) ==
  IF i = Len(DEV) THEN pc' = after /\ i' = 1 ELSE i' = i + 1 /\ UNCHANGED pc

\* 1. A device without a size is connected, by the name of the export only; a
\* server that says nothing is given up.
attach_dev ==
  /\ pc = "attach"
  /\ Connected(DEV[i], DEV[i] \notin Unnamed)
  /\ NextDev("probe")
  /\ UNCHANGED <<server, pool, nap, counter, failures, all_ok, wedged,
                 clearAge, wedgeAge, probed, quiet, said>>

\* Broken variant: a device that is not attached is passed over.
ProbeAttachedOnly ==
  /\ pc = "probe"
  /\ IF Alive(DEV[i])
     THEN probed' = probed \cup {DEV[i]} /\ UNCHANGED all_ok
     ELSE all_ok' = (all_ok /\ link[DEV[i]] = "missing") /\ UNCHANGED probed
  /\ NextDev("pools")
  /\ UNCHANGED <<env, nap, counter, failures, wedged, clearAge, wedgeAge, quiet, said>>

\* 2. One device: attached, and one of two reads completes.
probe_dev ==
  /\ pc = "probe"
  /\ IF Alive(DEV[i])
     THEN probed' = probed \cup {DEV[i]} /\ UNCHANGED all_ok
     ELSE all_ok' = FALSE /\ UNCHANGED probed
  /\ NextDev("pools")
  /\ UNCHANGED <<env, nap, counter, failures, wedged, clearAge, wedgeAge, quiet, said>>

\* 3. The pools in order.  last_clear is one variable for all of them.
Current == POOLS[i]
AtPool == pc = "pools" /\ i <= Len(POOLS)

SkipPool ==
  /\ AtPool /\ pool[Current] # "SUSPENDED"
  /\ i' = i + 1
  /\ UNCHANGED <<env, pc, nap, counter, failures, all_ok, wedged, clearAge, wedgeAge,
                 probed, quiet, said>>

GiveUp ==
  /\ wedged' = TRUE /\ i' = i + 1
  /\ UNCHANGED <<env, pc, nap, counter, failures, all_ok, clearAge, wedgeAge, probed, quiet>>

\* Broken variant: a pool over a dead transport is passed over in silence.
TransportDeadSilent ==
  /\ AtPool /\ pool[Current] = "SUSPENDED" /\ ~all_ok
  /\ GiveUp /\ UNCHANGED said

TransportDead ==
  /\ AtPool /\ pool[Current] = "SUSPENDED" /\ ~all_ok
  /\ GiveUp /\ said' = <<"dead", Current>>

SuspendedAgain ==
  /\ AtPool /\ pool[Current] = "SUSPENDED" /\ all_ok
  /\ clearAge < CLEAR_COOLDOWN
  /\ GiveUp /\ said' = <<"again">>

\* `zpool clear' resumes a pool whose devices answer; otherwise it fails, or
\* succeeds without effect.
ClearStamped(age) ==
  /\ AtPool /\ pool[Current] = "SUSPENDED" /\ all_ok
  /\ clearAge = CLEAR_COOLDOWN
  /\ clearAge' = age /\ quiet' = [quiet EXCEPT ![Current] = 0]
  /\ said' = <<"clear">>
  /\ \/ /\ \A d \in Backing[Current] : Alive(d)
        /\ \E h \in {"ONLINE", "DEGRADED"} : pool' = [pool EXCEPT ![Current] = h]
     \/ /\ \E d \in Backing[Current] : ~Alive(d)
        /\ UNCHANGED pool
  /\ pc' = "verify"
  /\ UNCHANGED <<server, link, nap, i, counter, failures, all_ok, wedged, wedgeAge, probed>>

\* Broken variant: last_clear is not set.
ClearUnstamped == ClearStamped(clearAge)

Clear == ClearStamped(0)

\* After two seconds only ONLINE counts as resumed.
Verify ==
  /\ pc = "verify"
  /\ pc' = "pools" /\ i' = i + 1
  /\ wedged' = (wedged \/ pool[Current] # "ONLINE")
  /\ UNCHANGED <<env, nap, counter, failures, all_ok, clearAge, wedgeAge, probed, quiet, said>>
-----------------------------------------------------------------------------
(* By hand, once the machine is up *)

\* S48nbd-heal stop: the signal takes the shell and not the command it waits for,
\* which has inherited the lock; a sleep is such a command.
S48Stop ==
  /\ ~Booting /\ ~Stopped
  /\ \E left \in {"orphan", "none"} : (nap > 0 => left = "orphan") /\ Fresh(left)
  /\ quiet' = [p \in Pools |-> CLEAR_COOLDOWN] /\ probed' = {}
  /\ UNCHANGED <<env, said>>

OrphanEnds ==
  /\ pc = "orphan" /\ pc' = "none"
  /\ UNCHANGED <<env, nap, i, counter, failures, all_ok, wedged, clearAge, wedgeAge,
                 probed, quiet, said>>

\* S48nbd-heal start: a daemon that does not get the lock exits.
S48StartAgain ==
  /\ Stopped
  /\ IF pc = "orphan"
     THEN UNCHANGED daemon
     ELSE Fresh("sleep")
  /\ UNCHANGED <<env, probed, quiet, said>>

\* One device of S45nbd stop and of S45nbd start.
Detach(d) ==
  /\ ~Booting /\ link[d] \in {"alive", "stalled"} /\ SetLink(d, "missing")
  /\ UNCHANGED <<server, pool, daemon, probed, quiet, said>>

Attach(d) ==
  /\ ~Booting /\ link[d] = "missing" /\ Connected(d, TRUE)
  /\ UNCHANGED <<server, pool, daemon, probed, quiet, said>>

\* One pool of S46mounts start and of S46mounts stop.
Import(p) ==
  /\ ~Booting /\ pool[p] = "MISSING" /\ Imported(p)
  /\ UNCHANGED <<server, link, daemon, probed, quiet, said>>

Export(p) ==
  /\ ~Booting /\ pool[p] \in {"ONLINE", "DEGRADED"} /\ \A d \in Backing[p] : Alive(d)
  /\ pool' = [pool EXCEPT ![p] = "MISSING"]
  /\ UNCHANGED <<server, link, daemon, probed, quiet, said>>

\* The devices, the pools and the daemon are gone; the servers are elsewhere.
Reboot ==
  /\ link' = [d \in Devices |-> "missing"] /\ pool' = [p \in Pools |-> "MISSING"]
  /\ Fresh("connect")
  /\ probed' = {} /\ quiet' = [p \in Pools |-> CLEAR_COOLDOWN] /\ said' = <<"start">>
  /\ UNCHANGED server
-----------------------------------------------------------------------------
Init ==
  /\ server \in [Devices -> {"down", "hung", "up"}]
  /\ link = [d \in Devices |-> "missing"] /\ pool = [p \in Pools |-> "MISSING"]
  /\ pc = "connect" /\ nap = 0 /\ i = 1 /\ counter = 0 /\ failures = 0
  /\ all_ok = TRUE /\ wedged = FALSE
  /\ clearAge = CLEAR_COOLDOWN /\ wedgeAge = WEDGED_HOLD
  /\ probed = {} /\ quiet = [p \in Pools |-> CLEAR_COOLDOWN] /\ said = <<"start">>

Daemon ==
  \/ CheckGood \/ CheckBad \/ StartRepair \/ EndRepair \/ attach_dev \/ probe_dev
  \/ SkipPool \/ TransportDead \/ SuspendedAgain \/ Clear \/ Verify

\* Steps of people, which may go on for ever.
Interference ==
  \/ S48Stop \/ S48StartAgain \/ Reboot
  \/ \E d \in Devices : Detach(d) \/ Attach(d)

Next ==
  \/ Environment \/ Tick \/ Boot \/ Daemon \/ OrphanEnds \/ Interference
  \/ \E p \in Pools : Import(p) \/ Export(p)

\* init and the daemon run when they can, and their commands and sleeps end: what
\* nbd-heal runs has a time limit, and the kernel's ends every read of a device.
\* The exception, nbd-client in S45Connect, is not enabled while it hangs.  Nothing
\* is assumed of the servers and the transports.
Fairness == WF_vars(Boot) /\ WF_vars(Daemon) /\ WF_vars(Tick)

Spec == Init /\ [][Next]_vars /\ Fairness
-----------------------------------------------------------------------------
(* Properties *)

\* "Resume suspended pools, but only over a verified transport": every device
\* answered a read in the repair that clears a pool.
ClearOnlyVerified == [][Clear => probed = Devices]_vars

\* "do not retry zpool clear more often than this": a daemon clears no
\* pool twice within the cool-down (a restart forgets last_clear).
ClearCooldownHonoured == [][Clear => quiet[Current] = CLEAR_COOLDOWN]_vars

\* Once no device stalls or dies, and the server of each that is missing stays up
\* and knows the export by name, all of them get attached and each suspended pool
\* is resumed, for good; unless people attach and detach devices or restart the
\* daemon or the machine for ever, or there is no daemon any more (nbd-heal main,
\* repair).
Healthy == \A d \in Devices : \/ Alive(d)
                              \/ link[d] = "missing" /\ server[d] = "up" /\ d \notin Unnamed
Healed == (\A d \in Devices : Alive(d)) /\ (\A p \in Pools : pool[p] # "SUSPENDED")
HealsWhenPossible ==
  <>[]Healthy => <>[]Healed \/ []<><<Interference>>_vars \/ <>[]Stopped

\* "Report the unrecoverable state loudly instead of staying silent": a pool
\* suspended for good over a device that is attached but dead is reported again
\* and again, with the same exceptions.
StuckOn(p, d) == pool[p] = "SUSPENDED" /\ link[d] \in {"stalled", "dead"}
StuckIsReported ==
  \A p \in Pools : \A d \in Devices :
    <>[]StuckOn(p, d) =>
      []<>(said = <<"dead", p>>) \/ []<><<Interference>>_vars \/ <>[]Stopped

\* "keep booting": with servers that are down, come late or go away again, init gets
\* past the devices and the pools and starts the daemon, unless the machine is
\* rebooted for ever or a server accepts connections and hangs (S45nbd do_start).
BootGoesOn ==
  []<>~Booting \/ []<><<Reboot>>_vars \/ []<>(\E d \in Devices : server[d] = "hung")
=============================================================================

--------------------------- MODULE NbdHealProofs ---------------------------
(***************************************************************************)
(* When nbd-heal clears a pool, for any number of devices and pools, any     *)
(* delays, and an environment that fails between any two commands.           *)
(***************************************************************************)
EXTENDS NbdHeal, TLAPS

(* The inductive invariant *)

HealTypeOK ==
  /\ pc \in {"connect", "wait", "import", "sleep", "attach", "probe", "pools", "verify",
            "none", "orphan"}
  /\ i \in Nat \ {0} /\ probed \subseteq Devices
  /\ clearAge \in 0..CLEAR_COOLDOWN /\ quiet \in [Pools -> 0..CLEAR_COOLDOWN]

\* As long as no probe has failed, the devices before the current one have answered;
\* once the probes are over, they all have.
ProbesCount ==
  /\ pc = "probe" => i <= Len(DEV)
  /\ pc = "attach" => i <= Len(DEV)
  /\ pc = "probe" /\ all_ok => \A k \in DOMAIN DEV : k < i => DEV[k] \in probed
  /\ pc \in {"pools", "verify"} /\ all_ok => probed = Devices

\* last_clear is never older than the last clear of any pool, and unset at boot.
StampIsLast ==
  /\ \A p \in Pools : clearAge <= quiet[p]
  /\ Booting \/ Stopped => clearAge = CLEAR_COOLDOWN

HealInv == HealTypeOK /\ ProbesCount /\ StampIsLast

\* What the proofs use of the devices.
LEMMA DevIs ==
  /\ Len(DEV) \in Nat \ {0} /\ DOMAIN DEV = 1..Len(DEV)
  /\ \A k \in DOMAIN DEV : DEV[k] \in Devices
<1>1. DEV \in Seq(Devices) /\ DEV # << >>
  BY HealAssumption
<1> QED BY <1>1 DEF Devices

\* A daemon at its start, or none any more.
LEMMA FreshStep ==
  ASSUME HealInv, NEW state \in {"sleep", "none", "orphan", "connect"}, Fresh(state),
         probed' \subseteq Devices,
         \/ quiet' = [p \in Pools |-> CLEAR_COOLDOWN]
         \/ quiet' = quiet /\ (Booting \/ Stopped)
  PROVE  HealInv'
<1>0. CLEAR_COOLDOWN \in Nat \ {0}
  BY HealAssumption
<1>1. \A p \in Pools : quiet'[p] = CLEAR_COOLDOWN
  BY <1>0 DEF HealInv, HealTypeOK, StampIsLast
<1>2. quiet' \in [Pools -> 0..CLEAR_COOLDOWN]
  BY <1>0 DEF HealInv, HealTypeOK
<1> QED BY <1>0, <1>1, <1>2 DEF Fresh, HealInv, HealTypeOK, ProbesCount, StampIsLast, Booting, Stopped

\* Steps that have no part in this: what the daemon knows is unchanged, or it is
\* about to start from nothing.
LEMMA ElsewhereStep ==
  ASSUME HealInv,
         \/ Environment \/ Boot \/ CheckGood \/ CheckBad \/ StartRepair \/ EndRepair
         \/ OrphanEnds \/ Interference \/ (\E p \in Pools : Import(p) \/ Export(p))
         \/ SkipPool \/ TransportDead \/ SuspendedAgain \/ Verify
         \/ UNCHANGED vars
  PROVE  HealInv'
<1>0. CLEAR_COOLDOWN \in Nat \ {0}
  BY HealAssumption
<1>8. ASSUME UNCHANGED daemon, UNCHANGED <<probed, quiet>> PROVE HealInv'
  BY <1>8 DEF HealInv, HealTypeOK, ProbesCount, StampIsLast, Booting, Stopped, daemon
<1>1. CASE \/ Environment \/ UNCHANGED vars
           \/ (\E d \in Devices : Detach(d) \/ Attach(d))
           \/ (\E p \in Pools : Import(p) \/ Export(p))
  BY <1>1, <1>8 DEF Environment, Detach, Attach, Import, Export, vars
<1>2. CASE Boot
  <2>1. CASE S45Connect \/ S45Wait
    <3>1. UNCHANGED <<all_ok, clearAge, probed, quiet>> /\ Booting
      BY <2>1 DEF S45Connect, S45Wait, Booting
    <3>2. pc' \in {"connect", "wait", "import"} /\ (i' = 1 \/ i' = i \/ i' = i + 1)
      BY <2>1 DEF S45Connect, S45Wait, NextWait
    <3> QED BY <3>1, <3>2 DEF HealInv, HealTypeOK, ProbesCount, StampIsLast, Booting, Stopped
  <2>2. CASE S46Import
    BY <2>2 DEF S46Import, HealInv, HealTypeOK, ProbesCount, StampIsLast, Booting, Stopped
  <2>3. CASE S48Start
    BY <2>3, FreshStep DEF S48Start, Booting, HealInv, HealTypeOK
  <2> QED BY <1>2, <2>1, <2>2, <2>3 DEF Boot
<1>3. CASE CheckGood \/ CheckBad \/ StartRepair \/ EndRepair
  BY <1>3, DevIs DEF CheckGood, CheckBad, StartRepair, EndRepair,
                     HealInv, HealTypeOK, ProbesCount, StampIsLast, Booting, Stopped
<1>4. CASE S48Stop
  <2>1. PICK left \in {"orphan", "none"} : Fresh(left)
    BY <1>4 DEF S48Stop
  <2> QED BY <1>4, <2>1, FreshStep DEF S48Stop
<1>5. CASE S48StartAgain
  <2>1. CASE pc = "orphan"
    BY <1>5, <1>8, <2>1 DEF S48StartAgain
  <2>2. CASE pc # "orphan"
    BY <1>5, <2>2, FreshStep DEF S48StartAgain, HealInv, HealTypeOK
  <2> QED BY <2>1, <2>2
<1>6. CASE Reboot
  BY <1>6, FreshStep DEF Reboot
<1>7. CASE SkipPool \/ TransportDead \/ SuspendedAgain \/ Verify \/ OrphanEnds
  BY <1>7 DEF SkipPool, TransportDead, SuspendedAgain, GiveUp, AtPool, Verify, OrphanEnds,
              HealInv, HealTypeOK, ProbesCount, StampIsLast, Booting, Stopped
<1> QED BY <1>1, <1>2, <1>3, <1>4, <1>5, <1>6, <1>7 DEF Interference

\* Time passes for all stamps alike.
LEMMA TickStep ==
  ASSUME HealInv, Tick
  PROVE  HealInv'
<1>0. CLEAR_COOLDOWN \in Nat \ {0}
  BY HealAssumption
<1>1. \A a, b \in 0..CLEAR_COOLDOWN :
        a <= b => /\ Older(a, CLEAR_COOLDOWN) <= Older(b, CLEAR_COOLDOWN)
                  /\ Older(a, CLEAR_COOLDOWN) \in 0..CLEAR_COOLDOWN
  BY <1>0 DEF Older
<1>2. /\ UNCHANGED <<pc, i, all_ok, probed>>
      /\ clearAge' = Older(clearAge, CLEAR_COOLDOWN)
      /\ quiet' = [p \in Pools |-> Older(quiet[p], CLEAR_COOLDOWN)]
  BY DEF Tick
<1>3. HealTypeOK'
  BY <1>0, <1>1, <1>2 DEF HealInv, HealTypeOK
<1>4. ProbesCount'
  BY <1>2 DEF HealInv, ProbesCount
<1>5. StampIsLast'
  <2>1. Booting \/ Stopped => Older(clearAge, CLEAR_COOLDOWN) = CLEAR_COOLDOWN
    BY <1>0 DEF HealInv, StampIsLast, Older
  <2> QED BY <1>1, <1>2, <2>1 DEF HealInv, HealTypeOK, StampIsLast, Booting, Stopped
<1> QED BY <1>3, <1>4, <1>5 DEF HealInv

\* A repair between the first device it attaches and the pools.
LEMMA ProbeStep ==
  ASSUME HealInv, attach_dev \/ probe_dev
  PROVE  HealInv'
<1>0. i \in Nat \ {0} /\ Len(DEV) \in Nat \ {0} /\ i <= Len(DEV)
  BY DevIs DEF attach_dev, probe_dev, HealInv, HealTypeOK, ProbesCount
<1>9. i # Len(DEV) => i + 1 \in Nat \ {0} /\ i + 1 <= Len(DEV)
  BY <1>0
<1> USE DEF HealInv, HealTypeOK, ProbesCount, StampIsLast, Booting, Stopped
<1>1. CASE attach_dev
  <2>1. UNCHANGED <<all_ok, clearAge, probed, quiet>> /\ pc = "attach"
    BY <1>1 DEF attach_dev
  <2>2. \/ pc' = "probe" /\ i' = 1
        \/ pc' = "attach" /\ i' = i + 1 /\ i # Len(DEV)
    BY <1>1 DEF attach_dev, NextDev
  <2>3. i' \in Nat \ {0} /\ i' <= Len(DEV)
    BY <1>0, <1>9, <2>2
  <2>4. CASE pc' = "probe" /\ i' = 1
    <3>1. \A k \in DOMAIN DEV : ~(k < i')
      BY <2>4, DevIs
    <3> QED BY <2>1, <2>3, <2>4, <3>1
  <2>5. CASE pc' = "attach"
    BY <2>1, <2>3, <2>5
  <2> QED BY <2>2, <2>4, <2>5
<1>2. CASE probe_dev
  <2>1. DEV[i] \in Devices /\ i \in DOMAIN DEV
    BY <1>2, DevIs DEF probe_dev
  <2>2. /\ probed' \subseteq Devices /\ probed \subseteq probed'
        /\ all_ok' => all_ok /\ DEV[i] \in probed'
        /\ UNCHANGED <<clearAge, quiet>>
    BY <1>2, <2>1 DEF probe_dev
  <2>3. CASE i # Len(DEV)
    <3>1. pc' = "probe" /\ i' = i + 1
      BY <1>2, <2>3 DEF probe_dev, NextDev
    <3>2. all_ok' => \A k \in DOMAIN DEV : k < i' => DEV[k] \in probed'
      BY <1>2, <2>2, <3>1, DevIs DEF probe_dev
    <3>3. i' \in Nat \ {0} /\ i' <= Len(DEV)
      BY <1>9, <2>3, <3>1
    <3> QED BY <2>2, <3>1, <3>2, <3>3
  <2>4. CASE i = Len(DEV)
    <3>1. pc' = "pools" /\ i' = 1
      BY <1>2, <2>4 DEF probe_dev, NextDev
    <3>2. all_ok' => \A k \in DOMAIN DEV : DEV[k] \in probed'
      BY <1>2, <2>2, <2>4, DevIs DEF probe_dev
    <3>3. all_ok' => probed' = Devices
      BY <2>2, <3>2 DEF Devices
    <3> QED BY <2>2, <3>1, <3>3
  <2> QED BY <2>3, <2>4
<1> QED BY <1>1, <1>2

\* A clear stamps the pool and the daemon.
LEMMA ClearStep ==
  ASSUME HealInv, Clear
  PROVE  HealInv'
<1>0. CLEAR_COOLDOWN \in Nat \ {0}
  BY HealAssumption
<1>1. /\ pc = "pools" /\ all_ok /\ pc' = "verify" /\ clearAge' = 0
      /\ quiet' = [quiet EXCEPT ![Current] = 0]
      /\ UNCHANGED <<i, all_ok, probed>>
  BY Zenon DEF Clear, ClearStamped, AtPool
<1>2. quiet' \in [Pools -> 0..CLEAR_COOLDOWN]
  <2>1. 0 \in 0..CLEAR_COOLDOWN /\ quiet \in [Pools -> 0..CLEAR_COOLDOWN]
    BY <1>0 DEF HealInv, HealTypeOK
  <2> QED BY <1>1, <2>1, Zenon
<1>3. HealTypeOK'
  BY <1>0, <1>1, <1>2 DEF HealInv, HealTypeOK
<1>4. ProbesCount'
  BY <1>1 DEF HealInv, ProbesCount
<1>5. StampIsLast'
  BY <1>0, <1>1, <1>2 DEF StampIsLast, Booting, Stopped
<1> QED BY <1>3, <1>4, <1>5 DEF HealInv
-----------------------------------------------------------------------------
(* Theorems *)

\* The inductive invariant of the daemon: what its flag and its time stamp stand
\* for, whatever happens to the devices meanwhile.
THEOREM HealInvariant == Spec => []HealInv
<1>1. ASSUME Init PROVE HealInv
  <2>1. CLEAR_COOLDOWN \in Nat \ {0}
    BY HealAssumption
  <2> QED BY <1>1, <2>1 DEF Init, HealInv, HealTypeOK, ProbesCount, StampIsLast, Booting, Stopped
<1>2. ASSUME HealInv, [Next]_vars PROVE HealInv'
  BY <1>2, ElsewhereStep, TickStep, ProbeStep, ClearStep DEF Next, Daemon
<1> QED BY <1>1, <1>2, PTL DEF Spec

\* A pool is cleared only by a repair in which every device, however many there
\* are, answered a read (nbd-heal repair).
THEOREM ClearsAreVerified == Spec => ClearOnlyVerified
<1>1. ASSUME HealInv, [Next]_vars PROVE [Clear => probed = Devices]_vars
  BY <1>1 DEF HealInv, ProbesCount, Clear, ClearStamped, AtPool
<1> QED BY <1>1, HealInvariant, PTL DEF Spec, ClearOnlyVerified

\* No pool is cleared twice within the cool-down, although one time stamp serves
\* all of them, for any number of pools and any delay (nbd-heal last_clear).
THEOREM CooldownIsHonoured == Spec => ClearCooldownHonoured
<1>1. ASSUME HealInv, [Next]_vars PROVE [Clear => quiet[Current] = CLEAR_COOLDOWN]_vars
  <2> SUFFICES ASSUME Clear PROVE quiet[Current] = CLEAR_COOLDOWN
    OBVIOUS
  <2>1. Current \in Pools /\ clearAge = CLEAR_COOLDOWN
    BY <1>1, HealAssumption DEF Clear, ClearStamped, AtPool, Current, HealInv, HealTypeOK, Pools
  <2>2. quiet[Current] \in 0..CLEAR_COOLDOWN /\ clearAge <= quiet[Current]
    BY <1>1, <2>1 DEF HealInv, HealTypeOK, StampIsLast
  <2> QED BY <2>1, <2>2, HealAssumption
<1> QED BY <1>1, HealInvariant, PTL DEF Spec, ClearCooldownHonoured
=============================================================================

--------------------------- MODULE EfiMountProofs ---------------------------
(***************************************************************************)
(* What the programs that share the EFI partition can rely on without a      *)
(* lock, for any number of commands.                                         *)
(***************************************************************************)
EXTENDS EfiMount, TLAPS

Asking == {"find", "check", "mount", "search", "use", "write"}

\* Where a command or an upgrade can be.
Places == {"idle", "find", "check", "mount", "search", "use", "write", "drop",
           "umount", "copy", "trap", "rmdir", "efi"}

EfiTypeOK ==
  /\ efi \in BOOLEAN /\ booted \in BOOLEAN /\ astray \in BOOLEAN
  /\ rw \subseteq Upgrades
  /\ pc \in [Commands \cup Upgrades -> Places]
  /\ tries \in [Commands -> 0..2]
  /\ said \in [Commands -> {"nothing", "id", "astray", "none", "error", "ok"}]
  /\ calm \in [Commands -> BOOLEAN]
  /\ \A c \in Commands : pc[c] \in Asking \cup {"idle", "drop"}
  /\ \A c \in Commands : pc[c] \in Asking => tries[c] \in 1..2
  /\ \A c \in Commands : pc[c] = "write" => c \in Sets

\* setup-persistence is alone until it is done with the partition.
BootAlone ==
  /\ booted => pc[Boot] = "idle"
  /\ ~booted => \A p \in (Commands \cup Upgrades) \ {Boot} : pc[p] = "idle"

\* A command nothing has interfered with: no upgrade has the partition, and what
\* it found mounted still is.  Its second discovery, which is made because some
\* other command won the race to mount, finds that mount.
Calm(c) ==
  calm[c] =>
    /\ rw = {}
    /\ pc[c] \in {"search", "use", "write"} => efi
    /\ listed = 1 =>
         /\ pc[c] \in Asking /\ tries[c] = 2 => efi /\ pc[c] # "mount"
         /\ c \notin Sets => said[c] \notin {"none", "astray"}

EfiInv == EfiTypeOK /\ BootAlone /\ \A c \in Commands : Calm(c)

Programs == Commands \cup Upgrades
-----------------------------------------------------------------------------
(* Steps of a command *)

\* What the steps of command c have in common: they touch no other program, they
\* mount at most, and the guard that Boot comes first holds.
CommandStep(c) ==
  /\ UNCHANGED <<listed, rw>> /\ (efi => efi') /\ efi' \in BOOLEAN /\ astray' \in BOOLEAN
  /\ \A p \in Programs \ {c} : pc'[p] = pc[p]
  /\ \A d \in Commands \ {c} :
       tries'[d] = tries[d] /\ said'[d] = said[d] /\ calm'[d] = calm[d]
  /\ pc' \in [Programs -> Places] /\ tries' \in [Commands -> 0..2]
  /\ said' \in [Commands -> {"nothing", "id", "astray", "none", "error", "ok"}]
  /\ calm' \in [Commands -> BOOLEAN]

\* The rest of the invariant is then about c alone.
LEMMA CommandStepInv ==
  ASSUME EfiInv, NEW c \in Commands, CommandStep(c),
         booted' \in BOOLEAN,
         pc'[c] \in Asking \cup {"idle", "drop"},
         pc'[c] \in Asking => tries'[c] \in 1..2,
         pc'[c] = "write" => c \in Sets,
         pc[c] # "idle" \/ (booted <=> c # Boot),
         booted' => booted \/ (c = Boot /\ pc'[c] = "idle"),
         booted => booted',
         Calm(c)'
  PROVE  EfiInv'
<1>1. EfiTypeOK'
  BY DEF EfiInv, EfiTypeOK, CommandStep, Programs
<1>2. BootAlone'
  <2>1. Boot \in Commands /\ Boot \in Programs /\ c \in Programs
    BY DEF Commands, Programs
  <2>2. CASE booted
    <3>1. c # Boot
      BY <2>2 DEF EfiInv, BootAlone
    <3> QED BY <2>1, <2>2, <3>1 DEF EfiInv, BootAlone, CommandStep
  <2>3. CASE ~booted
    <3>1. c = Boot
      BY <2>1, <2>3 DEF EfiInv, BootAlone, Programs
    <3> QED BY <2>1, <2>3, <3>1 DEF EfiInv, BootAlone, CommandStep, Programs
  <2> QED BY <2>2, <2>3
<1>3. ASSUME NEW d \in Commands \ {c}
      PROVE  Calm(d)'
  <2>1. d \in Programs \ {c}
    BY DEF Programs
  <2> QED BY <2>1 DEF EfiInv, Calm, CommandStep
<1> QED BY <1>1, <1>2, <1>3 DEF EfiInv

\* What every step of a command knows of it.
LEMMA CommandFacts ==
  ASSUME EfiInv, NEW c \in Commands
  PROVE  /\ c \in Programs /\ rw \subseteq Upgrades
         /\ efi \in BOOLEAN /\ booted \in BOOLEAN /\ astray \in BOOLEAN
         /\ pc \in [Programs -> Places] /\ tries \in [Commands -> 0..2]
         /\ said \in [Commands -> {"nothing", "id", "astray", "none", "error", "ok"}]
         /\ calm \in [Commands -> BOOLEAN]
         /\ pc[c] \in Asking => tries[c] \in 1..2
         /\ pc[c] = "write" => c \in Sets
         /\ Boot \notin Sets
         /\ Calm(c)
BY EfiAssumption DEF EfiInv, EfiTypeOK, Programs

\* An answer, whatever it is, leaves c idle or, at boot, about to unmount.
LEMMA Answered ==
  ASSUME EfiInv, NEW c \in Commands,
         NEW what \in {"id", "astray", "none", "error", "ok"}, Answer(c, what)
  PROVE  /\ pc' \in [Programs -> Places] /\ pc'[c] \in {"idle", "drop"}
         /\ \A p \in Programs \ {c} : pc'[p] = pc[p]
         /\ said' \in [Commands -> {"nothing", "id", "astray", "none", "error", "ok"}]
         /\ said'[c] = what /\ \A d \in Commands \ {c} : said'[d] = said[d]
         /\ booted' \in BOOLEAN /\ (booted => booted')
         /\ booted' => booted \/ (c = Boot /\ pc'[c] = "idle")
<1>1. /\ said' = [said EXCEPT ![c] = what]
      /\ pc' = [pc EXCEPT ![c] = IF c = Boot /\ what \in {"id", "astray"} THEN "drop" ELSE "idle"]
      /\ booted' = (booted \/ (c = Boot /\ what = "none"))
  BY DEF Answer, Goto
<1>2. booted' \in BOOLEAN /\ (booted => booted') /\ (booted' => booted \/ (c = Boot /\ what = "none"))
  BY <1>1, Zenon
<1>3. /\ pc \in [Programs -> Places] /\ c \in Programs
      /\ said \in [Commands -> {"nothing", "id", "astray", "none", "error", "ok"}]
  BY CommandFacts
<1>4. c = Boot /\ what = "none" => pc'[c] = "idle"
  BY <1>1, <1>3
<1>5. /\ pc' \in [Programs -> Places] /\ pc'[c] \in {"idle", "drop"}
      /\ \A p \in Programs \ {c} : pc'[p] = pc[p]
  BY <1>1, <1>3 DEF Places
<1>6. /\ said' \in [Commands -> {"nothing", "id", "astray", "none", "error", "ok"}]
      /\ said'[c] = what /\ \A d \in Commands \ {c} : said'[d] = said[d]
  BY <1>1, <1>3
<1> QED BY <1>2, <1>4, <1>5, <1>6

\* A failed discovery: the second attempt, or the answer.
LEMMA Failed ==
  ASSUME EfiInv, NEW c \in Commands, pc[c] \in Asking, DiscoveryFailed(c)
  PROVE  /\ pc' \in [Programs -> Places] /\ pc'[c] \in {"find", "idle"}
         /\ \A p \in Programs \ {c} : pc'[p] = pc[p]
         /\ tries' \in [Commands -> 0..2]
         /\ said' \in [Commands -> {"nothing", "id", "astray", "none", "error", "ok"}]
         /\ \A d \in Commands \ {c} : tries'[d] = tries[d] /\ said'[d] = said[d]
         /\ booted' \in BOOLEAN /\ (booted => booted')
         /\ booted' => booted \/ (c = Boot /\ pc'[c] = "idle")
         /\ \/ tries[c] = 1 /\ pc'[c] = "find" /\ tries'[c] = 2 /\ said'[c] = said[c]
            \/ /\ tries[c] = 2 /\ pc'[c] = "idle"
               /\ said'[c] = IF c \in Sets THEN "error" ELSE "none"
<1>1. CASE /\ tries[c] = 1 /\ tries' = [tries EXCEPT ![c] = 2]
           /\ Goto(c, "find") /\ UNCHANGED <<said, booted>>
  <2>1. /\ pc \in [Programs -> Places] /\ c \in Programs /\ booted \in BOOLEAN
        /\ tries \in [Commands -> 0..2]
        /\ said \in [Commands -> {"nothing", "id", "astray", "none", "error", "ok"}]
    BY CommandFacts
  <2> QED BY <1>1, <2>1 DEF Goto, Places
<1>2. CASE tries[c] = 2 /\ Answer(c, IF c \in Sets THEN "error" ELSE "none") /\ UNCHANGED tries
  <2> DEFINE what == IF c \in Sets THEN "error" ELSE "none"
  <2>1. what \in {"id", "astray", "none", "error", "ok"} /\ Answer(c, what)
    BY <1>2
  <2>2. pc'[c] = "idle"
    BY <1>2, CommandFacts DEF Answer, Goto
  <2> HIDE DEF what
  <2>3. /\ pc' \in [Programs -> Places]
        /\ \A p \in Programs \ {c} : pc'[p] = pc[p]
        /\ said' \in [Commands -> {"nothing", "id", "astray", "none", "error", "ok"}]
        /\ said'[c] = what /\ \A d \in Commands \ {c} : said'[d] = said[d]
        /\ booted' \in BOOLEAN /\ (booted => booted')
        /\ booted' => booted \/ (c = Boot /\ pc'[c] = "idle")
    BY <2>1, Answered
  <2> QED BY <1>2, <2>2, <2>3, CommandFacts DEF what
<1> QED BY <1>1, <1>2 DEF DiscoveryFailed

\* A command starts.
LEMMA BeginInv ==
  ASSUME EfiInv, NEW c \in Commands, Begin(c)
  PROVE  EfiInv'
<1>1. /\ pc[c] = "idle" /\ (booted <=> c # Boot)
      /\ pc' = [pc EXCEPT ![c] = "find"] /\ tries' = [tries EXCEPT ![c] = 1]
      /\ said' = [said EXCEPT ![c] = "nothing"] /\ calm' = [calm EXCEPT ![c] = rw = {}]
      /\ UNCHANGED <<listed, efi, rw, astray, booted>>
  BY DEF Begin, Goto, mounts
<1>2. CommandStep(c)
  BY <1>1, CommandFacts DEF CommandStep, Places
<1>3. pc'[c] = "find" /\ tries'[c] = 1 /\ said'[c] = "nothing" /\ (calm'[c] => rw = {})
  BY <1>1, CommandFacts
<1>4. Calm(c)'
  BY <1>1, <1>3 DEF Calm
<1> QED BY <1>1, <1>2, <1>3, <1>4, CommandFacts, CommandStepInv DEF Asking

\* A discovery that fails of its own accord, or because there is not one
\* partition, or because the mount point is taken.
LEMMA FailedInv ==
  ASSUME EfiInv, NEW c \in Commands, pc[c] \in Asking, DiscoveryFailed(c),
         UNCHANGED <<listed, efi, rw, astray>>,
         \/ UNCHANGED calm /\ (listed # 1 \/ (tries[c] = 1 /\ efi) \/ ~calm[c])
         \/ calm' = [calm EXCEPT ![c] = FALSE]
  PROVE  EfiInv'
<1>1. CommandStep(c)
  BY Failed, CommandFacts DEF CommandStep
<1>2. Calm(c)'
  <2>1. CASE calm' = [calm EXCEPT ![c] = FALSE]
    BY <2>1, CommandFacts DEF Calm
  <2>2. CASE UNCHANGED calm /\ ~calm[c]
    BY <2>2 DEF Calm
  <2>3. CASE UNCHANGED calm /\ calm[c] /\ (listed # 1 \/ (tries[c] = 1 /\ efi))
    <3>1. Calm(c)
      BY CommandFacts
    <3>2. \/ tries[c] = 1 /\ pc'[c] = "find" /\ tries'[c] = 2 /\ said'[c] = said[c]
          \/ /\ tries[c] = 2 /\ pc'[c] = "idle"
             /\ said'[c] = IF c \in Sets THEN "error" ELSE "none"
      BY Failed
    <3> QED BY <2>3, <3>1, <3>2 DEF Calm, Asking
  <2> QED BY <2>1, <2>2, <2>3
<1>3. /\ pc'[c] \in {"find", "idle"} /\ (pc'[c] \in Asking => tries'[c] \in 1..2)
      /\ booted' \in BOOLEAN /\ (booted => booted')
      /\ booted' => booted \/ (c = Boot /\ pc'[c] = "idle")
  BY Failed DEF Asking
<1> QED BY <1>1, <1>2, <1>3, CommandStepInv DEF Asking

\* A step from one place to the next that answers nothing.
LEMMA FoundInv ==
  ASSUME EfiInv, NEW c \in Commands, pc[c] \in Asking, NEW where \in Asking,
         Goto(c, where), UNCHANGED <<listed, rw, astray, tries, said, booted, calm>>,
         efi' \in BOOLEAN, efi => efi',
         where \in {"search", "use", "write"} => efi' \/ ~calm[c],
         where = "mount" => ~efi,
         where = "write" => c \in Sets
  PROVE  EfiInv'
<1>1. pc' = [pc EXCEPT ![c] = where]
  BY DEF Goto
<1>2. pc' \in [Programs -> Places] /\ pc'[c] = where /\ \A p \in Programs \ {c} : pc'[p] = pc[p]
  BY <1>1, CommandFacts DEF Asking, Places
<1>3. CommandStep(c)
  BY <1>2, CommandFacts DEF CommandStep
<1>4. Calm(c)'
  BY <1>2, CommandFacts DEF Calm
<1>5. tries'[c] \in 1..2 /\ booted' = booted /\ booted' \in BOOLEAN
  BY CommandFacts
<1>6. pc[c] # "idle"
  BY DEF Asking
<1> QED BY <1>2, <1>3, <1>4, <1>5, <1>6, CommandStepInv

\* The partition is looked up.
LEMMA find_efi_partitionInv ==
  ASSUME EfiInv, NEW c \in Commands, find_efi_partition(c)
  PROVE  EfiInv'
<1>1. pc[c] \in Asking /\ "check" \in Asking /\ UNCHANGED <<listed, efi, rw, astray>>
  BY DEF find_efi_partition, Asking, mounts
<1>2. CASE Found(c, "check") /\ UNCHANGED calm
  BY <1>1, <1>2, CommandFacts, FoundInv DEF Found
<1>3. CASE listed # 1 /\ DiscoveryFailed(c) /\ UNCHANGED calm
  BY <1>1, <1>3, FailedInv
<1>4. CASE DiscoveryFailed(c) /\ calm' = [calm EXCEPT ![c] = FALSE]
  BY <1>1, <1>4, FailedInv
<1> QED BY <1>2, <1>3, <1>4 DEF find_efi_partition

\* A mounted partition need not be mounted.
LEMMA is_mountedInv ==
  ASSUME EfiInv, NEW c \in Commands, is_mounted(c)
  PROVE  EfiInv'
<1>1. pc[c] \in Asking /\ UNCHANGED <<listed, efi, rw, astray, tries, said, booted, calm>>
  BY DEF is_mounted, Found, Asking, mounts
<1>2. efi' \in BOOLEAN
  BY <1>1, CommandFacts
<1>3. CASE efi
  <2>1. Goto(c, "search") /\ "search" \in Asking
    BY <1>3 DEF is_mounted, Found, Asking
  <2> QED BY <1>1, <1>2, <1>3, <2>1, FoundInv
<1>4. CASE ~efi
  <2>1. Goto(c, "mount") /\ "mount" \in Asking
    BY <1>4 DEF is_mounted, Found, Asking
  <2> QED BY <1>1, <1>2, <1>4, <2>1, FoundInv
<1> QED BY <1>3, <1>4

\* The mount fails because another command was faster, or because an upgrade has
\* the partition, and then the command is not calm.
LEMMA mount_efiInv ==
  ASSUME EfiInv, NEW c \in Commands, mount_efi(c)
  PROVE  EfiInv'
<1>1. pc[c] = "mount" /\ pc[c] \in Asking /\ "search" \in Asking /\ UNCHANGED <<listed, rw, astray>>
  BY DEF mount_efi, Asking
<1>2. CASE efi' = TRUE /\ Found(c, "search") /\ UNCHANGED calm
  BY <1>1, <1>2, FoundInv DEF Found
<1>3. CASE (efi \/ rw # {}) /\ DiscoveryFailed(c) /\ UNCHANGED <<efi, calm>>
  <2>1. listed # 1 \/ (tries[c] = 1 /\ efi) \/ ~calm[c]
    BY <1>1, <1>3, CommandFacts DEF Calm
  <2> QED BY <1>1, <1>3, <2>1, FailedInv
<1>4. CASE DiscoveryFailed(c) /\ calm' = [calm EXCEPT ![c] = FALSE] /\ UNCHANGED efi
  BY <1>1, <1>4, FailedInv
<1> QED BY <1>2, <1>3, <1>4 DEF mount_efi

\* The kernel directory is searched for on the mount point.
LEMMA kernel_dirInv ==
  ASSUME EfiInv, NEW c \in Commands, kernel_dir(c)
  PROVE  EfiInv'
<1>1. /\ pc[c] = "search" /\ pc[c] \in Asking /\ "use" \in Asking
      /\ UNCHANGED <<listed, efi, rw, astray, calm>>
  BY DEF kernel_dir, Asking, mounts
<1>2. CASE efi
  BY <1>1, <1>2, CommandFacts, FoundInv DEF kernel_dir, Found
<1>3. CASE ~efi
  <2>1. DiscoveryFailed(c) /\ ~calm[c]
    BY <1>1, <1>3, CommandFacts DEF kernel_dir, Calm
  <2> QED BY <1>1, <2>1, FailedInv
<1> QED BY <1>2, <1>3

\* An answer that a calm command may give.
LEMMA AnsweredInv ==
  ASSUME EfiInv, NEW c \in Commands, pc[c] \in Asking,
         NEW what \in {"id", "astray", "none", "error", "ok"}, Answer(c, what),
         UNCHANGED <<listed, efi, rw, tries, calm>>, astray' \in BOOLEAN,
         calm[c] => what \in {"id", "error"}
  PROVE  EfiInv'
<1>1. /\ pc' \in [Programs -> Places] /\ pc'[c] \in {"idle", "drop"}
      /\ \A p \in Programs \ {c} : pc'[p] = pc[p]
      /\ said' \in [Commands -> {"nothing", "id", "astray", "none", "error", "ok"}]
      /\ said'[c] = what /\ \A d \in Commands \ {c} : said'[d] = said[d]
      /\ booted' \in BOOLEAN /\ (booted => booted')
      /\ booted' => booted \/ (c = Boot /\ pc'[c] = "idle")
  BY Answered
<1>2. CommandStep(c)
  BY <1>1, CommandFacts DEF CommandStep
<1>3. Calm(c)'
  BY <1>1, CommandFacts DEF Calm, Asking
<1>4. pc[c] # "idle" /\ pc'[c] \notin Asking /\ pc'[c] # "write"
  BY <1>1 DEF Asking
<1> QED BY <1>1, <1>2, <1>3, <1>4, CommandStepInv

\* The file is read, or written.
LEMMA UseInv ==
  ASSUME EfiInv, NEW c \in Commands, Read(c) \/ LoadForSet(c) \/ Write(c)
  PROVE  EfiInv'
<1>1. pc[c] \in {"use", "write"} /\ pc[c] \in Asking /\ UNCHANGED <<listed, efi, rw, tries, calm>>
  BY DEF Read, LoadForSet, Write, Asking, mounts
<1>2. calm[c] => efi
  BY <1>1, CommandFacts DEF Calm
<1>3. CASE Read(c)
  <2> DEFINE what == IF efi THEN "id" ELSE IF astray THEN "astray" ELSE "none"
  <2>1. /\ Answer(c, what) /\ UNCHANGED astray /\ astray \in BOOLEAN
        /\ what \in {"id", "astray", "none", "error", "ok"} /\ (calm[c] => what \in {"id", "error"})
    BY <1>2, <1>3, CommandFacts DEF Read
  <2> HIDE DEF what
  <2> QED BY <1>1, <2>1, AnsweredInv
<1>4. CASE LoadForSet(c)
  <2>1. Goto(c, "write") /\ "write" \in Asking /\ c \in Sets /\ UNCHANGED <<astray, said, booted>>
    BY <1>4 DEF LoadForSet, Asking
  <2> QED BY <1>1, <1>2, <2>1, CommandFacts, FoundInv
<1>5. CASE Write(c)
  <2>1. CASE efi
    BY <1>1, <1>5, <2>1, CommandFacts, AnsweredInv DEF Write
  <2>2. CASE ~efi
    BY <1>1, <1>2, <1>5, <2>2, CommandFacts, AnsweredInv DEF Write
  <2> QED BY <2>1, <2>2
<1> QED BY <1>3, <1>4, <1>5

\* The unmount of setup-persistence meets no one: nobody else has begun.
LEMMA zfs_efi_unmountInv ==
  ASSUME EfiInv, zfs_efi_unmount
  PROVE  EfiInv'
<1>1. /\ pc[Boot] = "drop" /\ efi' = FALSE /\ booted' = TRUE
      /\ pc' = [pc EXCEPT ![Boot] = "idle"]
      /\ UNCHANGED <<listed, rw, astray, tries, said, calm>>
  BY DEF zfs_efi_unmount, Goto
<1>2. Boot \in Commands /\ Boot \in Programs
  BY DEF Commands, Programs
<1>3. ~booted /\ \A p \in Programs \ {Boot} : pc[p] = "idle"
  BY <1>1 DEF EfiInv, BootAlone, Programs
<1>4. pc' \in [Programs -> Places] /\ \A p \in Programs : pc'[p] = "idle"
  BY <1>1, <1>2, <1>3, CommandFacts DEF Places
<1>5. \A c \in Commands : pc'[c] = "idle"
  BY <1>4 DEF Programs
<1>6. EfiTypeOK'
  BY <1>1, <1>4, <1>5 DEF EfiInv, EfiTypeOK, Programs, Asking
<1>7. BootAlone'
  BY <1>1, <1>2, <1>5 DEF BootAlone
<1>8. \A c \in Commands : Calm(c)'
  BY <1>1, <1>5 DEF EfiInv, Calm, Asking
<1> QED BY <1>6, <1>7, <1>8 DEF EfiInv
-----------------------------------------------------------------------------
(* Steps of an upgrade, and the end of them all *)

\* A step of upgrade u leaves every command where it is, and if it touches a mount,
\* no command is calm any more.
LEMMA UpgradeStepInv ==
  ASSUME EfiInv, NEW u \in Upgrades, NEW where \in Places, Goto(u, where),
         UNCHANGED <<listed, astray, tries, said, booted>>,
         pc[u] # "idle" \/ booted,
         efi' \in BOOLEAN, rw' \subseteq Upgrades,
         Disturb \/ UNCHANGED <<efi, rw, calm>>
  PROVE  EfiInv'
<1>1. u \in Programs /\ u \notin Commands /\ Boot \in Commands
  BY EfiAssumption DEF Programs, Commands
<1>2. pc \in [Programs -> Places] /\ pc' = [pc EXCEPT ![u] = where]
  BY DEF EfiInv, EfiTypeOK, Programs, Goto
<1>3. /\ pc' \in [Programs -> Places] /\ \A c \in Commands : pc'[c] = pc[c]
  BY <1>1, <1>2 DEF Programs
<1>4. booted
  BY <1>1 DEF EfiInv, BootAlone, Programs
<1>5. calm' \in [Commands -> BOOLEAN]
  BY DEF Disturb, EfiInv, EfiTypeOK
<1>6. EfiTypeOK'
  BY <1>3, <1>5 DEF EfiInv, EfiTypeOK, Programs
<1>7. BootAlone'
  BY <1>1, <1>3, <1>4 DEF EfiInv, BootAlone
<1>8. ASSUME NEW c \in Commands PROVE Calm(c)'
  <2>1. CASE Disturb
    BY <2>1 DEF Disturb, Calm
  <2>2. CASE UNCHANGED <<efi, rw, calm>>
    BY <1>3, <2>2 DEF EfiInv, Calm
  <2> QED BY <2>1, <2>2
<1> QED BY <1>6, <1>7, <1>8 DEF EfiInv

\* umount of the device: one mount less, or none.
LEMMA Umounted ==
  ASSUME EfiInv, UmountDevice
  PROVE  /\ efi' \in BOOLEAN /\ rw' \subseteq Upgrades
         /\ Disturb \/ UNCHANGED <<efi, rw, calm>>
BY DEF UmountDevice, mounts, EfiInv, EfiTypeOK

UpgradeNext(u) ==
  \/ UpgradeBegin(u) \/ UpgradeUmount(u) \/ UpgradeMount(u) \/ UpgradeEnd(u)
  \/ TrapUmount(u) \/ TrapRmdir(u) \/ TrapEfiUnmount(u) \/ UpgradeKill(u)

\* An upgrade that touches the mounts disturbs the commands that run.
LEMMA UpgradeNextInv ==
  ASSUME EfiInv, NEW u \in Upgrades, UpgradeNext(u)
  PROVE  EfiInv'
<1>1. /\ UNCHANGED <<listed, astray, tries, said, booted>> /\ (pc[u] # "idle" \/ booted)
  BY DEF UpgradeNext, UpgradeStep, UpgradeBegin, UpgradeUmount, UpgradeMount, UpgradeEnd,
         TrapUmount, TrapRmdir, TrapEfiUnmount, UpgradeKill
<1>2. \E where \in Places : Goto(u, where)
  BY DEF UpgradeNext, UpgradeBegin, UpgradeUmount, UpgradeMount, UpgradeEnd,
         TrapUmount, TrapRmdir, TrapEfiUnmount, UpgradeKill, Places
<1>3. efi \in BOOLEAN /\ rw \subseteq Upgrades
  BY DEF EfiInv, EfiTypeOK
<1>4. /\ efi' \in BOOLEAN /\ rw' \subseteq Upgrades
      /\ Disturb \/ UNCHANGED <<efi, rw, calm>>
  <2>1. CASE UpgradeBegin(u) \/ UpgradeEnd(u) \/ TrapRmdir(u) \/ UpgradeKill(u)
    BY <1>3, <2>1 DEF UpgradeBegin, UpgradeEnd, TrapRmdir, UpgradeKill, mounts
  <2>2. CASE UpgradeUmount(u) \/ TrapUmount(u)
    BY <2>2, Umounted DEF UpgradeUmount, TrapUmount
  <2>3. CASE UpgradeMount(u)
    BY <1>3, <2>3 DEF UpgradeMount
  <2>4. CASE TrapEfiUnmount(u)
    BY <1>3, <2>4 DEF TrapEfiUnmount
  <2> QED BY <2>1, <2>2, <2>3, <2>4 DEF UpgradeNext
<1> QED BY <1>1, <1>2, <1>4, UpgradeStepInv

\* No program has begun.
LEMMA FreshInv ==
  ASSUME Init
  PROVE  EfiInv
<1>1. Boot \in Commands /\ \A c \in Commands : c \in Commands \cup Upgrades
  BY DEF Commands
<1>2. /\ pc \in [Commands \cup Upgrades -> Places]
      /\ \A p \in Commands \cup Upgrades : pc[p] = "idle"
  BY DEF Init, Places
<1>3. /\ tries \in [Commands -> 0..2] /\ calm \in [Commands -> BOOLEAN]
      /\ said \in [Commands -> {"nothing", "id", "astray", "none", "error", "ok"}]
  BY DEF Init
<1>4. /\ efi \in BOOLEAN /\ booted \in BOOLEAN /\ astray \in BOOLEAN
      /\ rw \subseteq Upgrades
  BY DEF Init
<1>5. EfiTypeOK
  BY <1>1, <1>2, <1>3, <1>4 DEF EfiTypeOK, Asking
<1> QED BY <1>1, <1>2, <1>5 DEF Init, EfiInv, BootAlone, Calm, Asking

\* A reboot ends every program.
LEMMA RebootInv ==
  ASSUME EfiInv, Reboot
  PROVE  EfiInv'
<1>1. Boot \in Commands /\ \A c \in Commands : c \in Commands \cup Upgrades
  BY DEF Commands
<1>2. /\ pc' \in [Commands \cup Upgrades -> Places]
      /\ \A p \in Commands \cup Upgrades : pc'[p] = "idle"
  BY DEF Reboot, Places
<1>3. /\ tries' \in [Commands -> 0..2] /\ calm' \in [Commands -> BOOLEAN]
      /\ said' \in [Commands -> {"nothing", "id", "astray", "none", "error", "ok"}]
  BY DEF Reboot
<1>4. /\ efi' \in BOOLEAN /\ booted' \in BOOLEAN /\ astray' \in BOOLEAN
      /\ rw' \subseteq Upgrades
  BY DEF Reboot
<1>5. EfiTypeOK'
  BY <1>1, <1>2, <1>3, <1>4 DEF EfiTypeOK, Asking
<1> QED BY <1>1, <1>2, <1>5 DEF Reboot, EfiInv, BootAlone, Calm, Asking

\* A step that changes nothing.
LEMMA StutterInv ==
  ASSUME EfiInv, UNCHANGED vars
  PROVE  EfiInv'
BY DEF vars, EfiInv, EfiTypeOK, BootAlone, Calm
-----------------------------------------------------------------------------
\* The invariant behind the results on commands: who is alone, and what a command
\* nobody interfered with has found.
THEOREM EfiInvariant == Spec => []EfiInv
<1>1. EfiInv /\ [Next]_vars => EfiInv'
  <2> SUFFICES ASSUME EfiInv, [Next]_vars PROVE EfiInv'
    OBVIOUS
  <2>1. ASSUME NEW c \in Commands,
               \/ Begin(c) \/ find_efi_partition(c) \/ is_mounted(c) \/ mount_efi(c)
               \/ kernel_dir(c) \/ Read(c) \/ LoadForSet(c) \/ Write(c)
        PROVE  EfiInv'
    BY <2>1, BeginInv, find_efi_partitionInv, is_mountedInv, mount_efiInv, kernel_dirInv, UseInv
  <2>2. ASSUME NEW u \in Upgrades, UpgradeNext(u) PROVE EfiInv'
    BY <2>2, UpgradeNextInv
  <2> QED BY <2>1, <2>2, zfs_efi_unmountInv, RebootInv, StutterInv DEF Next, UpgradeNext
<1> QED BY <1>1, FreshInv, PTL DEF Spec

\* A get finds the machine ID, however many commands race to mount the partition.
THEOREM GetFinds == Spec => []GetFindsId
<1>1. EfiInv => GetFindsId
  BY EfiAssumption DEF EfiInv, Calm, GetFindsId, Commands
<1> QED BY <1>1, EfiInvariant, PTL
=============================================================================

------------------------------ MODULE EfiMount ------------------------------
(***************************************************************************)
(* Who mounts the EFI system partition, and who unmounts it under whom:     *)
(* `zebrafish-config --efi' (efi.rs, and main.rs, load.rs, store.rs around   *)
(* it) mounts it read-only on /run/zebrafish/efi and leaves it mounted;       *)
(* setup-persistence reads the machine ID that way and unmounts it; upgrade  *)
(* unmounts it wherever it is and mounts it writable on a directory of its   *)
(* own.  Nothing locks anything.                                             *)
(*                                                                         *)
(* The kernel refuses a second mount of the partition on the same mount     *)
(* point, and one that is writable beside one that is not.                   *)
(***************************************************************************)
EXTENDS Integers

CONSTANTS
  Gets,       \* `zebrafish-config --efi get machine.id'
  Sets,       \* `zebrafish-config --efi set machine.id ...'
  Boot,       \* the get of setup-persistence
  Upgrades    \* runs of upgrade

Commands == Gets \cup Sets \cup {Boot}

ASSUME EfiAssumption ==
  Gets \cap Sets = {} /\ Boot \notin Gets \cup Sets /\ Commands \cap Upgrades = {}

VARIABLES
  listed,   \* EFI partitions that lsblk lists: none, one or several
  efi,      \* mounted on EFI_MOUNT_POINT
  rw,       \* upgrades on whose EFI_DIR it is mounted
  astray,   \* a zebrafish.toml in the bare directory EFI_MOUNT_POINT
  pc,       \* pc[c]: how far a command or an upgrade is
  tries,    \* tries[c]: discoveries of the partition so far
  said,     \* said[c]: what the command answered
  booted,   \* setup-persistence is done with the partition
  calm      \* history: since c began, no other program changed the mounts and no
            \* lsblk or mount failed by itself

mounts == <<efi, rw>>
vars == <<listed, efi, rw, astray, pc, tries, said, booted, calm>>

Goto(p, where) == pc' = [pc EXCEPT ![p] = where]

Answer(c, what) ==
  /\ said' = [said EXCEPT ![c] = what]
  /\ Goto(c, IF c = Boot /\ what \in {"id", "astray"} THEN "drop" ELSE "idle")
  /\ booted' = (booted \/ (c = Boot /\ what = "none"))

\* Something c did not do itself touches the mounts.
Disturb == calm' = [c \in Commands |-> FALSE]
-----------------------------------------------------------------------------
(* zebrafish-config *)

Begin(c) ==
  /\ pc[c] = "idle" /\ (booted <=> c # Boot)
  /\ Goto(c, "find")
  /\ tries' = [tries EXCEPT ![c] = 1] /\ said' = [said EXCEPT ![c] = "nothing"]
  /\ calm' = [calm EXCEPT ![c] = rw = {}]
  /\ UNCHANGED <<listed, mounts, astray, booted>>

\* Broken variant: one discovery is all there is.
FailedFirst(c) ==
  /\ Answer(c, IF c \in Sets THEN "error" ELSE "none")
  /\ UNCHANGED tries

\* main ignores a failed discovery; target_path and resolve_paths then try again,
\* the former reporting the error, the latter going on without a machine file.
DiscoveryFailed(c) ==
  \/ /\ tries[c] = 1 /\ tries' = [tries EXCEPT ![c] = 2]
     /\ Goto(c, "find")
     /\ UNCHANGED <<said, booted>>
  \/ /\ tries[c] = 2 /\ Answer(c, IF c \in Sets THEN "error" ELSE "none")
     /\ UNCHANGED tries

Found(c, where) == Goto(c, where) /\ UNCHANGED <<tries, said, booted>>

find_efi_partition(c) ==
  /\ pc[c] = "find"
  /\ \/ listed = 1 /\ Found(c, "check") /\ UNCHANGED calm
     \/ listed # 1 /\ DiscoveryFailed(c) /\ UNCHANGED calm
     \/ DiscoveryFailed(c) /\ calm' = [calm EXCEPT ![c] = FALSE]
  /\ UNCHANGED <<listed, mounts, astray>>

is_mounted(c) ==
  /\ pc[c] = "check"
  /\ Found(c, IF efi THEN "search" ELSE "mount")
  /\ UNCHANGED <<listed, mounts, astray, calm>>

mount_efi(c) ==
  /\ pc[c] = "mount"
  /\ \/ ~efi /\ rw = {} /\ efi' = TRUE /\ Found(c, "search") /\ UNCHANGED calm
     \/ (efi \/ rw # {}) /\ DiscoveryFailed(c) /\ UNCHANGED <<efi, calm>>
     \/ DiscoveryFailed(c) /\ calm' = [calm EXCEPT ![c] = FALSE] /\ UNCHANGED efi
  /\ UNCHANGED <<listed, rw, astray>>

\* The kernel image is on the partition only.
kernel_dir(c) ==
  /\ pc[c] = "search"
  /\ IF efi THEN Found(c, "use") ELSE DiscoveryFailed(c)
  /\ UNCHANGED <<listed, mounts, astray, calm>>

\* read_optional: a missing file is an empty one.
Read(c) ==
  /\ pc[c] = "use" /\ c \notin Sets
  /\ Answer(c, IF efi THEN "id" ELSE IF astray THEN "astray" ELSE "none")
  /\ UNCHANGED <<listed, mounts, astray, tries, calm>>

\* load_document; the file parses.
LoadForSet(c) ==
  /\ pc[c] = "use" /\ c \in Sets
  /\ Goto(c, "write")
  /\ UNCHANGED <<listed, mounts, astray, tries, said, booted, calm>>

\* write_document: the mount is read-only; without it, create_dir_all makes the
\* directory again.
Write(c) ==
  /\ pc[c] = "write"
  /\ IF efi THEN Answer(c, "error") /\ UNCHANGED astray
            ELSE Answer(c, "ok") /\ astray' = TRUE
  /\ UNCHANGED <<listed, mounts, tries, calm>>

\* setup-persistence unmounts the partition once it has the ID.
zfs_efi_unmount ==
  /\ pc[Boot] = "drop"
  /\ efi' = FALSE /\ booted' = TRUE
  /\ Goto(Boot, "idle")
  /\ UNCHANGED <<listed, rw, astray, tries, said, calm>>
-----------------------------------------------------------------------------
(* upgrade *)

UpgradeStep(u, from) ==
  /\ pc[u] = from
  /\ UNCHANGED <<listed, astray, tries, said, booted>>

\* umount of the device takes one of its mounts away, unless that is busy.
UmountDevice ==
  \/ efi /\ efi' = FALSE /\ UNCHANGED rw /\ Disturb
  \/ \E u \in rw : rw' = rw \ {u} /\ UNCHANGED efi /\ Disturb
  \/ UNCHANGED <<mounts, calm>>

\* wc counts an empty list as one line: only several partitions stop the script.
UpgradeBegin(u) ==
  /\ UpgradeStep(u, "idle")
  /\ booted /\ listed < 2
  /\ Goto(u, "umount")
  /\ UNCHANGED <<mounts, calm>>

UpgradeUmount(u) ==
  /\ UpgradeStep(u, "umount")
  /\ UmountDevice
  /\ Goto(u, "mount")

\* The trap is set after the mount.
UpgradeMount(u) ==
  /\ UpgradeStep(u, "mount")
  /\ \/ listed = 1 /\ ~efi /\ rw' = rw \cup {u} /\ Disturb /\ Goto(u, "copy")
     \/ UNCHANGED <<rw, calm>> /\ Goto(u, "idle")
  /\ UNCHANGED efi

\* Done, or failed.
UpgradeEnd(u) ==
  /\ UpgradeStep(u, "copy")
  /\ Goto(u, "trap")
  /\ UNCHANGED <<mounts, calm>>

TrapUmount(u) ==
  /\ UpgradeStep(u, "trap")
  /\ UmountDevice
  /\ Goto(u, "rmdir")

\* A directory that is still mounted on cannot be removed, which ends the trap.
TrapRmdir(u) ==
  /\ UpgradeStep(u, "rmdir")
  /\ Goto(u, IF u \in rw THEN "idle" ELSE "efi")
  /\ UNCHANGED <<mounts, calm>>

TrapEfiUnmount(u) ==
  /\ UpgradeStep(u, "efi")
  /\ \/ efi /\ efi' = FALSE /\ Disturb
     \/ UNCHANGED <<efi, calm>>
  /\ UNCHANGED rw
  /\ Goto(u, "idle")

\* SIGKILL: no trap, and the mount stays.
UpgradeKill(u) ==
  /\ UpgradeStep(u, "copy")
  /\ Goto(u, "idle")
  /\ UNCHANGED <<mounts, calm>>
-----------------------------------------------------------------------------
Reboot ==
  /\ efi' = FALSE /\ rw' = {} /\ astray' = FALSE /\ booted' = FALSE
  /\ pc' = [p \in Commands \cup Upgrades |-> "idle"]
  /\ tries' = [c \in Commands |-> 0] /\ said' = [c \in Commands |-> "nothing"]
  /\ calm' = [c \in Commands |-> TRUE]
  /\ UNCHANGED listed

Init ==
  /\ listed \in 0..2
  /\ efi = FALSE /\ rw = {} /\ astray = FALSE /\ booted = FALSE
  /\ pc = [p \in Commands \cup Upgrades |-> "idle"]
  /\ tries = [c \in Commands |-> 0] /\ said = [c \in Commands |-> "nothing"]
  /\ calm = [c \in Commands |-> TRUE]

Next ==
  \/ \E c \in Commands :
       \/ Begin(c) \/ find_efi_partition(c) \/ is_mounted(c) \/ mount_efi(c)
       \/ kernel_dir(c) \/ Read(c) \/ LoadForSet(c) \/ Write(c)
  \/ zfs_efi_unmount
  \/ \E u \in Upgrades :
       \/ UpgradeBegin(u) \/ UpgradeUmount(u) \/ UpgradeMount(u) \/ UpgradeEnd(u)
       \/ TrapUmount(u) \/ TrapRmdir(u) \/ TrapEfiUnmount(u) \/ UpgradeKill(u)
  \/ Reboot

Spec == Init /\ [][Next]_vars
-----------------------------------------------------------------------------
(* Properties *)

\* A get finds the machine ID, however many commands mount the partition at the
\* same time, unless an upgrade or a failing command came in between (mount_efi:
\* "Idempotently mount"; the loser of the race discovers again).
GetFindsId ==
  \A c \in Gets \cup {Boot} :
    said[c] \in {"none", "astray"} => ~calm[c] \/ listed # 1
=============================================================================

---------------------------- MODULE Persistence ----------------------------
(***************************************************************************)
(* lib/zebrafish/setup-persistence, run once by init on every boot: it finds *)
(* the pool `zebrafish' or formats the device that carries the magic header,  *)
(* creates what is missing on it, and lays the overlays over /etc, /home and  *)
(* /srv.  Every command may fail, power may go at any time, and the media     *)
(* outlive the boot.                                                          *)
(*                                                                         *)
(* A dataset is named by its path below the pool.  `fail' in a $( ) ends      *)
(* only the subshell, elsewhere the script.  Of the mount points the         *)
(* properties only tell /vol (DATA) and /overlay (OVERLAY) apart.            *)
(***************************************************************************)
EXTENDS Integers, Sequences, SequencesExt

CONSTANTS
  Drives,        \* block devices, in the order of lsblk
  Ids,           \* values of [machine].id
  None,          \* no device, no ID
  HalfGigabyte,  \* half_gigabyte_bytes
  EightGb,       \* eight_gb
  Free           \* what `zfs get available' may print for the pool

Devs == ToSet(Drives)

ASSUME PersistenceAssumption ==
  /\ Drives \in Seq(Devs) /\ None \notin Devs \cup Ids
  /\ HalfGigabyte \in Nat \ {0} /\ EightGb \in Nat \ {0}
  /\ Free \subseteq Nat \ (0..9) /\ Free # {}
  /\ EightGb % HalfGigabyte = 0

Vault == <<"vault">>
DATA == <<"vault", "persistent", "data">>
OVERLAY == <<"vault", "persistent", "overlay">>
SWAP == <<"swap">>

Order ==
  << Vault, <<"vault", "persistent">>, <<"vault", "persistent", "oci">>,
     <<"vault", "oci">>, <<"vault", "oci", "containerd">>, <<"vault", "oci", "docker">>,
     <<"vault", "persistent", "oci", "coolify">>,
     <<"vault", "persistent", "compose">>, DATA, OVERLAY,
     <<"vault", "persistent", "logs">>, <<"vault", "persistent", "volumes">>, SWAP >>

Datasets == ToSet(Order)
Tracked == {DATA, OVERLAY}

\* The datasets that have no mount point of their own.
Bare == {Vault, <<"vault", "persistent">>, <<"vault", "persistent", "oci">>,
         <<"vault", "oci">>, SWAP}

\* Arguments of overlay, and the directories of create_temporary_directories.
Merged == <<"/etc", "/home", "/srv">>
Temporary == {"/etc/cni", "/etc/wireguard", "/var/lib/cni", "/var/lib/nerdctl",
              "/var/lib/buildkit"}

VARIABLES
  (* on the media *)
  media,      \* media[d]: "blank", "magic" (the header) or "pool"
  made,       \* made[d]: datasets of the pool on d
  key,        \* key[d]: the machine ID its vault is encrypted with
  signed,     \* signed[d]: the swap volume carries a swap signature
  machine,    \* [machine].id, or None
  (* of this boot *)
  pc,         \* the next step of the script
  online,     \* the device whose pool is imported
  partition,  \* zebrafish_persistence_partition is not empty
  magic,      \* zebrafish_magic_device
  unlocked,   \* the key of the vault is loaded
  mounted,    \* the datasets of Tracked that are mounted
  listing,    \* datasets: what zfs list printed
  next,       \* the next dataset or overlay
  dir,        \* mounted_zebrafish_persistence_dir is not empty
  volume,     \* zfs_size and swap_size_bytes, between the creation and mkswap
  swapping,   \* swapon succeeded
  tmpfs,      \* directories where a tmpfs of the script shows
  overlays,   \* directories under an overlay ...
  kept,       \* ... whose upper directory is on the pool
  fault       \* history: a command failed though the state let it succeed

disk == <<media, made, key, signed, machine>>
results == <<dir, volume, swapping, tmpfs, overlays, kept>>
boot == <<pc, online, partition, magic, unlocked, mounted, listing, next, results, fault>>
vars == <<disk, boot>>

PoolsOn == {d \in Devs : media[d] = "pool"}
-----------------------------------------------------------------------------
\* exit 1; init carries on.
Exit(faulty) == pc' = "exit" /\ fault' = (fault \/ faulty)

\* The script leaves its variables and the mounts alone.
Rest == UNCHANGED <<online, partition, magic, unlocked, mounted, listing, next, results>>

\* zfs_get_machine_id and zfs_efi_unmount, then the sanity checks, which hold
\* on a boot.
GetMachineId ==
  /\ pc = "id"
  /\ IF machine = None THEN Exit(FALSE) ELSE pc' = "find" /\ UNCHANGED fault
  /\ Rest /\ UNCHANGED disk
-----------------------------------------------------------------------------
(* find_zebrafish_persistence_partition *)

\* Broken variant: a vault that does not open makes the pool go away again.
ImportOpenOnly(d) ==
  /\ pc = "find" /\ PoolsOn = {d}
  /\ IF key[d] = machine
     THEN /\ online' = d /\ unlocked' = TRUE /\ mounted' = Tracked \cap made[d]
          /\ partition' = TRUE /\ pc' = "list"
     ELSE pc' = "magic" /\ UNCHANGED <<online, unlocked, mounted, partition>>
  /\ UNCHANGED <<disk, magic, listing, next, results, fault>>

\* Broken variant: nothing mounts the datasets of an imported pool.
ImportUnmounted(d) ==
  /\ pc = "find" /\ PoolsOn = {d}
  /\ online' = d
  /\ unlocked' = (key[d] = machine)
  /\ partition' = TRUE /\ pc' = "list"
  /\ UNCHANGED <<disk, magic, mounted, listing, next, results,
                 fault>>

\* zfs load-key, with the hash that openssl made of the ID; whether it succeeds is
\* not looked at.
LoadKey(d) ==
  /\ unlocked' \in {FALSE, key[d] = machine}
  /\ fault' = (fault \/ unlocked' # (key[d] = machine))

\* zpool import by name takes the only pool of that name.  zfs mount -a passes
\* over what is locked.
ImportPool(d) ==
  /\ pc = "find" /\ PoolsOn = {d}
  /\ online' = d
  /\ LoadKey(d)
  /\ mounted' = IF unlocked' THEN Tracked \cap made[d] ELSE {}
  /\ partition' = TRUE /\ pc' = "list"
  /\ UNCHANGED <<disk, magic, listing, next, results>>

\* zfs mount -a fails: the subshell ends before it prints the name, the pool
\* stays imported.
MountFails(d) ==
  /\ pc = "find" /\ PoolsOn = {d}
  /\ online' = d
  /\ unlocked' \in {FALSE, key[d] = machine}
  /\ \E m \in SUBSET (Tracked \cap made[d]) : mounted' = IF unlocked' THEN m ELSE {}
  /\ pc' = "magic" /\ fault' = TRUE
  /\ UNCHANGED <<disk, partition, magic, listing, next, results>>

\* No pool, several pools of the same name, or a device that is late.
ImportFails ==
  /\ pc = "find"
  /\ pc' = "magic"
  /\ \E late \in BOOLEAN :
       /\ late \/ ~\E d \in Devs : PoolsOn = {d}
       /\ fault' = (fault \/ late)
  /\ Rest /\ UNCHANGED disk
-----------------------------------------------------------------------------
(* No partition: find_zebrafish_magic_device, create_..._partition *)

\* Broken variant: a device that is not blank will do.
FirstUsed(unread) ==
  LET used == {i \in DOMAIN Drives : media[Drives[i]] # "blank" /\ Drives[i] \notin unread}
  IN  IF used = {} THEN None ELSE Drives[Min(used)]

\* The first device that begins with the magic header.
FirstMagic(unread) ==
  LET headed == {i \in DOMAIN Drives : media[Drives[i]] = "magic" /\ Drives[i] \notin unread}
  IN  IF headed = {} THEN None ELSE Drives[Min(headed)]

\* What lsblk does not list or dd cannot read is passed over: `local' hides that
\* they failed.
FindMagic ==
  /\ pc = "magic"
  /\ \E unread \in SUBSET Devs :
       /\ magic' = FirstMagic(unread)
       /\ fault' = (fault \/ unread # {})
  /\ pc' = IF magic' = None THEN "tmpfs" ELSE "create"
  /\ UNCHANGED <<disk, online, partition, unlocked, mounted, listing, next, results>>

\* zpool create overwrites the header.  It refuses the name of a pool that is
\* imported, and knows of no other.
CreatePool ==
  /\ pc = "create" /\ online = None
  /\ media' = [media EXCEPT ![magic] = "pool"]
  /\ made' = [made EXCEPT ![magic] = {}]
  /\ key' = [key EXCEPT ![magic] = None]
  /\ signed' = [signed EXCEPT ![magic] = FALSE]
  /\ online' = magic /\ partition' = TRUE /\ pc' = "list"
  /\ UNCHANGED <<machine, magic, unlocked, mounted, listing, next, results, fault>>

CreatePoolFails ==
  /\ pc = "create"
  /\ Exit(online = None)
  /\ \/ UNCHANGED media
     \/ online = None /\ media' = [media EXCEPT ![magic] = "blank"]
  /\ Rest /\ UNCHANGED <<made, key, signed, machine>>
-----------------------------------------------------------------------------
(* create_zebrafish_datasets *)

ListDatasets ==
  /\ pc = "list"
  /\ pc' = "datasets" /\ next' = 1
  /\ \E failed \in BOOLEAN :
       /\ listing' = IF failed THEN {} ELSE made[online]
       /\ fault' = (fault \/ failed)
  /\ UNCHANGED <<disk, online, partition, magic, unlocked, mounted, results>>

\* Broken variant: the last component alone is looked for.
KnownByLastName(n) == \E k \in listing : Last(k) = Last(n)

\* The name occurs in the listing, at least as the beginning of another.
Known(n) == \E k \in listing : IsPrefix(n, k)

SkipDataset ==
  /\ pc = "datasets" /\ next <= Len(Order) /\ Known(Order[next])
  /\ next' = next + 1
  /\ UNCHANGED <<disk, pc, online, partition, magic, unlocked, mounted, listing, results, fault>>

\* zfs create needs a new name, its parent, and below the vault the key.
CanCreate(n) ==
  /\ n \notin made[online]
  /\ Len(n) > 1 => Front(n) \in made[online] /\ unlocked

\* Broken variant: a size that does not fit is kept.
SwapTooLarge(number) ==
  LET tenth == number \div 10
      rounded == ((tenth + HalfGigabyte - 1) \div HalfGigabyte) * HalfGigabyte
  IN  IF rounded > EightGb THEN EightGb ELSE rounded

\* A tenth, rounded up to half gigabytes, at most eight gigabytes; a tenth when
\* that does not fit.
calculate_swap_size(number) ==
  LET tenth == number \div 10
      rounded == ((tenth + HalfGigabyte - 1) \div HalfGigabyte) * HalfGigabyte
      capped == IF rounded > EightGb THEN EightGb ELSE rounded
  IN  IF capped > number THEN tenth ELSE capped

CreateDataset ==
  /\ pc = "datasets" /\ next <= Len(Order)
  /\ LET n == Order[next]
     IN  /\ ~Known(n) /\ CanCreate(n)
         /\ made' = [made EXCEPT ![online] = @ \cup {n}]
         /\ key' = [key EXCEPT ![online] = IF n = Vault THEN machine ELSE @]
         /\ unlocked' = (unlocked \/ n = Vault)
         /\ mounted' = mounted \cup ({n} \cap Tracked)
         /\ IF n = SWAP
            THEN /\ \E zfs_size \in Free :
                      volume' = <<zfs_size, calculate_swap_size(zfs_size)>>
                 /\ pc' = "mkswap" /\ UNCHANGED next
            ELSE next' = next + 1 /\ UNCHANGED <<pc, volume>>
  /\ UNCHANGED <<media, signed, machine, online, partition, magic, listing, dir, swapping,
                 tmpfs, overlays, kept, fault>>

\* A dataset that cannot be mounted is created all the same.
CreateDatasetFails ==
  /\ pc = "datasets" /\ next <= Len(Order)
  /\ LET n == Order[next]
     IN  /\ ~Known(n)
         /\ Exit(CanCreate(n))
         /\ \/ UNCHANGED <<made, key>>
            \/ /\ CanCreate(n) /\ n \notin Bare
               /\ made' = [made EXCEPT ![online] = @ \cup {n}] /\ UNCHANGED key
  /\ Rest /\ UNCHANGED <<media, signed, machine>>

MakeSwap ==
  /\ pc = "mkswap"
  /\ signed' = [signed EXCEPT ![online] = TRUE]
  /\ pc' = "datasets" /\ next' = next + 1 /\ volume' = <<>>
  /\ UNCHANGED <<media, made, key, machine, online, partition, magic, unlocked, mounted,
                 listing, dir, swapping, tmpfs, overlays, kept, fault>>

MakeSwapFails ==
  /\ pc = "mkswap"
  /\ Exit(TRUE)
  /\ Rest /\ UNCHANGED disk

AllDatasets ==
  /\ pc = "datasets" /\ next > Len(Order)
  /\ pc' = "swapon"
  /\ Rest /\ UNCHANGED <<disk, fault>>
-----------------------------------------------------------------------------
(* mount_zebrafish_persistence_partition, the version file, the tmpfs *)

SwapOn ==
  /\ pc = "swapon" /\ SWAP \in made[online] /\ signed[online]
  /\ swapping' = TRUE /\ dir' = TRUE /\ pc' = "version"
  /\ UNCHANGED <<disk, online, partition, magic, unlocked, mounted, listing, next, volume,
                 tmpfs, overlays, kept, fault>>

\* The subshell prints no directory.
SwapOnFails ==
  /\ pc = "swapon"
  /\ pc' = "version"
  /\ fault' = (fault \/ (SWAP \in made[online] /\ signed[online]))
  /\ Rest /\ UNCHANGED disk

\* [ false ] is true: the file is written on every boot.  Without a directory
\* $1 is unbound, and set -u ends the script.
WriteVersionFile ==
  /\ pc = "version"
  /\ IF dir THEN pc' = "temporary" /\ UNCHANGED fault ELSE Exit(FALSE)
  /\ Rest /\ UNCHANGED disk

\* [ $? ] is true: the directory is printed although the mount may have failed.
MountTmpfs ==
  /\ pc = "tmpfs"
  /\ \E failed \in BOOLEAN :
       /\ tmpfs' = IF failed THEN tmpfs ELSE tmpfs \cup {"/vol"}
       /\ fault' = (fault \/ failed)
  /\ dir' = TRUE /\ pc' = "temporary"
  /\ UNCHANGED <<disk, online, partition, magic, unlocked, mounted, listing, next, volume,
                 swapping, overlays, kept>>
-----------------------------------------------------------------------------
(* create_temporary_directories, overlay_zebrafish_data_dirs *)

CreateTemporary ==
  /\ pc = "temporary"
  /\ tmpfs' = tmpfs \cup Temporary
  /\ pc' = "overlay" /\ next' = 1
  /\ UNCHANGED <<disk, online, partition, magic, unlocked, mounted, listing, dir, volume, swapping,
                 overlays, kept, fault>>

\* What was mounted below the directory no longer shows.
Below(src) == IF src = "/etc" THEN {"/etc/cni", "/etc/wireguard"} ELSE {}

\* The upper directory is in /overlay, whatever is mounted there.
overlay ==
  /\ pc = "overlay" /\ next <= Len(Merged)
  /\ LET src == Merged[next]
     IN  /\ overlays' = overlays \cup {src}
         /\ kept' = IF OVERLAY \in mounted THEN kept \cup {src} ELSE kept
         /\ tmpfs' = tmpfs \ Below(src)
  /\ next' = next + 1
  /\ UNCHANGED <<disk, pc, online, partition, magic, unlocked, mounted, listing, dir,
                 volume, swapping, fault>>

overlayFails ==
  /\ pc = "overlay" /\ next <= Len(Merged)
  /\ Exit(TRUE)
  /\ Rest /\ UNCHANGED disk

AllOverlays ==
  /\ pc = "overlay" /\ next > Len(Merged)
  /\ pc' = "missing"
  /\ Rest /\ UNCHANGED <<disk, fault>>

CreateMissing ==
  /\ pc = "missing"
  /\ \/ pc' = "done" /\ UNCHANGED fault
     \/ Exit(TRUE)
  /\ Rest /\ UNCHANGED disk
-----------------------------------------------------------------------------
(* Boots, and what happens between them *)

FreshBoot ==
  /\ pc' = "id" /\ online' = None /\ partition' = FALSE /\ magic' = None
  /\ unlocked' = FALSE /\ mounted' = {} /\ listing' = {} /\ next' = 1
  /\ dir' = FALSE /\ volume' = <<>> /\ swapping' = FALSE
  /\ tmpfs' = {} /\ overlays' = {} /\ kept' = {}
  /\ fault' = FALSE

\* Power loss at any step, or a reboot once the script is done.
Reboot == FreshBoot /\ UNCHANGED disk

\* Before a reboot the owner marks a device to be formatted, or changes the
\* machine ID.
MarkDevice(d) ==
  /\ pc \in {"done", "exit"} /\ media[d] = "blank"
  /\ media' = [media EXCEPT ![d] = "magic"]
  /\ FreshBoot /\ UNCHANGED <<made, key, signed, machine>>

SetMachine(id) ==
  /\ pc \in {"done", "exit"} /\ id # machine
  /\ machine' = id
  /\ FreshBoot /\ UNCHANGED <<media, made, key, signed>>

Init ==
  /\ media \in [Devs -> {"blank", "magic"}]
  /\ made = [d \in Devs |-> {}] /\ key = [d \in Devs |-> None]
  /\ signed = [d \in Devs |-> FALSE] /\ machine \in Ids \cup {None}
  /\ pc = "id" /\ online = None /\ partition = FALSE /\ magic = None
  /\ unlocked = FALSE /\ mounted = {} /\ listing = {} /\ next = 1
  /\ dir = FALSE /\ volume = <<>> /\ swapping = FALSE
  /\ tmpfs = {} /\ overlays = {} /\ kept = {}
  /\ fault = FALSE

Script ==
  \/ GetMachineId \/ ImportFails \/ FindMagic \/ CreatePool \/ CreatePoolFails
  \/ \E d \in Devs : ImportPool(d) \/ MountFails(d)
  \/ ListDatasets \/ SkipDataset \/ CreateDataset \/ CreateDatasetFails
  \/ MakeSwap \/ MakeSwapFails \/ AllDatasets \/ SwapOn \/ SwapOnFails
  \/ WriteVersionFile \/ MountTmpfs \/ CreateTemporary
  \/ overlay \/ overlayFails \/ AllOverlays \/ CreateMissing

Next ==
  \/ Script \/ Reboot
  \/ \E d \in Devs : MarkDevice(d)
  \/ \E id \in Ids \cup {None} : SetMachine(id)

Spec == Init /\ [][Next]_vars
-----------------------------------------------------------------------------
(* Properties *)

\* Wherever earlier boots were cut off, a boot without failing commands gets to
\* the end of the script, unless there is no machine ID, the vault belongs to
\* another ID, or the swap volume was left without a signature (a crash between
\* zfs create -V and mkswap).
InterruptedSetupRecovers ==
  pc = "exit" /\ ~fault =>
    \/ machine = None
    \/ key[online] \notin {machine, None}
    \/ SWAP \in made[online] /\ ~signed[online]

\* A boot that ends without the warning that changes will be lost has all datasets
\* and its swap, and /vol and the three overlays are on the pool; unless the vault
\* is still locked, because it was made with another ID or zfs load-key failed,
\* which the script does not look at.
QuietMeansPersistent ==
  pc = "done" /\ partition =>
    /\ made[online] = Datasets /\ swapping
    /\ "/vol" \notin tmpfs /\ overlays = ToSet(Merged)
    /\ IF unlocked THEN DATA \in mounted /\ kept = overlays
                   ELSE fault \/ key[online] # machine

\* No boot takes a pool or one of its datasets away, nor puts another vault in
\* place of one that was made with another ID.
PoolsSurvive ==
  [][\A d \in PoolsOn :
        /\ media'[d] = "pool" /\ made[d] \subseteq made'[d]
        /\ Vault \in made[d] => key'[d] = key[d]
        /\ signed[d] => signed'[d]]_vars

\* Beside a pool a second one of the same name, which no later boot can tell
\* from it, is only created when the import of the first failed by accident.
SecondPoolOnlyByAccident ==
  [][\A d \in Devs : PoolsOn = {d} => PoolsOn' = {d} \/ fault]_vars

\* The swap volume fits on the pool, has at most eight gigabytes and below that
\* at least a tenth of the pool, and comes in half gigabytes unless not even one
\* fits.
SwapSizeSound ==
  pc = "mkswap" =>
    LET available == volume[1]
        size == volume[2]
    IN  /\ 0 < size /\ size <= available /\ size <= EightGb
        /\ size < EightGb => size >= available \div 10
        /\ size % HalfGigabyte = 0 \/ available < HalfGigabyte
=============================================================================

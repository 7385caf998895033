------------------------------ MODULE Upgrade ------------------------------
(***************************************************************************)
(* rootfs-overlay/lib/zebrafish/upgrade: fetch the manifest of the current  *)
(* release, and unless the EFI partition already has that manifest, fetch   *)
(* the archive, check its files against the hashes of the manifest, copy     *)
(* them over the installed ones, write the manifest and sync.  The script    *)
(* may fail or be killed at any step, the machine may lose power, and new    *)
(* releases (or a return to an old one) are published meanwhile.             *)
(*                                                                         *)
(* The partition is vfat: between two syncs each file on the medium may be   *)
(* its old or new self, or cut off.                                          *)
(***************************************************************************)
EXTENDS Integers, Sequences

CONSTANTS
  Files,       \* files of a release, in the order of the manifest
  Releases,    \* published releases
  Hash,        \* Hash[r][f]: what release r has for file f
  Cut,         \* a file that was truncated or half written
  None,        \* no manifest; nothing fetched
  MaxPublish, MaxRuns    \* bounds: publications, invocations

Names == {Files[i] : i \in 1..Len(Files)}
Manifest == "manifest"
Last == Len(Files) + 1    \* position of the manifest in the order of writing

Contents == {Hash[r][f] : r \in Releases, f \in Names}

ASSUME UpgradeAssumption ==
  /\ Files \in Seq(Names) /\ Manifest \notin Names
  /\ \A i, j \in 1..Len(Files) : Files[i] = Files[j] => i = j
  /\ Hash \in [Releases -> [Names -> Contents]]
  /\ Cut \notin Contents \cup Releases /\ None \notin Contents \cup Releases \cup {Cut}
  /\ MaxPublish \in Nat /\ MaxRuns \in Nat

VARIABLES
  cdn,        \* what the server has: manifest and archive, uploaded one by one
  esp,        \* the EFI partition as the running system sees it
  disk,       \* what is on the medium for certain
  pc,         \* "idle", "download", "verify", "truncate", "write", "sync"
  remote,     \* REMOTE_CDN_MANIFEST
  download,   \* DOWNLOAD_FOLDER
  pos,        \* file being installed; Last: the manifest
  last,       \* history: the release whose files were written last (None after a
              \* power loss in between), and whether that run completed
  published, runs

vars == <<cdn, esp, disk, pc, remote, download, pos, last, published, runs>>
machine == <<esp, disk, pc, remote, download, pos, last, runs>>

NothingKnown == [release |-> None, complete |-> FALSE]

Installed == [f \in Names |-> esp[f]]

-----------------------------------------------------------------------------
(* The server *)

Publish(part, r) ==
  /\ published < MaxPublish /\ cdn[part] # r
  /\ published' = published + 1
  /\ cdn' = [cdn EXCEPT ![part] = r]
  /\ UNCHANGED machine
-----------------------------------------------------------------------------
(* The script *)

Exit == pc' = "idle" /\ remote' = None /\ download' = None /\ pos' = 1

\* The manifest is fetched and compared with the installed one.
Necessary == esp[Manifest] # cdn.manifest

NotRequired ==
  /\ pc = "idle" /\ runs < MaxRuns /\ ~Necessary
  /\ runs' = runs + 1
  /\ UNCHANGED <<cdn, esp, disk, pc, remote, download, pos, last, published>>

FetchManifest ==
  /\ pc = "idle" /\ runs < MaxRuns /\ Necessary
  /\ runs' = runs + 1
  /\ pc' = "download" /\ remote' = cdn.manifest
  /\ UNCHANGED <<cdn, esp, disk, download, pos, last, published>>

\* curl | tar: the archive of the moment, or one that breaks off at some file;
\* the pipe hides the failure of curl.
FetchArchive ==
  /\ pc = "download"
  /\ \E bad \in Names \cup {None} :
       download' = [f \in Names |-> IF f = bad THEN Cut ELSE Hash[cdn.archive][f]]
  /\ pc' = "verify"
  /\ UNCHANGED <<cdn, esp, disk, remote, pos, last, published, runs>>

Verify ==
  /\ pc = "verify"
  /\ IF \A f \in Names : download[f] = Hash[remote][f]
     THEN pc' = "truncate" /\ UNCHANGED <<remote, download, pos>>
     ELSE Exit
  /\ UNCHANGED <<cdn, esp, disk, last, published, runs>>

\* Broken variant: the manifest is written first.
ManifestFirst(i) == IF i = 1 THEN Manifest ELSE Files[i - 1]

\* What is written at position i: the files, then the manifest.
Target(i) == IF i < Last THEN Files[i] ELSE Manifest

\* cp, and the redirection of echo, truncate the file ...
Truncate ==
  /\ pc = "truncate"
  /\ esp' = [esp EXCEPT ![Target(pos)] = Cut]
  /\ last' = [release |-> remote, complete |-> FALSE]
  /\ pc' = "write"
  /\ UNCHANGED <<cdn, disk, remote, download, pos, published, runs>>

\* ... and fill it.
Write ==
  /\ pc = "write"
  /\ esp' = [esp EXCEPT ![Target(pos)] =
               IF Target(pos) = Manifest THEN remote ELSE download[Target(pos)]]
  /\ IF pos < Last
     THEN pos' = pos + 1 /\ pc' = "truncate"
     ELSE pc' = "sync" /\ UNCHANGED pos
  /\ UNCHANGED <<cdn, disk, remote, download, last, published, runs>>

\* Broken variant: the script ends without sync.
SyncNothing ==
  /\ pc = "sync"
  /\ last' = [release |-> remote, complete |-> TRUE]
  /\ Exit
  /\ UNCHANGED <<cdn, esp, disk, published, runs>>

Sync ==
  /\ pc = "sync"
  /\ disk' = esp /\ last' = [release |-> remote, complete |-> TRUE]
  /\ Exit
  /\ UNCHANGED <<cdn, esp, published, runs>>

\* A failing command (set -e), or a signal: what is on the partition stays.
Stop ==
  /\ pc # "idle"
  /\ Exit
  /\ UNCHANGED <<cdn, esp, disk, last, published, runs>>

\* Each file that was not written back may be found as it was, new, or cut off.  A
\* file rewritten with what it held counts as written back: until the
\* manifest, which comes last, is there, the next run writes it again.
Unsynced == {f \in DOMAIN esp : esp[f] # disk[f]}

PowerLoss ==
  /\ \E old \in SUBSET Unsynced, half \in SUBSET Unsynced :
       esp' = [f \in DOMAIN esp |->
                 IF f \in half THEN Cut ELSE IF f \in old THEN disk[f] ELSE esp[f]]
  /\ disk' = esp'
  /\ last' = IF Unsynced = {} THEN last ELSE NothingKnown
  /\ Exit
  /\ UNCHANGED <<cdn, published, runs>>

Init ==
  /\ \E r \in Releases :
       /\ cdn = [manifest |-> r, archive |-> r]
       /\ \E m \in {r, None} :
            esp = [f \in Names \cup {Manifest} |-> IF f = Manifest THEN m ELSE Hash[r][f]]
  /\ disk = esp
  /\ pc = "idle" /\ remote = None /\ download = None /\ pos = 1
  /\ last = NothingKnown /\ published = 0 /\ runs = 0

Next ==
  \/ \E part \in {"manifest", "archive"}, r \in Releases : Publish(part, r)
  \/ NotRequired \/ FetchManifest \/ FetchArchive \/ Verify
  \/ Truncate \/ Write \/ Sync
  \/ Stop \/ PowerLoss

Spec == Init /\ [][Next]_vars
-----------------------------------------------------------------------------
(* Properties *)

\* "Update complete!" is true and lasts: all files are those of the release whose
\* manifest was fetched, even if another one was published before the archive
\* was, and they stay so when power is lost.
CompleteIsComplete ==
  last.complete =>
    Installed = Hash[last.release] /\ esp[Manifest] = last.release /\ disk = esp

\* An interrupted installation is made up for: as long as the server keeps (or
\* returns to) the release, no run takes it for installed before it is (the
\* manifest is written after the files; not when power is lost before the sync).
InterruptedIsRetried ==
  [][NotRequired /\ cdn.manifest = last.release => Installed = Hash[last.release]]_vars

=============================================================================

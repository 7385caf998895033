--------------------------- MODULE UpgradeProofs ---------------------------
(***************************************************************************)
(* What an upgrade leaves behind, for all releases and files, any number of *)
(* runs and publications, and a stop or a loss of power at any step.         *)
(***************************************************************************)
EXTENDS Upgrade, TLAPS

Domain == Names \cup {Manifest}
Anything == Contents \cup Releases \cup {None, Cut}

UpgradeTypeOK ==
  /\ cdn \in [manifest : Releases, archive : Releases]
  /\ esp \in [Domain -> Anything] /\ disk \in [Domain -> Anything]
  /\ pc \in {"idle", "download", "verify", "truncate", "write", "sync"}
  /\ pc # "idle" => remote \in Releases
  /\ pc = "verify" => download \in [Names -> Contents \cup {Cut}]
  /\ pos \in 1..Last
  /\ last \in [release : Releases \cup {None}, complete : BOOLEAN]

Copying == [release |-> remote, complete |-> FALSE]

\* What the script has done so far: the files before pos are those of the release
\* it fetched, and once it has written anything, last says so.
Progress ==
  /\ pc \in {"idle", "download", "verify"} => pos = 1
  /\ pc \in {"truncate", "write", "sync"} => download = Hash[remote]
  /\ pc \in {"truncate", "write"} =>
       \A i \in 1..(pos - 1) : esp[Files[i]] = Hash[remote][Files[i]]
  /\ pc = "truncate" /\ pos > 1 => last = Copying
  /\ pc \in {"write", "sync"} => last = Copying
  /\ pc = "write" => esp[Target(pos)] = Cut
  /\ pc = "sync" => Installed = Hash[remote] /\ esp[Manifest] = remote

\* While files are replaced the manifest is not yet that of the new release.
ManifestLast ==
  pc \in {"download", "verify", "truncate", "write"} => esp[Manifest] # remote

\* A manifest of the release written last vouches for the files.
ManifestVouches ==
  last.release # None /\ esp[Manifest] = last.release => Installed = Hash[last.release]

UpgradeInv ==
  UpgradeTypeOK /\ Progress /\ ManifestLast /\ ManifestVouches /\ CompleteIsComplete
-----------------------------------------------------------------------------
(* The order of writing *)

\* Each position names a file of its own, and the last one the manifest.
LEMMA Targets ==
  /\ Len(Files) \in Nat /\ Last = Len(Files) + 1
  /\ \A i \in 1..Len(Files) : Files[i] \in Names /\ Files[i] # Manifest
  /\ \A i \in 1..Last : Target(i) \in Domain
  /\ \A i \in 1..Len(Files) : Target(i) = Files[i]
  /\ Target(Last) = Manifest
  /\ \A i, j \in 1..Len(Files) : i # j => Files[i] # Files[j]
<1>1. Len(Files) \in Nat /\ \A i \in 1..Len(Files) : Files[i] \in Names
  BY UpgradeAssumption
<1>2. Manifest \notin Names
  BY UpgradeAssumption
<1> QED BY <1>1, <1>2, UpgradeAssumption DEF Target, Last, Domain

\* All files written are all files installed.
LEMMA AllWritten ==
  ASSUME NEW r \in Releases, \A i \in 1..Len(Files) : esp[Files[i]] = Hash[r][Files[i]]
  PROVE  Installed = Hash[r]
<1>1. \A f \in Names : esp[f] = Hash[r][f]
  BY DEF Names
<1>2. Hash[r] \in [Names -> Contents]
  BY UpgradeAssumption
<1> QED BY <1>1, <1>2 DEF Installed
-----------------------------------------------------------------------------
\* A partition installed from a release, with or without its manifest.
LEMMA InitInv == Init => UpgradeInv
<1> SUFFICES ASSUME Init PROVE UpgradeInv
  OBVIOUS
<1>1. PICK r \in Releases, m \in Releases \cup {None} :
        /\ cdn = [manifest |-> r, archive |-> r]
        /\ esp = [f \in Domain |-> IF f = Manifest THEN m ELSE Hash[r][f]]
  BY DEF Init, Domain
<1>2. \A f \in Names : Hash[r][f] \in Contents
  BY DEF Contents
<1>3. esp \in [Domain -> Anything]
  BY <1>1, <1>2 DEF Domain, Anything
<1>4. UpgradeTypeOK
  BY <1>1, <1>3, Targets DEF Init, UpgradeTypeOK, NothingKnown
<1> QED BY <1>4 DEF Init, UpgradeInv, Progress, ManifestLast, ManifestVouches,
                    CompleteIsComplete, NothingKnown

\* Steps that leave the partition alone.
LEMMA FetchPreservesInv ==
  ASSUME UpgradeInv, FetchManifest \/ FetchArchive \/ Verify \/ NotRequired
  PROVE  UpgradeInv'
<1>0. esp' = esp /\ disk' = disk /\ last' = last /\ cdn' = cdn
  BY DEF FetchManifest, FetchArchive, Verify, NotRequired
<1>1. ManifestVouches' /\ CompleteIsComplete'
  BY <1>0 DEF UpgradeInv, ManifestVouches, CompleteIsComplete, Installed
<1>2. CASE NotRequired
  <2>1. pc = "idle" /\ UNCHANGED <<pc, remote, download, pos>>
    BY <1>2 DEF NotRequired
  <2> QED BY <1>0, <1>1, <2>1 DEF UpgradeInv, UpgradeTypeOK, Progress, ManifestLast
<1>3. CASE FetchManifest
  <2>1. pc = "idle" /\ pc' = "download" /\ remote' = cdn.manifest /\ UNCHANGED <<download, pos>>
    BY <1>3 DEF FetchManifest
  <2>2. esp[Manifest] # cdn.manifest /\ cdn.manifest \in Releases
    BY <1>3 DEF FetchManifest, Necessary, UpgradeInv, UpgradeTypeOK
  <2> QED BY <1>0, <1>1, <2>1, <2>2 DEF UpgradeInv, UpgradeTypeOK, Progress, ManifestLast
<1>4. CASE FetchArchive
  <2>1. pc = "download" /\ pc' = "verify" /\ UNCHANGED <<remote, pos>>
    BY <1>4 DEF FetchArchive
  <2>2. cdn.archive \in Releases
    BY DEF UpgradeInv, UpgradeTypeOK
  <2>3. download' \in [Names -> Contents \cup {Cut}]
    BY <1>4, <2>2 DEF FetchArchive, Contents
  <2> QED BY <1>0, <1>1, <2>1, <2>3 DEF UpgradeInv, UpgradeTypeOK, Progress, ManifestLast
<1>5. CASE Verify
  <2>1. CASE \A f \in Names : download[f] = Hash[remote][f]
    <3>1. pc = "verify" /\ pc' = "truncate" /\ UNCHANGED <<remote, download, pos>>
      BY <1>5, <2>1 DEF Verify
    <3>2. remote \in Releases /\ download \in [Names -> Contents \cup {Cut}]
      BY <3>1 DEF UpgradeInv, UpgradeTypeOK
    <3>3. Hash[remote] \in [Names -> Contents]
      BY <3>2, UpgradeAssumption
    <3>4. download = Hash[remote]
      BY <2>1, <3>2, <3>3
    <3>5. pos = 1 /\ Last \in Nat /\ Len(Files) \in Nat
      BY <3>1, Targets DEF UpgradeInv, Progress
    <3>6. Progress'
      BY <1>0, <3>1, <3>4, <3>5 DEF Progress
    <3> QED BY <1>0, <1>1, <3>1, <3>6 DEF UpgradeInv, UpgradeTypeOK, ManifestLast
  <2>2. CASE ~ \A f \in Names : download[f] = Hash[remote][f]
    <3>1. pc' = "idle" /\ pos' = 1
      BY <1>5, <2>2 DEF Verify, Exit
    <3> QED BY <1>0, <1>1, <3>1, Targets DEF UpgradeInv, UpgradeTypeOK, Progress, ManifestLast
  <2> QED BY <2>1, <2>2
<1> QED BY <1>2, <1>3, <1>4, <1>5

\* A file is cut off before it is written.
LEMMA TruncatePreservesInv ==
  ASSUME UpgradeInv, Truncate
  PROVE  UpgradeInv'
<1>1. /\ pc = "truncate" /\ pc' = "write" /\ esp' = [esp EXCEPT ![Target(pos)] = Cut]
      /\ last' = [release |-> remote, complete |-> FALSE]
      /\ UNCHANGED <<cdn, disk, remote, download, pos>>
  BY DEF Truncate
<1>2. /\ remote \in Releases /\ pos \in 1..Last /\ esp \in [Domain -> Anything]
      /\ esp[Manifest] # remote /\ Target(pos) \in Domain
  BY <1>1, Targets DEF UpgradeInv, UpgradeTypeOK, ManifestLast
<1>3. remote # Cut /\ remote # None /\ Cut \in Anything
  BY <1>2, UpgradeAssumption DEF Anything
<1>4. UpgradeTypeOK'
  BY <1>1, <1>2, <1>3 DEF UpgradeInv, UpgradeTypeOK
<1>5. esp'[Target(pos)] = Cut /\ \A f \in Domain \ {Target(pos)} : esp'[f] = esp[f]
  BY <1>1, <1>2
<1>6. ASSUME NEW i \in 1..(pos - 1)
      PROVE  esp'[Files[i]] = Hash[remote][Files[i]]
  <2>1. i \in 1..Len(Files) /\ i # pos /\ Files[i] \in Names
    BY <1>2, Targets
  <2>2. Files[i] # Target(pos)
    BY <1>2, <2>1, Targets DEF Target
  <2>3. esp[Files[i]] = Hash[remote][Files[i]]
    BY <1>1 DEF UpgradeInv, Progress
  <2> QED BY <1>5, <2>1, <2>2, <2>3 DEF Domain
<1>7. Progress'
  BY <1>1, <1>2, <1>5, <1>6 DEF UpgradeInv, Progress, Copying, Target
<1>8. esp'[Manifest] # remote
  BY <1>2, <1>3, <1>5 DEF Domain
<1> QED BY <1>1, <1>3, <1>4, <1>7, <1>8
        DEF UpgradeInv, ManifestLast, ManifestVouches, CompleteIsComplete

\* A file is written, the manifest after all others.
LEMMA WritePreservesInv ==
  ASSUME UpgradeInv, Write
  PROVE  UpgradeInv'
<1> DEFINE new == IF Target(pos) = Manifest THEN remote ELSE download[Target(pos)]
<1>1. /\ pc = "write" /\ esp' = [esp EXCEPT ![Target(pos)] = new]
      /\ UNCHANGED <<cdn, disk, remote, download, last>>
  BY DEF Write
<1>2. /\ remote \in Releases /\ pos \in 1..Last /\ esp \in [Domain -> Anything]
      /\ esp[Manifest] # remote /\ Target(pos) \in Domain
      /\ last = Copying /\ download = Hash[remote]
      /\ \A i \in 1..(pos - 1) : esp[Files[i]] = Hash[remote][Files[i]]
  BY <1>1, Targets DEF UpgradeInv, UpgradeTypeOK, ManifestLast, Progress
<1>3. remote # None
  BY <1>2, UpgradeAssumption
<1>4. new \in Anything
  BY <1>2 DEF Domain, Anything, Contents
<1>5. /\ esp' \in [Domain -> Anything] /\ esp'[Target(pos)] = new
      /\ \A f \in Domain \ {Target(pos)} : esp'[f] = esp[f]
  BY <1>1, <1>2, <1>4
<1>6. CASE pos < Last
  <2>1. pc' = "truncate" /\ pos' = pos + 1
    BY <1>6 DEF Write
  <2>2. Target(pos) = Files[pos] /\ Files[pos] \in Names /\ Files[pos] # Manifest
        /\ pos \in 1..Len(Files)
    BY <1>2, <1>6, Targets
  <2>3. esp'[Files[pos]] = Hash[remote][Files[pos]]
    BY <1>2, <1>5, <2>2
  <2>4. ASSUME NEW i \in 1..(pos' - 1)
        PROVE  esp'[Files[i]] = Hash[remote][Files[i]]
    <3>1. CASE i = pos
      BY <2>3, <3>1
    <3>2. CASE i # pos
      <4>1. i \in 1..(pos - 1) /\ i \in 1..Len(Files)
        BY <1>2, <2>1, <2>2, <3>2, Targets
      <4>2. Files[i] # Target(pos) /\ Files[i] \in Domain
        BY <2>2, <3>2, <4>1, Targets DEF Domain
      <4> QED BY <1>2, <1>5, <4>1, <4>2
    <3> QED BY <3>1, <3>2
  <2>5. UpgradeTypeOK'
    BY <1>1, <1>2, <1>5, <1>6, <2>1, Targets DEF UpgradeInv, UpgradeTypeOK
  <2>6. Progress'
    BY <1>1, <1>2, <2>1, <2>4 DEF Progress, Copying
  <2>7. esp'[Manifest] # remote
    BY <1>2, <1>5, <2>2 DEF Domain
  <2> QED BY <1>1, <1>2, <2>1, <2>5, <2>6, <2>7
          DEF UpgradeInv, ManifestLast, ManifestVouches, CompleteIsComplete, Copying
<1>7. CASE ~(pos < Last)
  <2>1. pc' = "sync" /\ pos' = pos /\ pos = Last /\ Target(pos) = Manifest
    BY <1>2, <1>7, Targets DEF Write
  <2>2. esp'[Manifest] = remote
    BY <1>5, <2>1
  <2>3. ASSUME NEW i \in 1..Len(Files) PROVE esp'[Files[i]] = Hash[remote][Files[i]]
    <3>1. i \in 1..(pos - 1) /\ Files[i] \in Domain \ {Target(pos)}
      BY <2>1, Targets DEF Domain
    <3> QED BY <1>2, <1>5, <3>1
  <2>4. Installed' = Hash[remote]
    <3>1. \A f \in Names : esp'[f] = Hash[remote][f]
      BY <2>3 DEF Names
    <3>2. Hash[remote] \in [Names -> Contents]
      BY <1>2, UpgradeAssumption
    <3> QED BY <3>1, <3>2 DEF Installed
  <2>5. UpgradeTypeOK'
    BY <1>1, <1>5, <2>1 DEF UpgradeInv, UpgradeTypeOK
  <2>6. Progress'
    BY <1>1, <1>2, <2>1, <2>2, <2>4 DEF Progress, Copying
  <2> QED BY <1>1, <1>2, <2>1, <2>4, <2>5, <2>6
          DEF UpgradeInv, ManifestLast, ManifestVouches, CompleteIsComplete, Copying
<1> QED BY <1>6, <1>7

\* What was written is on the medium.
LEMMA SyncPreservesInv ==
  ASSUME UpgradeInv, Sync
  PROVE  UpgradeInv'
<1>1. /\ pc = "sync" /\ pc' = "idle" /\ pos' = 1 /\ disk' = esp
      /\ last' = [release |-> remote, complete |-> TRUE] /\ UNCHANGED <<cdn, esp>>
  BY DEF Sync, Exit
<1>2. Installed = Hash[remote] /\ esp[Manifest] = remote /\ remote \in Releases
  BY <1>1 DEF UpgradeInv, UpgradeTypeOK, Progress
<1>3. Installed' = Installed
  BY <1>1 DEF Installed
<1> QED BY <1>1, <1>2, <1>3, Targets
        DEF UpgradeInv, UpgradeTypeOK, Progress, ManifestLast, ManifestVouches, CompleteIsComplete

\* The script is killed.
LEMMA StopPreservesInv ==
  ASSUME UpgradeInv, Stop
  PROVE  UpgradeInv'
<1>1. pc' = "idle" /\ pos' = 1 /\ UNCHANGED <<cdn, esp, disk, last>>
  BY DEF Stop, Exit
<1>2. Installed' = Installed
  BY <1>1 DEF Installed
<1> QED BY <1>1, <1>2, Targets
        DEF UpgradeInv, UpgradeTypeOK, Progress, ManifestLast, ManifestVouches, CompleteIsComplete

\* A loss of power with everything synced changes nothing; otherwise nothing is
\* known any more.
LEMMA PowerLossPreservesInv ==
  ASSUME UpgradeInv, PowerLoss
  PROVE  UpgradeInv'
<1>1. /\ pc' = "idle" /\ pos' = 1 /\ disk' = esp' /\ UNCHANGED cdn
      /\ last' = IF Unsynced = {} THEN last ELSE NothingKnown
  BY DEF PowerLoss, Exit
<1>2. PICK old \in SUBSET Unsynced, half \in SUBSET Unsynced :
        esp' = [f \in DOMAIN esp |->
                  IF f \in half THEN Cut ELSE IF f \in old THEN disk[f] ELSE esp[f]]
  BY DEF PowerLoss
<1>3. esp \in [Domain -> Anything] /\ disk \in [Domain -> Anything] /\ Cut \in Anything
  BY DEF UpgradeInv, UpgradeTypeOK, Anything
<1>4. esp' \in [Domain -> Anything]
  BY <1>2, <1>3
<1>5. last' \in [release : Releases \cup {None}, complete : BOOLEAN]
  BY <1>1 DEF UpgradeInv, UpgradeTypeOK, NothingKnown
<1>6. UpgradeTypeOK'
  BY <1>1, <1>4, <1>5, Targets DEF UpgradeInv, UpgradeTypeOK
<1>7. Progress' /\ ManifestLast'
  BY <1>1 DEF Progress, ManifestLast
<1>8. ManifestVouches' /\ CompleteIsComplete'
  <2>1. CASE Unsynced = {}
    <3>1. esp' = esp /\ last' = last
      BY <1>1, <1>2, <1>3, <2>1
    <3>2. Installed' = Installed
      BY <3>1 DEF Installed
    <3> QED BY <1>1, <3>1, <3>2 DEF UpgradeInv, ManifestVouches, CompleteIsComplete
  <2>2. CASE Unsynced # {}
    BY <1>1, <2>2 DEF ManifestVouches, CompleteIsComplete, NothingKnown
  <2> QED BY <2>1, <2>2
<1> QED BY <1>6, <1>7, <1>8 DEF UpgradeInv

\* The server publishes, which the partition does not notice.
LEMMA PublishPreservesInv ==
  ASSUME UpgradeInv, NEW part \in {"manifest", "archive"}, NEW r \in Releases,
         Publish(part, r)
  PROVE  UpgradeInv'
<1>1. cdn' = [cdn EXCEPT ![part] = r] /\ UNCHANGED <<esp, disk, pc, remote, download, pos, last>>
  BY DEF Publish, machine
<1>2. cdn' \in [manifest : Releases, archive : Releases]
  BY <1>1 DEF UpgradeInv, UpgradeTypeOK
<1>3. Installed' = Installed
  BY <1>1 DEF Installed
<1> QED BY <1>1, <1>2, <1>3
        DEF UpgradeInv, UpgradeTypeOK, Progress, Copying, ManifestLast, ManifestVouches,
            CompleteIsComplete

\* A step that changes nothing.
LEMMA StutterPreservesInv ==
  ASSUME UpgradeInv, UNCHANGED vars
  PROVE  UpgradeInv'
<1>1. Installed' = Installed
  BY DEF Installed, vars
<1> QED BY <1>1 DEF vars, UpgradeInv, UpgradeTypeOK, Progress, Copying, ManifestLast,
                    ManifestVouches, CompleteIsComplete
-----------------------------------------------------------------------------
\* The invariant behind the results below: how far the script is, and that the
\* manifest is written after the files it vouches for.
THEOREM UpgradeInvariant == Spec => []UpgradeInv
<1>1. Init => UpgradeInv
  BY InitInv
<1>2. UpgradeInv /\ [Next]_vars => UpgradeInv'
  BY FetchPreservesInv, TruncatePreservesInv, WritePreservesInv, SyncPreservesInv,
     StopPreservesInv, PowerLossPreservesInv, PublishPreservesInv, StutterPreservesInv
     DEF Next
<1> QED BY <1>1, <1>2, PTL DEF Spec

\* "Update complete!" is only said of a partition that has all files of the release
\* and its manifest, on the medium, and it stays true until the next run writes.
THEOREM CompleteHolds == Spec => []CompleteIsComplete
<1>1. UpgradeInv => CompleteIsComplete
  BY DEF UpgradeInv
<1> QED BY <1>1, UpgradeInvariant, PTL

\* No run takes the release whose installation began last for installed unless
\* all its files are in place.
THEOREM RetriedHolds == Spec => InterruptedIsRetried
<1>1. UpgradeInv /\ [Next]_vars =>
        [NotRequired /\ cdn.manifest = last.release => Installed = Hash[last.release]]_vars
  <2> SUFFICES ASSUME UpgradeInv, NotRequired, cdn.manifest = last.release
               PROVE  Installed = Hash[last.release]
    OBVIOUS
  <2>1. esp[Manifest] = last.release
    BY DEF NotRequired, Necessary
  <2>2. last.release # None
    <3>1. cdn.manifest \in Releases
      BY DEF UpgradeInv, UpgradeTypeOK
    <3> QED BY <3>1, UpgradeAssumption
  <2> QED BY <2>1, <2>2 DEF UpgradeInv, ManifestVouches
<1> QED BY <1>1, UpgradeInvariant, PTL DEF Spec, InterruptedIsRetried
=============================================================================

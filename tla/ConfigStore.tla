---------------------------- MODULE ConfigStore ----------------------------
(***************************************************************************)
(* zebrafish-config commands on one configuration file: load, change in     *)
(* memory, write `<path>.toml.tmp', rename (store.rs), and `edit' (edit.rs), *)
(* which lets an editor change the file in place.  Each step of a command    *)
(* is a system call; commands are processes that may run side by side, fail *)
(* or be killed between any two of them, and the machine may lose power.     *)
(*                                                                         *)
(* The file system is names (path, tmp) for inodes with contents.  On power *)
(* loss it returns to the state of its last transaction group: /etc is an    *)
(* overlay whose upper layer is a ZFS dataset.                               *)
(***************************************************************************)
EXTENDS ConfigDoc, FiniteSets, TLC

CONSTANTS
  Writers,    \* processes
  Commands,   \* the set / add / remove commands they may run
  Edits,      \* documents an editor may save; {} when nobody edits
  Inodes,     \* 1..n
  MaxRuns     \* bound: commands started

ASSUME StoreAssumption ==
  /\ Commands \subseteq Command /\ \A d \in Edits : IsText(d)
  /\ IsFiniteSet(Writers) /\ IsFiniteSet(Inodes) /\ Inodes \subseteq Nat \ {0}
  /\ Cardinality(Inodes) >= Cardinality(Writers) + 2

NoInode == 0

VARIABLES
  inode,   \* inode[i]: what the file holds
  path,    \* the inode of the configuration file, or NoInode
  tmp,     \* the inode of <path>.toml.tmp, or NoInode
  disk,    \* the state the machine finds after losing power
  proc,    \* proc[w]: the command w runs and how far it got
  runs     \* commands started

vars == <<inode, path, tmp, disk, proc, runs>>
fs == <<inode, path, tmp>>

\* A file cut off at zero length, which reads as an empty document.
Cut == [st |-> "cut", doc |-> EmptyDoc]

Idle == [pc |-> "idle", cmd |-> {}, doc |-> EmptyDoc, fd |-> NoInode]

Exists == path # NoInode
Content == inode[path]

Free == Inodes \ ({path, tmp} \cup {proc[w].fd : w \in Writers})
NewInode == CHOOSE i \in Free : \A j \in Free : i <= j

Goto(w, pc) == proc' = [proc EXCEPT ![w].pc = pc]
Exit(w) == proc' = [proc EXCEPT ![w] = Idle]
-----------------------------------------------------------------------------
Start(w, c) ==
  /\ proc[w].pc = "idle" /\ runs < MaxRuns
  /\ runs' = runs + 1
  /\ proc' = [proc EXCEPT ![w].pc = "load", ![w].cmd = {c}]
  /\ UNCHANGED <<fs, disk>>

\* load_document and the change: a missing file is an empty document; a parse
\* error and a rejected change end the command.
load_document == IF Exists THEN Content.doc ELSE EmptyDoc

Load(w) ==
  /\ proc[w].pc = "load"
  /\ \E c \in proc[w].cmd :
       LET result == Apply(c, load_document)
       IN  IF (Exists /\ Content.st = "garbled") \/ ~result.ok
           THEN Exit(w)
           ELSE proc' = [proc EXCEPT ![w].pc = "open", ![w].doc = result.doc]
  /\ UNCHANGED <<fs, disk, runs>>

\* Broken variant: a left-over temporary file is opened without O_TRUNC.
OpenKeeps(w) ==
  /\ proc[w].pc = "open"
  /\ LET i == IF tmp = NoInode THEN NewInode ELSE tmp
     IN  /\ tmp' = i
         /\ inode' = IF tmp = NoInode THEN [inode EXCEPT ![i] = Cut] ELSE inode
         /\ proc' = [proc EXCEPT ![w].pc = "write", ![w].fd = i]
  /\ UNCHANGED <<path, disk, runs>>

\* fs::write opens the temporary file with O_CREAT and O_TRUNC ...
OpenTmp(w) ==
  /\ proc[w].pc = "open"
  /\ LET i == IF tmp = NoInode THEN NewInode ELSE tmp
     IN  /\ tmp' = i
         /\ inode' = [inode EXCEPT ![i] = Cut]
         /\ proc' = [proc EXCEPT ![w].pc = "write", ![w].fd = i]
  /\ UNCHANGED <<path, disk, runs>>

\* ... and writes from offset 0: over the longer text of another writer, its
\* tail stays.
WriteTmp(w) ==
  /\ proc[w].pc = "write"
  /\ \E content \in {Whole(proc[w].doc)} \cup
                    (IF inode[proc[w].fd] = Cut THEN {} ELSE {Garbled}) :
       inode' = [inode EXCEPT ![proc[w].fd] = content]
  /\ proc' = [proc EXCEPT ![w].pc = "rename", ![w].fd = NoInode]
  /\ UNCHANGED <<path, tmp, disk, runs>>

\* A full disk: the write stops, the temporary file stays.
WriteError(w) ==
  /\ proc[w].pc = "write"
  /\ \E content \in {inode[proc[w].fd], Garbled} :
       inode' = [inode EXCEPT ![proc[w].fd] = content]
  /\ Exit(w)
  /\ UNCHANGED <<path, tmp, disk, runs>>

\* The rename takes whatever the name now refers to; a missing one is an error.
Rename(w) ==
  /\ proc[w].pc = "rename"
  /\ IF tmp = NoInode
     THEN UNCHANGED <<path, tmp>>
     ELSE path' = tmp /\ tmp' = NoInode
  /\ Exit(w)
  /\ UNCHANGED <<inode, disk, runs>>
-----------------------------------------------------------------------------
(* edit: no temporary file, and only a report when the result does not parse *)

EditLaunch(w) ==
  /\ proc[w].pc = "idle" /\ runs < MaxRuns /\ Edits # {}
  /\ runs' = runs + 1
  /\ IF Exists
     THEN UNCHANGED <<inode, path>>
     ELSE path' = NewInode /\ inode' = [inode EXCEPT ![NewInode] = Cut]
  /\ Goto(w, "editor")
  /\ UNCHANGED <<tmp, disk>>

EditorSave(w) ==
  /\ proc[w].pc = "editor"
  /\ \E content \in {Whole(d) : d \in Edits} \cup {Garbled} :
       inode' = [inode EXCEPT ![path] = content]
  /\ UNCHANGED <<path, tmp, disk, proc, runs>>

EditExit(w) ==
  /\ proc[w].pc = "editor"
  /\ Exit(w)
  /\ UNCHANGED <<fs, disk, runs>>
-----------------------------------------------------------------------------
\* Killed, or stopped by an error that changed nothing (a read-only file system).
Kill(w) ==
  /\ proc[w].pc # "idle"
  /\ Exit(w)
  /\ UNCHANGED <<fs, disk, runs>>

Sync ==
  /\ disk' = fs
  /\ UNCHANGED <<fs, proc, runs>>

PowerLoss ==
  /\ inode' = disk[1] /\ path' = disk[2] /\ tmp' = disk[3]
  /\ proc' = [w \in Writers |-> Idle]
  /\ UNCHANGED <<disk, runs>>

Init ==
  /\ inode = [i \in Inodes |-> Cut]
  /\ path = NoInode /\ tmp = NoInode
  /\ disk = fs
  /\ proc = [w \in Writers |-> Idle]
  /\ runs = 0

Next ==
  \/ \E w \in Writers :
       \/ \E c \in Commands : Start(w, c)
       \/ Load(w) \/ OpenTmp(w) \/ WriteTmp(w) \/ WriteError(w) \/ Rename(w)
       \/ EditLaunch(w) \/ EditorSave(w) \/ EditExit(w)
       \/ Kill(w)
  \/ Sync
  \/ PowerLoss

Spec == Init /\ [][Next]_vars
-----------------------------------------------------------------------------
(* Properties *)

\* What a reader of the file sees.
Visible == IF Exists THEN Content ELSE Whole(EmptyDoc)

\* The same, where a zero-length file is an empty document.
AsRead(content) == IF content = Cut THEN Whole(EmptyDoc) ELSE content

File ==
  INSTANCE ConfigFile
  WITH file    <- AsRead(Visible),
       editing <- \E w \in Writers : proc[w].pc = "editor",
       synced  <- AsRead(IF disk[2] = NoInode THEN Cut ELSE disk[1][disk[2]])

\* Whatever step is interrupted, the file changes only by one command applied
\* whole to the document it held just before, by an editor, or back to the last
\* synced state when power is lost; one that does not parse is left for its owner
\* to repair (set.rs, add.rs and remove.rs between load_document and
\* write_document).
ImplementsConfigFile == File!Spec

\* "Ensures that a crash during write cannot leave a half-written file"
\* (store.rs write_document): with no command running, the file is whole.
CrashLeavesWhole == (\A w \in Writers : proc[w].pc = "idle") => Visible.st = "whole"
=============================================================================

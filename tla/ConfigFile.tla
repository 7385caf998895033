----------------------------- MODULE ConfigFile -----------------------------
(***************************************************************************)
(* A configuration file as its readers may think of it: a command replaces  *)
(* the document by the changed one in a single step, an open editor saves   *)
(* whatever it likes, and a loss of power goes back to what was last        *)
(* synced.  A file that does not parse is replaced by an editor only.       *)
(***************************************************************************)
EXTENDS ConfigDoc

CONSTANTS
  Commands,   \* the set / add / remove commands that may run
  Edits       \* documents an editor may save

VARIABLES
  file,       \* what a reader finds
  editing,    \* an editor has the file open
  synced      \* what is found after a loss of power

Update(c) ==
  /\ file.st = "whole" /\ Apply(c, file.doc).ok
  /\ file' = Whole(Apply(c, file.doc).doc)
  /\ UNCHANGED <<editing, synced>>

OpenEditor == ~editing /\ editing' = TRUE /\ UNCHANGED <<file, synced>>
CloseEditor == editing /\ editing' = FALSE /\ UNCHANGED <<file, synced>>

Save ==
  /\ editing
  /\ file' \in {Whole(d) : d \in Edits} \cup {Garbled}
  /\ UNCHANGED <<editing, synced>>

Sync == synced' = file /\ UNCHANGED <<file, editing>>

PowerLoss == file' = synced /\ editing' = FALSE /\ UNCHANGED synced

Init == file = Whole(EmptyDoc) /\ synced = file /\ editing = FALSE

Next ==
  \/ \E c \in Commands : Update(c)
  \/ OpenEditor \/ Save \/ CloseEditor \/ Sync \/ PowerLoss

Spec == Init /\ [][Next]_<<file, editing, synced>>
=============================================================================

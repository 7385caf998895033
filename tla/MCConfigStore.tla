--------------------------- MODULE MCConfigStore ---------------------------
(* ConfigStore on small instances. *)
EXTENDS ConfigStore

SetTo(s, i, v) == [cmd |-> "set", key |-> [section |-> s, index |-> i, field |-> "f"], value |-> v]
Add(s) == [cmd |-> "add", key |-> [section |-> s, index |-> 0, field |-> NoField], value |-> 1]
Rm(s, i, f) == [cmd |-> "remove", key |-> [section |-> s, index |-> i, field |-> f], value |-> 1]

\* Every form of key path, on a section used as a table and as an array.
MCCommands ==
  { SetTo("wg", 0, 1), SetTo("wg", 1, 1), SetTo("wg", 2, 2), SetTo("ssh", 0, 2),
    Add("wg"), Add("machine"),
    Rm("wg", 1, NoField), Rm("wg", 2, NoField), Rm("wg", 0, "f"), Rm("wg", 1, "f"),
    Rm("ssh", 0, NoField) }

\* Two changes that do not touch each other.
MCTwoSets == { SetTo("wg", 0, 1), SetTo("ssh", 0, 2) }

MCEdits == { EmptyDoc, With(EmptyDoc, "ssh", Item("table", <<("f" :> 1)>>)) }
=============================================================================

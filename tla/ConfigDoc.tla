----------------------------- MODULE ConfigDoc -----------------------------
(***************************************************************************)
(* What `zebrafish-config set / add / remove' do to a TOML document, from   *)
(* set.rs, add.rs and remove.rs.  A document maps its section names to      *)
(* items: a plain table ([machine]) or an array of tables ([[wg]]), either  *)
(* one as a sequence of tables from field names to values.  A key path is   *)
(* section, section.field, section[i] or section[i].field; index 0 stands   *)
(* for a path without an index, and indices count from 1 here.              *)
(***************************************************************************)
EXTENDS Integers, Sequences

CONSTANTS Sections, Fields, Values, NoField, Machine

ASSUME DocAssumption == NoField \notin Fields

Table == UNION {[F -> Values] : F \in SUBSET Fields}

EmptyDoc == [s \in {} |-> s]
EmptyTable == [f \in {} |-> f]

Items == [kind : {"table", "array"}, tables : Seq(Table)]

\* A document: its sections are items, and a plain table is a single one.
IsDoc(d) ==
  /\ d \in [DOMAIN d -> Items]
  /\ \A s \in DOMAIN d : d[s].kind = "table" => Len(d[s].tables) = 1

\* A document as it is read from a text: no array is empty.
IsText(d) == IsDoc(d) /\ \A s \in DOMAIN d : d[s].tables # <<>>

Key == [section : Sections, index : Nat, field : Fields \cup {NoField}]

Failed(doc) == [ok |-> FALSE, doc |-> doc]
Done(doc) == [ok |-> TRUE, doc |-> doc]

\* doc with section s holding item.
With(doc, s, item) == [t \in DOMAIN doc \cup {s} |-> IF t = s THEN item ELSE doc[t]]

Without(f, x) == [y \in DOMAIN f \ {x} |-> f[y]]

Item(kind, tables) == [kind |-> kind, tables |-> tables]

\* The section as ensure_table / ensure_array_of_tables leave it.
Ensured(doc, s, kind) ==
  IF s \in DOMAIN doc THEN doc[s]
  ELSE Item(kind, IF kind = "table" THEN <<EmptyTable>> ELSE <<>>)

\* Broken variant: the table is built anew around the field.
SetAlone(doc, key, v) ==
  LET kind == IF key.index = 0 THEN "table" ELSE "array"
      item == Ensured(doc, key.section, kind)
      i    == IF key.index = 0 THEN 1 ELSE key.index
  IN  IF item.kind # kind \/ i > Len(item.tables) \/ key.field = NoField
      THEN Failed(doc)
      ELSE Done(With(doc, key.section,
                     Item(kind, [item.tables EXCEPT ![i] = With(EmptyTable, key.field, v)])))

\* The path indexes into an array of tables, or names a field of a plain table.
\* A path without a field, a section of the other kind and an index out of range
\* are errors.
apply_set(doc, key, v) ==
  LET kind == IF key.index = 0 THEN "table" ELSE "array"
      item == Ensured(doc, key.section, kind)
      i    == IF key.index = 0 THEN 1 ELSE key.index
      set_in_table(t) == With(t, key.field, v)
  IN  IF item.kind # kind \/ i > Len(item.tables) \/ key.field = NoField
      THEN Failed(doc)
      ELSE Done(With(doc, key.section,
                     Item(kind, [item.tables EXCEPT ![i] = set_in_table(@)])))

add_inner(doc, s) ==
  LET item == Ensured(doc, s, "array")
  IN  IF s = Machine \/ item.kind # "array" THEN Failed(doc)
      ELSE Done(With(doc, s, Item("array", Append(item.tables, EmptyTable))))

DropAt(seq, i) == SubSeq(seq, 1, i - 1) \o SubSeq(seq, i + 1, Len(seq))

\* A path to something that is not there succeeds without a change; a field of
\* an indexed table cannot be removed.
remove_in_doc(doc, key) ==
  LET item == doc[key.section] IN
  CASE key.index = 0 /\ key.field = NoField ->
         Done(Without(doc, key.section))
    [] (key.index > 0 \/ key.field # NoField) /\ key.section \notin DOMAIN doc ->
         Done(doc)
    [] key.section \in DOMAIN doc /\ key.index > 0 /\ key.field # NoField ->
         Failed(doc)
    [] key.section \in DOMAIN doc /\ key.index = 0 /\ key.field # NoField ->
         Done(IF item.kind = "table"
              THEN With(doc, key.section,
                        Item("table", <<Without(item.tables[1], key.field)>>))
              ELSE doc)
    [] key.section \in DOMAIN doc /\ key.index > 0 /\ key.field = NoField ->
         Done(IF item.kind = "array" /\ key.index <= Len(item.tables)
              THEN With(doc, key.section, Item("array", DropAt(item.tables, key.index)))
              ELSE doc)

\* What a reader finds in a file.
Whole(doc) == [st |-> "whole", doc |-> doc]
Garbled == [st |-> "garbled", doc |-> EmptyDoc]

\* A command: its name, its key and, for set, the value.
Command == [cmd : {"set", "add", "remove"}, key : Key, value : Values]

\* The text of a document has nothing for an array without tables.
Rendered(doc) ==
  [s \in {t \in DOMAIN doc : doc[t].tables # <<>>} |-> doc[s]]

Apply(c, doc) ==
  LET result == CASE c.cmd = "set"    -> apply_set(doc, c.key, c.value)
                  [] c.cmd = "add"    -> add_inner(doc, c.key.section)
                  [] c.cmd = "remove" -> remove_in_doc(doc, c.key)
  IN  [result EXCEPT !.doc = Rendered(@)]
-----------------------------------------------------------------------------
\* The tables of a section, none when it is absent.
TablesOf(doc, s) == IF s \in DOMAIN doc THEN doc[s].tables ELSE <<>>

\* A command leaves the other sections alone, and in its own section every
\* table but the one it names: they keep their contents and their order.
LocalTo(c, before, after) ==
  LET s == c.key.section
      b == TablesOf(before, s)
      a == TablesOf(after, s)
      i == IF c.key.index = 0 THEN 1 ELSE c.key.index
  IN  /\ \A t \in (DOMAIN before \cup DOMAIN after) \ {s} :
           t \in DOMAIN before \cap DOMAIN after /\ before[t] = after[t]
      /\ c.cmd = "add" => a = Append(b, EmptyTable)
      /\ c.cmd = "set" =>
           /\ a[i][c.key.field] = c.value
           /\ \A j \in DOMAIN b \ {i} : a[j] = b[j]
           /\ \A f \in Fields \ {c.key.field} :
                i <= Len(b) => (f \in DOMAIN a[i] <=> f \in DOMAIN b[i])
                               /\ (f \in DOMAIN a[i] => a[i][f] = b[i][f])
      /\ c.cmd = "remove" /\ c.key.index > 0 /\ a # b =>
           Len(a) = Len(b) - 1 /\ \A j \in DOMAIN a : a[j] = b[IF j < i THEN j ELSE j + 1]
      /\ c.cmd = "remove" /\ c.key.index = 0 /\ c.key.field # NoField /\ a # b =>
           a = <<Without(b[1], c.key.field)>>
=============================================================================

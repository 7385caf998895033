---------------------------- MODULE ConfigProofs ----------------------------
(***************************************************************************)
(* What a command does to a document, for every document and every key;     *)
(* that the commands of one process at a time, interrupted anywhere, are    *)
(* the single steps of ConfigFile; and what the readers of the two files    *)
(* get to see of those steps.                                               *)
(***************************************************************************)
EXTENDS ConfigStore, ConfigReaders, FiniteSetTheorems, SequenceTheorems, WellFoundedInduction, TLAPS
-----------------------------------------------------------------------------
(* Tables and documents *)

\* What a table is.
LEMMA Tables ==
  ASSUME NEW t
  PROVE  t \in Table <=> DOMAIN t \subseteq Fields /\ t \in [DOMAIN t -> Values]
BY DEF Table

\* A table without fields.
LEMMA EmptyTableIs == EmptyTable \in Table /\ DOMAIN EmptyTable = {}
BY DEF Table, EmptyTable

\* A table with one field set.
LEMMA WithTable ==
  ASSUME NEW t \in Table, NEW f \in Fields, NEW v \in Values
  PROVE  /\ With(t, f, v) \in Table /\ DOMAIN With(t, f, v) = DOMAIN t \cup {f}
         /\ With(t, f, v)[f] = v /\ \A g \in DOMAIN t \ {f} : With(t, f, v)[g] = t[g]
BY Tables DEF With

\* A table without one of its fields.
LEMMA WithoutTable ==
  ASSUME NEW t \in Table, NEW f
  PROVE  Without(t, f) \in Table
BY Tables DEF Without

\* A document with one section set.
LEMMA WithDoc ==
  ASSUME NEW d, IsDoc(d), NEW s, NEW item \in Items, item.kind = "table" => Len(item.tables) = 1
  PROVE  /\ IsDoc(With(d, s, item)) /\ DOMAIN With(d, s, item) = DOMAIN d \cup {s}
         /\ \A t \in DOMAIN d \ {s} : With(d, s, item)[t] = d[t]
BY DEF With, IsDoc

\* A document without one of its sections.
LEMMA WithoutDoc ==
  ASSUME NEW d, IsDoc(d), NEW s
  PROVE  /\ IsDoc(Without(d, s)) /\ DOMAIN Without(d, s) = DOMAIN d \ {s}
         /\ \A t \in DOMAIN d \ {s} : Without(d, s)[t] = d[t]
BY DEF Without, IsDoc

\* What a section holds.
LEMMA ItemIs ==
  ASSUME NEW kind \in {"table", "array"}, NEW tables \in Seq(Table)
  PROVE  Item(kind, tables) \in Items /\ Item(kind, tables).kind = kind
         /\ Item(kind, tables).tables = tables
BY DEF Item, Items

\* Rendering drops the empty arrays and nothing else.
LEMMA RenderedIs ==
  ASSUME NEW d, IsDoc(d)
  PROVE  /\ IsText(Rendered(d))
         /\ \A s : TablesOf(Rendered(d), s) = TablesOf(d, s)
         /\ DOMAIN Rendered(d) = {t \in DOMAIN d : d[t].tables # <<>>}
         /\ \A s \in DOMAIN Rendered(d) : Rendered(d)[s] = d[s]
<1>1. /\ DOMAIN Rendered(d) = {t \in DOMAIN d : d[t].tables # <<>>}
      /\ \A s \in DOMAIN Rendered(d) : Rendered(d)[s] = d[s]
  BY DEF Rendered
<1>2. IsText(Rendered(d))
  BY <1>1 DEF IsText, IsDoc, Rendered
<1>3. \A s : TablesOf(Rendered(d), s) = TablesOf(d, s)
  BY <1>1 DEF TablesOf
<1> QED BY <1>1, <1>2, <1>3
-----------------------------------------------------------------------------
(* The commands *)

\* The fields of a command.
LEMMA CommandIs ==
  ASSUME NEW c \in Command
  PROVE  /\ c.cmd \in {"set", "add", "remove"} /\ c.value \in Values
         /\ c.key.section \in Sections /\ c.key.index \in Nat
         /\ c.key.field \in Fields \cup {NoField}
BY DEF Command, Key

\* What Apply makes of the result of a command on a document that was read.
LEMMA Applied ==
  ASSUME NEW c, NEW d, NEW ok \in BOOLEAN, NEW x, IsDoc(x),
         Apply(c, d) = [[ok |-> ok, doc |-> x] EXCEPT !.doc = Rendered(@)]
  PROVE  Apply(c, d).ok = ok /\ Apply(c, d).doc = Rendered(x) /\ IsText(Apply(c, d).doc)
<1>1. Apply(c, d) = [ok |-> ok, doc |-> Rendered(x)]
  OBVIOUS
<1>2. IsText(Rendered(x))
  BY RenderedIs, Zenon
<1> QED BY <1>1, <1>2

\* A failed command leaves the text as it was.
LEMMA FailedIs ==
  ASSUME NEW d, IsText(d)
  PROVE  Rendered(d) = d
BY DEF Rendered, IsText, IsDoc

\* Sections other than that of the command are kept.
LEMMA OthersKept ==
  ASSUME NEW d, IsText(d), NEW x, IsDoc(x), NEW s,
         DOMAIN x \ {s} = DOMAIN d \ {s}, \A t \in DOMAIN d \ {s} : x[t] = d[t]
  PROVE  \A t \in (DOMAIN d \cup DOMAIN Rendered(x)) \ {s} :
           t \in DOMAIN d \cap DOMAIN Rendered(x) /\ d[t] = Rendered(x)[t]
<1>1. /\ DOMAIN Rendered(x) = {t \in DOMAIN x : x[t].tables # <<>>}
      /\ \A t \in DOMAIN Rendered(x) : Rendered(x)[t] = x[t]
  BY RenderedIs
<1>2. \A t \in DOMAIN d : d[t].tables # <<>>
  BY DEF IsText
<1> QED BY <1>1, <1>2

\* The section as a command finds it, or makes it.
LEMMA EnsuredIs ==
  ASSUME NEW d, IsDoc(d), NEW s, NEW kind \in {"table", "array"}
  PROVE  LET item == Ensured(d, s, kind) IN
         /\ item \in Items /\ (item.kind = "table" => Len(item.tables) = 1)
         /\ s \in DOMAIN d => item.tables = TablesOf(d, s)
         /\ s \notin DOMAIN d =>
              TablesOf(d, s) = <<>> /\ item.kind = kind
              /\ item.tables = IF kind = "table" THEN <<EmptyTable>> ELSE <<>>
<1>1. <<EmptyTable>> \in Seq(Table) /\ <<>> \in Seq(Table) /\ Len(<<EmptyTable>>) = 1
  BY EmptyTableIs
<1>2. CASE s \in DOMAIN d
  BY <1>2 DEF Ensured, TablesOf, IsDoc
<1>3. CASE s \notin DOMAIN d
  BY <1>1, <1>3, ItemIs DEF Ensured, TablesOf
<1> QED BY <1>2, <1>3

\* What a command that succeeds leaves in its own section.
SectionAfter(c, before, after) ==
  LET s    == c.key.section
      f    == c.key.field
      i    == IF c.key.index = 0 THEN 1 ELSE c.key.index
      kind == IF c.key.index = 0 THEN "table" ELSE "array"
  IN  /\ c.cmd = "add" =>
           /\ s \in DOMAIN after /\ after[s].kind = "array"
           /\ s \in DOMAIN before => before[s].kind = "array"
      /\ c.cmd = "set" =>
           /\ s \in DOMAIN after /\ after[s].kind = kind
           /\ i \in DOMAIN after[s].tables /\ f \in DOMAIN after[s].tables[i]
           /\ s \in DOMAIN before =>
                /\ before[s].kind = kind /\ DOMAIN after[s].tables = DOMAIN before[s].tables
                /\ DOMAIN after[s].tables[i] = DOMAIN before[s].tables[i] \cup {f}
           /\ s \notin DOMAIN before =>
                /\ kind = "table" /\ DOMAIN after[s].tables = {i}
                /\ DOMAIN after[s].tables[i] = {f}
      /\ c.cmd = "remove" /\ s \in DOMAIN after =>
           /\ s \in DOMAIN before /\ after[s].kind = before[s].kind
           /\ c.key.index > 0 \/ f # NoField

\* The four parts of LocalTo, once the tables before and after are known.
LEMMA AddIsLocal ==
  ASSUME NEW d, IsText(d), NEW c \in Command, c.cmd = "add"
  PROVE  /\ IsText(Apply(c, d).doc)
         /\ Apply(c, d).ok =>
              LocalTo(c, d, Apply(c, d).doc) /\ SectionAfter(c, d, Apply(c, d).doc)
<1> DEFINE s == c.key.section
           item == Ensured(d, s, "array")
           new == Item("array", Append(item.tables, EmptyTable))
           x == With(d, s, new)
<1>1. IsDoc(d)
  BY DEF IsText
<1>2. CASE s = Machine \/ item.kind # "array"
  <2>1. Apply(c, d) = [[ok |-> FALSE, doc |-> d] EXCEPT !.doc = Rendered(@)]
    BY <1>2 DEF Apply, add_inner, Failed
  <2> QED BY <1>1, <2>1, Applied
<1>3. CASE ~(s = Machine \/ item.kind # "array")
  <2>1. Apply(c, d) = [[ok |-> TRUE, doc |-> x] EXCEPT !.doc = Rendered(@)]
    BY <1>3 DEF Apply, add_inner, Done
  <2>2. item \in Items /\ item.tables = TablesOf(d, s)
    BY <1>1, EnsuredIs
  <2>3. new \in Items /\ new.kind = "array" /\ new.tables = Append(TablesOf(d, s), EmptyTable)
    <3>1. item.tables \in Seq(Table)
      BY <2>2 DEF Items
    <3>2. Append(item.tables, EmptyTable) \in Seq(Table)
      BY <3>1, EmptyTableIs
    <3> QED BY <2>2, <3>2, ItemIs
  <2> HIDE DEF new
  <2>4. /\ IsDoc(x) /\ DOMAIN x = DOMAIN d \cup {s} /\ x[s] = new
        /\ \A t \in DOMAIN d \ {s} : x[t] = d[t]
    <3>1. new.kind = "table" => Len(new.tables) = 1
      BY <2>3
    <3>2. x[s] = new
      BY DEF With
    <3> HIDE DEF s
    <3>3. /\ IsDoc(x) /\ DOMAIN x = DOMAIN d \cup {s}
          /\ \A t \in DOMAIN d \ {s} : x[t] = d[t]
      BY <1>1, <2>3, <3>1, WithDoc
    <3> QED BY <3>2, <3>3
  <2> HIDE DEF x, item
  <2>5. IsText(Apply(c, d).doc) /\ Apply(c, d).doc = Rendered(x)
    BY <2>1, <2>4, Applied
  <2>6. TablesOf(Rendered(x), s) = Append(TablesOf(d, s), EmptyTable)
    BY <2>3, <2>4, RenderedIs DEF TablesOf
  <2>7. \A t \in (DOMAIN d \cup DOMAIN Rendered(x)) \ {s} :
           t \in DOMAIN d \cap DOMAIN Rendered(x) /\ d[t] = Rendered(x)[t]
    BY <2>4, OthersKept
  <2>8. LocalTo(c, d, Rendered(x))
    BY <2>6, <2>7 DEF LocalTo
  <2>9. new.tables # <<>>
    <3>1. TablesOf(d, s) \in Seq(Table)
      BY <2>2 DEF Items
    <3> QED BY <2>3, <3>1, EmptyTableIs
  <2>10. s \in DOMAIN Rendered(x) /\ Rendered(x)[s] = new
    BY <2>4, <2>9, RenderedIs
  <2>11. s \in DOMAIN d => d[s].kind = "array"
    BY <1>3 DEF item, Ensured
  <2>12. SectionAfter(c, d, Rendered(x))
    BY <2>3, <2>10, <2>11 DEF SectionAfter
  <2> QED BY <2>5, <2>8, <2>12
<1> QED BY <1>2, <1>3

\* set changes only the field its key names.
LEMMA SetIsLocal ==
  ASSUME NEW d, IsText(d), NEW c \in Command, c.cmd = "set"
  PROVE  /\ IsText(Apply(c, d).doc)
         /\ Apply(c, d).ok =>
              LocalTo(c, d, Apply(c, d).doc) /\ SectionAfter(c, d, Apply(c, d).doc)
<1> DEFINE s == c.key.section
           f == c.key.field
           kind == IF c.key.index = 0 THEN "table" ELSE "array"
           item == Ensured(d, s, kind)
           i == IF c.key.index = 0 THEN 1 ELSE c.key.index
           tables == [item.tables EXCEPT ![i] = With(item.tables[i], f, c.value)]
           new == Item(kind, tables)
           x == With(d, s, new)
<1>1. IsDoc(d) /\ kind \in {"table", "array"} /\ i \in Nat \ {0}
  BY CommandIs DEF IsText
<1>2. CASE item.kind # kind \/ i > Len(item.tables) \/ f = NoField
  <2>1. Apply(c, d) = [[ok |-> FALSE, doc |-> d] EXCEPT !.doc = Rendered(@)]
    BY <1>2 DEF Apply, apply_set, Failed
  <2> QED BY <1>1, <2>1, Applied
<1>3. CASE ~(item.kind # kind \/ i > Len(item.tables) \/ f = NoField)
  <2>1. Apply(c, d) = [[ok |-> TRUE, doc |-> x] EXCEPT !.doc = Rendered(@)]
    BY <1>3 DEF Apply, apply_set, Done
  <2>2. /\ item \in Items /\ item.tables \in Seq(Table)
        /\ item.kind = "table" => Len(item.tables) = 1
        /\ s \in DOMAIN d => item.tables = TablesOf(d, s)
        /\ s \notin DOMAIN d => TablesOf(d, s) = <<>>
    <3> HIDE DEF kind
    <3> QED BY <1>1, EnsuredIs DEF Items
  <2>3. f \in Fields /\ c.value \in Values
    BY <1>3, CommandIs
  <2>4. item.kind = kind /\ i \in 1..Len(item.tables)
    BY <1>1, <1>3, <2>2
  <2> HIDE DEF item, i, kind, f, s
  <2>5. item.tables[i] \in Table
    BY <2>2, <2>4
  <2> DEFINE old == item.tables[i]
             t == With(old, f, c.value)
  <2>6. /\ t \in Table /\ DOMAIN t = DOMAIN old \cup {f}
        /\ t[f] = c.value /\ \A g \in DOMAIN old \ {f} : t[g] = old[g]
    BY <2>3, <2>5, WithTable
  <2> HIDE DEF t
  <2>7. /\ tables \in Seq(Table) /\ Len(tables) = Len(item.tables) /\ tables[i] = t
        /\ \A j \in (1..Len(item.tables)) \ {i} : tables[j] = item.tables[j]
    BY <2>2, <2>4, <2>6 DEF t
  <2> HIDE DEF tables
  <2>8. new \in Items /\ new.kind = kind /\ new.tables = tables
    BY <1>1, <2>7, ItemIs
  <2> HIDE DEF new
  <2>9. /\ IsDoc(x) /\ DOMAIN x = DOMAIN d \cup {s} /\ x[s] = new
        /\ \A u \in DOMAIN d \ {s} : x[u] = d[u]
    <3>1. new.kind = "table" => Len(new.tables) = 1
      BY <2>2, <2>4, <2>7, <2>8
    <3>2. x[s] = new
      BY DEF With
    <3>3. /\ IsDoc(x) /\ DOMAIN x = DOMAIN d \cup {s}
          /\ \A u \in DOMAIN d \ {s} : x[u] = d[u]
      BY <1>1, <2>8, <3>1, WithDoc
    <3> QED BY <3>2, <3>3
  <2> HIDE DEF x
  <2>10. IsText(Apply(c, d).doc) /\ Apply(c, d).doc = Rendered(x)
    BY <2>1, <2>9, Applied
  <2>11. TablesOf(Rendered(x), s) = tables
    BY <2>8, <2>9, RenderedIs DEF TablesOf
  <2>12. \A u \in (DOMAIN d \cup DOMAIN Rendered(x)) \ {s} :
           u \in DOMAIN d \cap DOMAIN Rendered(x) /\ d[u] = Rendered(x)[u]
    BY <2>9, OthersKept
  <2>13. tables[i][f] = c.value
    BY <2>6, <2>7
  <2>14. ASSUME NEW j \in DOMAIN TablesOf(d, s) \ {i} PROVE tables[j] = TablesOf(d, s)[j]
    <3>1. s \in DOMAIN d /\ TablesOf(d, s) = item.tables
      BY <2>2, <2>14
    <3> QED BY <2>2, <2>7, <3>1
  <2>15. ASSUME NEW g \in Fields \ {f}, i <= Len(TablesOf(d, s))
         PROVE  /\ g \in DOMAIN tables[i] <=> g \in DOMAIN TablesOf(d, s)[i]
                /\ g \in DOMAIN tables[i] => tables[i][g] = TablesOf(d, s)[i][g]
    <3>1. TablesOf(d, s)[i] = old
      BY <2>2, <2>4, <2>15
    <3> QED BY <2>6, <2>7, <3>1
  <2>16. LocalTo(c, d, Rendered(x))
    BY <2>11, <2>12, <2>13, <2>14, <2>15 DEF LocalTo, i, f, s
  <2>17. /\ s \in DOMAIN Rendered(x) /\ Rendered(x)[s].kind = kind
         /\ Rendered(x)[s].tables = tables
    <3>1. tables # <<>>
      BY <2>2, <2>4, <2>7
    <3> QED BY <2>8, <2>9, <3>1, RenderedIs
  <2>18. i \in DOMAIN tables /\ f \in DOMAIN tables[i]
    BY <2>2, <2>4, <2>6, <2>7
  <2>19. ASSUME s \in DOMAIN d
         PROVE  /\ d[s].kind = kind /\ DOMAIN tables = DOMAIN d[s].tables
                /\ DOMAIN tables[i] = DOMAIN d[s].tables[i] \cup {f}
    <3>1. d[s] = item
      BY <2>19 DEF item, Ensured
    <3> QED BY <2>2, <2>4, <2>6, <2>7, <3>1
  <2>20. ASSUME s \notin DOMAIN d
         PROVE  kind = "table" /\ DOMAIN tables = {i} /\ DOMAIN tables[i] = {f}
    <3>1. item.tables = IF kind = "table" THEN <<EmptyTable>> ELSE <<>>
      BY <1>1, <2>20, EnsuredIs DEF item
    <3>2. kind = "table" /\ item.tables = <<EmptyTable>>
      BY <2>2, <2>4, <3>1
    <3>3. Len(item.tables) = 1 /\ item.tables[1] = EmptyTable
      BY <3>2
    <3>4. i = 1 /\ old = EmptyTable
      BY <2>4, <3>3
    <3>5. DOMAIN tables = {1}
      BY <2>7, <3>3
    <3>6. DOMAIN t = {f}
      BY <2>6, <3>4, EmptyTableIs
    <3> QED BY <2>7, <3>2, <3>4, <3>5, <3>6
  <2>21. SectionAfter(c, d, Rendered(x))
    BY <2>17, <2>18, <2>19, <2>20 DEF SectionAfter, i, f, s, kind
  <2> QED BY <2>10, <2>16, <2>21
<1> QED BY <1>2, <1>3

\* Dropping an element moves the later ones forward.
LEMMA DropAtIs ==
  ASSUME NEW S, NEW seq \in Seq(S), NEW i \in 1..Len(seq)
  PROVE  /\ DropAt(seq, i) \in Seq(S) /\ Len(DropAt(seq, i)) = Len(seq) - 1
         /\ \A j \in 1..(Len(seq) - 1) :
              DropAt(seq, i)[j] = seq[IF j < i THEN j ELSE j + 1]
<1> DEFINE front == SubSeq(seq, 1, i - 1)
           back == SubSeq(seq, i + 1, Len(seq))
<1>1. Len(seq) \in Nat /\ i \in Nat /\ 1 <= i /\ i <= Len(seq)
  OBVIOUS
<1>2. /\ front \in Seq(S) /\ Len(front) = i - 1
      /\ \A j \in 1..(i - 1) : front[j] = seq[j]
  BY <1>1
<1>3. /\ back \in Seq(S) /\ Len(back) = Len(seq) - i
      /\ \A j \in 1..(Len(seq) - i) : back[j] = seq[i + j]
  BY <1>1
<1> HIDE DEF front, back
<1>4. /\ front \o back \in Seq(S) /\ Len(front \o back) = Len(seq) - 1
      /\ \A j \in 1..(Len(seq) - 1) :
           (front \o back)[j] = IF j <= i - 1 THEN front[j] ELSE back[j - (i - 1)]
  <2>1. /\ front \o back \in Seq(S)
        /\ Len(front \o back) = Len(front) + Len(back)
        /\ \A j \in 1..(Len(front) + Len(back)) :
             (front \o back)[j] = IF j <= Len(front) THEN front[j] ELSE back[j - Len(front)]
    BY <1>2, <1>3, ConcatProperties
  <2>2. Len(front) + Len(back) = Len(seq) - 1
    BY <1>1, <1>2, <1>3
  <2> QED BY <1>2, <2>1, <2>2
<1>5. ASSUME NEW j \in 1..(Len(seq) - 1)
      PROVE  (front \o back)[j] = seq[IF j < i THEN j ELSE j + 1]
  <2>1. CASE j < i
    BY <1>1, <1>2, <1>4, <2>1
  <2>2. CASE ~(j < i)
    <3>1. j - (i - 1) \in 1..(Len(seq) - i) /\ i + (j - (i - 1)) = j + 1
      BY <1>1, <2>2
    <3>2. ~(j <= i - 1)
      BY <1>1, <2>2
    <3>3. (front \o back)[j] = back[j - (i - 1)]
      BY <1>4, <3>2
    <3> QED BY <1>3, <2>2, <3>1, <3>3
  <2> QED BY <2>1, <2>2
<1> QED BY <1>4, <1>5 DEF DropAt, front, back

\* remove takes away only what its key names.
LEMMA RemoveIsLocal ==
  ASSUME NEW d, IsText(d), NEW c \in Command, c.cmd = "remove"
  PROVE  /\ IsText(Apply(c, d).doc)
         /\ Apply(c, d).ok =>
              LocalTo(c, d, Apply(c, d).doc) /\ SectionAfter(c, d, Apply(c, d).doc)
<1> DEFINE key == c.key
           s == c.key.section
           b == TablesOf(d, s)
           Moved(a) ==
             /\ key.index > 0 /\ a # b =>
                  /\ Len(a) = Len(b) - 1
                  /\ \A j \in DOMAIN a : a[j] = b[IF j < key.index THEN j ELSE j + 1]
             /\ key.index = 0 /\ key.field # NoField /\ a # b =>
                  a = <<Without(b[1], key.field)>>
<1>1. IsDoc(d) /\ key.index \in Nat
  BY CommandIs DEF IsText
\* The result x of a removal that succeeds.
<1>2. ASSUME NEW x, IsDoc(x), remove_in_doc(d, key) = [ok |-> TRUE, doc |-> x],
             DOMAIN x \ {s} = DOMAIN d \ {s}, \A t \in DOMAIN d \ {s} : x[t] = d[t],
             Moved(TablesOf(x, s)),
             s \in DOMAIN x => s \in DOMAIN d /\ x[s].kind = d[s].kind,
             s \in DOMAIN x => key.index > 0 \/ key.field # NoField
      PROVE  /\ IsText(Apply(c, d).doc) /\ LocalTo(c, d, Apply(c, d).doc)
             /\ SectionAfter(c, d, Apply(c, d).doc)
  <2>1. Apply(c, d) = [[ok |-> TRUE, doc |-> x] EXCEPT !.doc = Rendered(@)]
    BY <1>2 DEF Apply
  <2>2. IsText(Apply(c, d).doc) /\ Apply(c, d).doc = Rendered(x)
    BY <1>2, <2>1, Applied
  <2>3. TablesOf(Rendered(x), s) = TablesOf(x, s)
    BY <1>2, RenderedIs
  <2> HIDE DEF s, Moved
  <2>4. \A t \in (DOMAIN d \cup DOMAIN Rendered(x)) \ {s} :
           t \in DOMAIN d \cap DOMAIN Rendered(x) /\ d[t] = Rendered(x)[t]
    BY <1>2, OthersKept
  <2>5. SectionAfter(c, d, Rendered(x))
    <3>1. s \in DOMAIN Rendered(x) => s \in DOMAIN x /\ Rendered(x)[s] = x[s]
      BY <1>2, RenderedIs
    <3>2. s \in DOMAIN Rendered(x) =>
            /\ s \in DOMAIN d /\ Rendered(x)[s].kind = d[s].kind
            /\ key.index > 0 \/ key.field # NoField
      BY <1>2, <3>1
    <3> QED BY <3>2, Zenon DEF SectionAfter, s
  <2> QED BY <1>1, <1>2, <2>2, <2>3, <2>4, <2>5 DEF LocalTo, s, Moved
<1>3. CASE key.index = 0 /\ key.field = NoField
  <2> DEFINE x == Without(d, s)
  <2>1. remove_in_doc(d, key) = [ok |-> TRUE, doc |-> x]
    BY <1>3 DEF remove_in_doc, Done
  <2>2. /\ IsDoc(x) /\ DOMAIN x = DOMAIN d \ {s} /\ \A t \in DOMAIN d \ {s} : x[t] = d[t]
    <3> HIDE DEF s
    <3> QED BY <1>1, WithoutDoc
  <2> HIDE DEF x
  <2> QED BY <1>2, <1>3, <2>1, <2>2
<1>4. CASE (key.index > 0 \/ key.field # NoField) /\ s \notin DOMAIN d
  <2>1. remove_in_doc(d, key) = [ok |-> TRUE, doc |-> d]
    BY <1>1, <1>4 DEF remove_in_doc, Done
  <2> QED BY <1>1, <1>2, <1>4, <2>1
<1>5. CASE s \in DOMAIN d /\ key.index > 0 /\ key.field # NoField
  <2>1. remove_in_doc(d, key) = [ok |-> FALSE, doc |-> d]
    BY <1>5 DEF remove_in_doc, Failed
  <2>2. Apply(c, d) = [[ok |-> FALSE, doc |-> d] EXCEPT !.doc = Rendered(@)]
    BY <2>1 DEF Apply
  <2> QED BY <1>1, <2>2, Applied
<1>6. CASE s \in DOMAIN d /\ key.index = 0 /\ key.field # NoField
  <2>1. CASE d[s].kind # "table"
    <3>1. remove_in_doc(d, key) = [ok |-> TRUE, doc |-> d]
      BY <1>6, <2>1 DEF remove_in_doc, Done
    <3> QED BY <1>1, <1>2, <1>6, <3>1
  <2>2. CASE d[s].kind = "table"
    <3> DEFINE tables == <<Without(d[s].tables[1], key.field)>>
               new == Item("table", tables)
               x == With(d, s, new)
    <3>1. remove_in_doc(d, key) = [ok |-> TRUE, doc |-> x]
      BY <1>6, <2>2 DEF remove_in_doc, Done
    <3>2. d[s].tables = b /\ b \in Seq(Table) /\ Len(b) = 1
      BY <1>1, <1>6, <2>2 DEF IsDoc, Items, TablesOf
    <3>3. b[1] \in Table
      BY <3>2
    <3>4. tables \in Seq(Table) /\ Len(tables) = 1 /\ tables = <<Without(b[1], key.field)>>
      BY <3>2, <3>3, WithoutTable
    <3>5. new \in Items /\ new.kind = "table" /\ new.tables = tables
      <4> HIDE DEF tables
      <4> QED BY <3>4, ItemIs
    <3> HIDE DEF new, s
    <3>6. x[s] = new
      BY DEF With
    <3>7. new.kind = "table" => Len(new.tables) = 1
      BY <3>4, <3>5
    <3>8. /\ IsDoc(x) /\ DOMAIN x = DOMAIN d \cup {s} /\ \A t \in DOMAIN d \ {s} : x[t] = d[t]
      BY <1>1, <3>5, <3>7, WithDoc
    <3>9. TablesOf(x, s) = <<Without(b[1], key.field)>>
      BY <3>4, <3>5, <3>6, <3>8 DEF TablesOf
    <3>10. x[s].kind = d[s].kind
      BY <2>2, <3>5, <3>6
    <3> HIDE DEF x, b
    <3> QED BY <1>2, <1>6, <3>1, <3>8, <3>9, <3>10
  <2> QED BY <2>1, <2>2
<1>7. CASE s \in DOMAIN d /\ key.index > 0 /\ key.field = NoField
  <2>1. CASE ~(d[s].kind = "array" /\ key.index <= Len(d[s].tables))
    <3>1. CASE d[s].kind # "array"
      <4>1. remove_in_doc(d, key) =
              Done(IF d[s].kind = "array" /\ key.index <= Len(d[s].tables)
                   THEN With(d, s, Item("array", DropAt(d[s].tables, key.index)))
                   ELSE d)
        BY <1>7 DEF remove_in_doc
      <4>2. remove_in_doc(d, key) = [ok |-> TRUE, doc |-> d]
        BY <3>1, <4>1 DEF Done
      <4> QED BY <1>1, <1>2, <1>7, <4>2
    <3>2. CASE ~(key.index <= Len(d[s].tables))
      <4>1. remove_in_doc(d, key) = [ok |-> TRUE, doc |-> d]
        BY <1>7, <3>2 DEF remove_in_doc, Done
      <4> QED BY <1>1, <1>2, <1>7, <4>1
    <3> QED BY <2>1, <3>1, <3>2
  <2>2. CASE d[s].kind = "array" /\ key.index <= Len(d[s].tables)
    <3> DEFINE tables == DropAt(d[s].tables, key.index)
               new == Item("array", tables)
               x == With(d, s, new)
    <3>1. remove_in_doc(d, key) = [ok |-> TRUE, doc |-> x]
      BY <1>7, <2>2 DEF remove_in_doc, Done
    <3>2. d[s].tables = b /\ b \in Seq(Table) /\ key.index \in 1..Len(b)
      BY <1>1, <1>7, <2>2 DEF IsDoc, Items, TablesOf
    <3> HIDE DEF b
    <3>3. /\ tables \in Seq(Table) /\ Len(tables) = Len(b) - 1
          /\ \A j \in 1..(Len(b) - 1) : tables[j] = b[IF j < key.index THEN j ELSE j + 1]
      BY <3>2, DropAtIs
    <3> HIDE DEF tables
    <3>4. new \in Items /\ new.kind = "array" /\ new.tables = tables
      BY <3>3, ItemIs
    <3> HIDE DEF new, s
    <3>5. x[s] = new
      BY DEF With
    <3>6. new.kind = "table" => Len(new.tables) = 1
      BY <3>4
    <3>7. /\ IsDoc(x) /\ DOMAIN x = DOMAIN d \cup {s} /\ \A t \in DOMAIN d \ {s} : x[t] = d[t]
      BY <1>1, <3>4, <3>6, WithDoc
    <3>8. TablesOf(x, s) = tables
      BY <3>4, <3>5, <3>7 DEF TablesOf
    <3>9. DOMAIN tables = 1..(Len(b) - 1)
      BY <3>3
    <3>10. x[s].kind = d[s].kind
      BY <2>2, <3>4, <3>5
    <3> HIDE DEF x
    <3> QED BY <1>2, <1>7, <3>1, <3>3, <3>7, <3>8, <3>9, <3>10
  <2> QED BY <2>1, <2>2
<1> QED BY <1>1, <1>3, <1>4, <1>5, <1>6, <1>7

\* set, add and remove, on any document and with any key: the result is again a
\* document, and differs from the old one only at the key of the command, where it
\* has the kind and the fields the key asks for.
THEOREM CommandsAreLocal ==
  ASSUME NEW d, IsText(d), NEW c \in Command
  PROVE  /\ IsText(Apply(c, d).doc)
         /\ Apply(c, d).ok =>
              LocalTo(c, d, Apply(c, d).doc) /\ SectionAfter(c, d, Apply(c, d).doc)
BY AddIsLocal, SetIsLocal, RemoveIsLocal, CommandIs
-----------------------------------------------------------------------------
(* One process at a time *)

\* What a file can hold.
IsContent(x) == x \in {Cut, Garbled} \/ (x = Whole(x.doc) /\ IsText(x.doc))

\* A file system: inodes n, and the configuration file and the temporary one, which
\* are not the same.
FsOK(n, p, t) ==
  /\ n = [i \in Inodes |-> n[i]] /\ \A i \in Inodes : IsContent(n[i])
  /\ p \in Inodes \cup {NoInode} /\ t \in Inodes \cup {NoInode}
  /\ p = t => p = NoInode

DocAt(n, p) == IF p = NoInode THEN EmptyDoc ELSE n[p].doc

\* A process r on that file system: from the load to the rename the file still holds
\* what was loaded, and the temporary file is what the process made it.
ProcOK(r, n, p, t) ==
  /\ r = [pc |-> r.pc, cmd |-> r.cmd, doc |-> r.doc, fd |-> r.fd]
  /\ r.pc \in {"idle", "load", "open", "write", "rename", "editor"}
  /\ r.pc = "load" => \E c \in Commands : r.cmd = {c}
  /\ r.pc \in {"open", "write", "rename"} =>
       \E c \in Commands :
         /\ r.cmd = {c} /\ (p # NoInode => n[p].st # "garbled")
         /\ Apply(c, DocAt(n, p)).ok /\ r.doc = Apply(c, DocAt(n, p)).doc
  /\ r.pc = "write" => t # NoInode /\ r.fd = t /\ n[t] = Cut
  /\ r.pc = "rename" => t # NoInode /\ n[t] = Whole(r.doc)
  /\ r.pc = "editor" => p # NoInode
  /\ r.pc # "write" => r.fd = NoInode

StoreInv ==
  /\ FsOK(inode, path, tmp)
  /\ disk = <<disk[1], disk[2], disk[3]>> /\ FsOK(disk[1], disk[2], disk[3])
  /\ proc = [w \in Writers |-> proc[w]]
  /\ \A w \in Writers : ProcOK(proc[w], inode, path, tmp)

\* The three variables of ConfigFile.
FileNow == AsRead(Visible)
EditingNow == \E w \in Writers : proc[w].pc = "editor"
SyncedNow == AsRead(IF disk[2] = NoInode THEN Cut ELSE disk[1][disk[2]])

\* The missing file is no inode.
LEMMA NoInodeIsNone == NoInode \notin Inodes
BY StoreAssumption DEF NoInode

\* A missing file reads as a document.
LEMMA EmptyDocIs == IsText(EmptyDoc)
BY DEF IsText, IsDoc, EmptyDoc

\* What is read of a content.
LEMMA ContentIs ==
  ASSUME NEW x, IsContent(x)
  PROVE  /\ IsText(x.doc) /\ (x.st # "garbled" => AsRead(x) = Whole(x.doc))
         /\ x.st = "garbled" => AsRead(x) = Garbled
         /\ x.st \in {"whole", "cut", "garbled"}
<1>1. CASE x = Cut
  BY <1>1, EmptyDocIs DEF Cut, AsRead
<1>2. CASE x = Garbled
  BY <1>2, EmptyDocIs DEF Garbled, AsRead, Cut
<1>3. CASE x = Whole(x.doc) /\ IsText(x.doc)
  BY <1>3 DEF Whole, AsRead, Cut
<1> QED BY <1>1, <1>2, <1>3 DEF IsContent

\* What a reader of the file finds.
LEMMA FileIs ==
  ASSUME FsOK(inode, path, tmp)
  PROVE  /\ path = NoInode => FileNow = Whole(EmptyDoc)
         /\ path # NoInode => FileNow = AsRead(inode[path]) /\ IsContent(inode[path])
         /\ Visible.doc = DocAt(inode, path)
         /\ load_document = DocAt(inode, path)
         /\ (path # NoInode => inode[path].st # "garbled") =>
              FileNow = Whole(DocAt(inode, path))
<1>1. CASE path = NoInode
  BY <1>1 DEF FileNow, AsRead, Visible, Exists, Whole, Cut, DocAt, load_document
<1>2. CASE path # NoInode
  <2>1. IsContent(inode[path])
    BY <1>2 DEF FsOK
  <2>2. inode[path].st # "garbled" => AsRead(inode[path]) = Whole(inode[path].doc)
    BY <2>1, ContentIs
  <2> QED BY <1>2, <2>1, <2>2 DEF FileNow, Visible, Exists, Content, DocAt, load_document
<1> QED BY <1>1, <1>2

\* There is an unused inode when one of the two names is.
LEMMA NewInodeIs ==
  ASSUME \A v, w \in Writers : v = w, StoreInv, NEW w \in Writers, proc[w].fd = NoInode,
         path = NoInode \/ tmp = NoInode
  PROVE  NewInode \in Inodes /\ NewInode # path /\ NewInode # tmp
<1>1. Free = Inodes \ {path, tmp, NoInode}
  BY DEF Free
<1>2. PICK used \in {path, tmp} : Free = Inodes \ {used}
  BY <1>1, NoInodeIsNone
<1>3. Free # {}
  <2>1. Writers = {w}
    OBVIOUS
  <2>2. Cardinality(Writers) = 1
    BY <2>1, FS_Singleton
  <2>3. IsFiniteSet(Inodes) /\ Cardinality(Inodes) \in Nat /\ Cardinality(Inodes) >= 3
    BY <2>2, StoreAssumption, FS_CardinalityType
  <2>4. ASSUME Inodes \subseteq {used} PROVE FALSE
    <3>1. IsFiniteSet({used}) /\ Cardinality({used}) = 1
      BY FS_Singleton
    <3>2. Cardinality(Inodes) <= 1
      BY <2>4, <3>1, FS_Subset
    <3> QED BY <2>3, <3>2
  <2> QED BY <1>2, <2>4
<1>4. Free \in SUBSET Nat
  BY <1>2, StoreAssumption
<1> DEFINE R == OpToRel(<, Nat)
<1>5. IsWellFoundedOn(R, Nat)
  BY NatLessThanWellFounded
<1>6. ASSUME NEW a \in Nat, NEW b \in Nat, a < b
      PROVE  <<a, b>> \in R
  BY <1>6 DEF OpToRel
<1> HIDE DEF R
<1>7. PICK x \in Free : \A y \in Free : <<y, x>> \notin R
  BY <1>3, <1>4, <1>5, WFMin
<1>8. \A y \in Free : x <= y
  <2> TAKE y \in Free
  <2>1. x \in Nat /\ y \in Nat
    BY <1>4
  <2>2. ~(y < x)
    BY <1>6, <1>7, <2>1
  <2> QED BY <2>1, <2>2
<1>9. NewInode \in Free
  BY <1>8 DEF NewInode
<1> QED BY <1>1, <1>9

\* The content of the file p on the inodes n, as it is read.
FileAt(n, p) == AsRead(IF p = NoInode THEN Cut ELSE n[p])

\* The abstract file and its synced copy, read off the file system ...
LEMMA FileNowIs == FileNow = FileAt(inode, path) /\ SyncedNow = FileAt(disk[1], disk[2])
BY DEF FileNow, SyncedNow, FileAt, AsRead, Visible, Exists, Content, Whole, Cut

\* ... and after a step.
LEMMA FileThenIs ==
  FileNow' = FileAt(inode', path') /\ SyncedNow' = FileAt(disk'[1], disk'[2])
BY DEF FileNow, SyncedNow, FileAt, AsRead, Visible, Exists, Content, Whole, Cut

\* The steps of ConfigFile in terms of the three values.
AbstractStep ==
  \/ FileNow' = FileNow /\ EditingNow' = EditingNow /\ SyncedNow' = SyncedNow
  \/ \E c \in Commands :
       /\ FileNow.st = "whole" /\ Apply(c, FileNow.doc).ok
       /\ FileNow' = Whole(Apply(c, FileNow.doc).doc)
       /\ EditingNow' = EditingNow /\ SyncedNow' = SyncedNow
  \/ /\ ~EditingNow /\ EditingNow' = TRUE
     /\ FileNow' = FileNow /\ SyncedNow' = SyncedNow
  \/ /\ EditingNow /\ EditingNow' = FALSE
     /\ FileNow' = FileNow /\ SyncedNow' = SyncedNow
  \/ /\ EditingNow /\ FileNow' \in {Whole(d) : d \in Edits} \cup {Garbled}
     /\ EditingNow' = EditingNow /\ SyncedNow' = SyncedNow
  \/ /\ SyncedNow' = FileNow
     /\ FileNow' = FileNow /\ EditingNow' = EditingNow
  \/ /\ FileNow' = SyncedNow /\ EditingNow' = FALSE
     /\ SyncedNow' = SyncedNow

\* ConfigFile has the operators of ConfigDoc too: they are the same.
LEMMA FileDocIs ==
  /\ File!Garbled = Garbled /\ File!EmptyDoc = EmptyDoc
  /\ \A d : File!Whole(d) = Whole(d)
  /\ \A c, d : File!Apply(c, d) = Apply(c, d)
<1>1. File!Garbled = Garbled /\ File!EmptyDoc = EmptyDoc /\ \A d : File!Whole(d) = Whole(d)
  BY DEF File!Garbled, Garbled, File!EmptyDoc, EmptyDoc, File!Whole, Whole
<1>2. /\ \A d : File!Done(d) = Done(d) /\ File!Failed(d) = Failed(d)
      /\ \A d : File!Rendered(d) = Rendered(d)
      /\ \A f, x : File!Without(f, x) = Without(f, x)
      /\ \A d, t, x : File!With(d, t, x) = With(d, t, x)
      /\ \A k, x : File!Item(k, x) = Item(k, x)
      /\ \A q, i : File!DropAt(q, i) = DropAt(q, i)
      /\ File!EmptyTable = EmptyTable
  BY DEF File!Done, Done, File!Failed, Failed, File!Rendered, Rendered, File!Without, Without,
         File!With, With, File!Item, Item, File!DropAt, DropAt, File!EmptyTable, EmptyTable
<1>3. \A d, t, k : File!Ensured(d, t, k) = Ensured(d, t, k)
  BY <1>2 DEF File!Ensured, Ensured
<1>4. ASSUME NEW d, NEW k, NEW v PROVE File!apply_set(d, k, v) = apply_set(d, k, v)
  BY <1>2, <1>3 DEF File!apply_set, apply_set
<1>5. ASSUME NEW d, NEW t PROVE File!add_inner(d, t) = add_inner(d, t)
  BY <1>2, <1>3 DEF File!add_inner, add_inner
<1>6. ASSUME NEW d, NEW k PROVE File!remove_in_doc(d, k) = remove_in_doc(d, k)
  BY <1>2 DEF File!remove_in_doc, remove_in_doc
<1>7. ASSUME NEW c, NEW d PROVE File!Apply(c, d) = Apply(c, d)
  BY <1>2, <1>4, <1>5, <1>6 DEF File!Apply, Apply
<1> QED BY <1>1, <1>7

\* The steps of ConfigFile, in terms of this module.
LEMMA AbstractStepIs ==
  ASSUME AbstractStep
  PROVE  [File!Next]_<<FileNow, EditingNow, SyncedNow>>
BY FileDocIs
   DEF AbstractStep, File!Next, File!Update, File!OpenEditor, File!CloseEditor,
       File!Save, File!Sync, File!PowerLoss, FileNow, EditingNow, SyncedNow

\* With one process, an editor is open when it is that process's.
LEMMA EditingIs ==
  ASSUME \A u, v \in Writers : u = v, NEW w \in Writers
  PROVE  /\ EditingNow = (proc[w].pc = "editor")
         /\ EditingNow' = (proc'[w].pc = "editor")
BY DEF EditingNow

\* A new process state, the file system being as it was.
LEMMA ProcStep ==
  ASSUME \A u, v \in Writers : u = v, StoreInv, NEW w \in Writers, NEW r,
         proc' = [v \in Writers |-> proc'[v]], proc'[w] = r, ProcOK(r, inode, path, tmp),
         UNCHANGED <<fs, disk>>
  PROVE  /\ StoreInv' /\ FileNow' = FileNow /\ SyncedNow' = SyncedNow
         /\ EditingNow = (proc[w].pc = "editor") /\ EditingNow' = (r.pc = "editor")
<1>1. proc'[w] = r /\ proc' = [v \in Writers |-> proc'[v]]
  BY DEF StoreInv
<1>2. inode' = inode /\ path' = path /\ tmp' = tmp /\ disk' = disk
  BY DEF fs
<1>3. \A v \in Writers : ProcOK(proc'[v], inode', path', tmp')
  BY <1>1, <1>2
<1> QED BY <1>1, <1>2, <1>3, FileNowIs, FileThenIs, EditingIs DEF StoreInv

\* A process that has not begun.
LEMMA IdleOK ==
  ASSUME NEW n, NEW p, NEW t
  PROVE  ProcOK(Idle, n, p, t) /\ Idle.pc = "idle"
BY DEF ProcOK, Idle

\* Two fields of a process state changed at once.
LEMMA ProcFields ==
  ASSUME NEW w \in Writers, proc = [v \in Writers |-> proc[v]], NEW a, NEW b,
         proc[w] = [pc |-> proc[w].pc, cmd |-> proc[w].cmd,
                    doc |-> proc[w].doc, fd |-> proc[w].fd]
  PROVE  /\ proc' = [proc EXCEPT ![w].pc = a, ![w].cmd = b] =>
              /\ proc'[w] = [pc |-> a, cmd |-> b, doc |-> proc[w].doc, fd |-> proc[w].fd]
              /\ proc' = [v \in Writers |-> proc'[v]]
         /\ proc' = [proc EXCEPT ![w].pc = a, ![w].doc = b] =>
              /\ proc'[w] = [pc |-> a, cmd |-> proc[w].cmd, doc |-> b, fd |-> proc[w].fd]
              /\ proc' = [v \in Writers |-> proc'[v]]
         /\ proc' = [proc EXCEPT ![w].pc = a, ![w].fd = b] =>
              /\ proc'[w] = [pc |-> a, cmd |-> proc[w].cmd, doc |-> proc[w].doc, fd |-> b]
              /\ proc' = [v \in Writers |-> proc'[v]]
         /\ proc' = [proc EXCEPT ![w].pc = a] =>
              /\ proc'[w] = [pc |-> a, cmd |-> proc[w].cmd,
                             doc |-> proc[w].doc, fd |-> proc[w].fd]
              /\ proc' = [v \in Writers |-> proc'[v]]
<1> DEFINE r == proc[w]
<1>1. ASSUME NEW x, NEW y, NEW z, NEW t, r = [pc |-> x, cmd |-> y, doc |-> z, fd |-> t]
      PROVE  /\ [r EXCEPT !.pc = a, !.cmd = b] = [pc |-> a, cmd |-> b, doc |-> z, fd |-> t]
             /\ [r EXCEPT !.pc = a, !.doc = b] = [pc |-> a, cmd |-> y, doc |-> b, fd |-> t]
             /\ [r EXCEPT !.pc = a, !.fd = b] = [pc |-> a, cmd |-> y, doc |-> z, fd |-> b]
             /\ [r EXCEPT !.pc = a] = [pc |-> a, cmd |-> y, doc |-> z, fd |-> t]
  <2> HIDE DEF r
  <2> DEFINE q == [r EXCEPT !.pc = a]
  <2>1. q = [pc |-> a, cmd |-> y, doc |-> z, fd |-> t]
    BY <1>1
  <2> HIDE DEF q
  <2>2. [q EXCEPT !.cmd = b] = [pc |-> a, cmd |-> b, doc |-> z, fd |-> t]
    BY <2>1
  <2>3. [q EXCEPT !.doc = b] = [pc |-> a, cmd |-> y, doc |-> b, fd |-> t]
    BY <2>1
  <2>4. [q EXCEPT !.fd = b] = [pc |-> a, cmd |-> y, doc |-> z, fd |-> b]
    BY <2>1
  <2> QED BY <2>1, <2>2, <2>3, <2>4, Zenon DEF q
<1>2. ASSUME proc' = [proc EXCEPT ![w].pc = a, ![w].cmd = b]
      PROVE  proc'[w] = [r EXCEPT !.pc = a, !.cmd = b] /\ proc' = [v \in Writers |-> proc'[v]]
  BY <1>2
<1>3. ASSUME proc' = [proc EXCEPT ![w].pc = a, ![w].doc = b]
      PROVE  proc'[w] = [r EXCEPT !.pc = a, !.doc = b] /\ proc' = [v \in Writers |-> proc'[v]]
  BY <1>3
<1>4. ASSUME proc' = [proc EXCEPT ![w].pc = a, ![w].fd = b]
      PROVE  proc'[w] = [r EXCEPT !.pc = a, !.fd = b] /\ proc' = [v \in Writers |-> proc'[v]]
  BY <1>4
<1>5. ASSUME proc' = [proc EXCEPT ![w].pc = a]
      PROVE  proc'[w] = [r EXCEPT !.pc = a] /\ proc' = [v \in Writers |-> proc'[v]]
  BY <1>5
<1> HIDE DEF r
<1>6. r = proc[w]
  BY DEF r
<1> QED BY <1>1, <1>2, <1>3, <1>4, <1>5, <1>6

\* The steps that leave the file system alone.
LEMMA QuietStep ==
  ASSUME \A u, v \in Writers : u = v, StoreInv, NEW w \in Writers,
         (\E c \in Commands : Start(w, c)) \/ Load(w) \/ EditExit(w) \/ Kill(w)
  PROVE  StoreInv' /\ AbstractStep
<1> DEFINE p == proc[w]
<1>1. ProcOK(p, inode, path, tmp) /\ proc = [v \in Writers |-> proc[v]]
  BY DEF StoreInv
<1>2. ASSUME NEW r, proc' = [v \in Writers |-> proc'[v]], proc'[w] = r,
             ProcOK(r, inode, path, tmp), UNCHANGED <<fs, disk>>, r.pc # "editor"
      PROVE  StoreInv' /\ AbstractStep
  <2>1. /\ StoreInv' /\ FileNow' = FileNow /\ SyncedNow' = SyncedNow
        /\ EditingNow = (proc[w].pc = "editor") /\ EditingNow' = (r.pc = "editor")
    BY <1>2, ProcStep
  <2>2. CASE proc[w].pc = "editor"
    BY <1>2, <2>1, <2>2, Zenon DEF AbstractStep
  <2>3. CASE proc[w].pc # "editor"
    BY <1>2, <2>1, <2>3, Zenon DEF AbstractStep
  <2> QED BY <2>1, <2>2, <2>3
<1>6. ASSUME Exit(w)
      PROVE  /\ proc' = [v \in Writers |-> proc'[v]] /\ proc'[w] = Idle
             /\ ProcOK(Idle, inode, path, tmp) /\ Idle.pc # "editor"
  BY <1>1, <1>6, IdleOK DEF Exit
<1>3. CASE \E c \in Commands : Start(w, c)
  <2>1. PICK c \in Commands : Start(w, c)
    BY <1>3
  <2> DEFINE r == [pc |-> "load", cmd |-> {c}, doc |-> p.doc, fd |-> p.fd]
  <2>2. p = [pc |-> p.pc, cmd |-> p.cmd, doc |-> p.doc, fd |-> p.fd] /\ p.fd = NoInode
    BY <1>1, <2>1 DEF ProcOK, Start
  <2>3. ProcOK(r, inode, path, tmp)
    BY <2>2 DEF ProcOK
  <2>4. proc' = [v \in Writers |-> proc'[v]] /\ proc'[w] = r
    BY <1>1, <2>1, <2>2, ProcFields DEF Start
  <2>5. r.pc # "editor"
    OBVIOUS
  <2> HIDE DEF r
  <2> QED BY <1>2, <2>1, <2>3, <2>4, <2>5 DEF Start
<1>4. CASE Load(w)
  <2>1. PICK c \in Commands : p.cmd = {c}
    BY <1>1, <1>4 DEF ProcOK, Load
  <2> DEFINE result == Apply(c, load_document)
             r == [pc |-> "open", cmd |-> p.cmd, doc |-> result.doc, fd |-> p.fd]
  <2>2. CASE (Exists /\ Content.st = "garbled") \/ ~result.ok
    <3> HIDE DEF result
    <3>1. Exit(w) /\ UNCHANGED <<fs, disk>>
      BY <1>4, <2>1, <2>2 DEF Load, result
    <3> QED BY <1>2, <1>6, <3>1
  <2>3. CASE ~((Exists /\ Content.st = "garbled") \/ ~result.ok)
    <3> HIDE DEF result
    <3>1. /\ proc' = [proc EXCEPT ![w].pc = "open", ![w].doc = result.doc]
          /\ UNCHANGED <<fs, disk>>
      BY <1>4, <2>1, <2>3 DEF Load, result
    <3>2. p = [pc |-> p.pc, cmd |-> p.cmd, doc |-> p.doc, fd |-> p.fd] /\ p.fd = NoInode
      BY <1>1, <1>4 DEF ProcOK, Load
    <3>6. proc' = [v \in Writers |-> proc'[v]] /\ proc'[w] = r
      BY <1>1, <3>1, <3>2, ProcFields
    <3>3. load_document = DocAt(inode, path)
      BY FileIs DEF StoreInv
    <3>4. ProcOK(r, inode, path, tmp)
      BY <2>1, <2>3, <3>2, <3>3 DEF ProcOK, Exists, Content, result
    <3>5. r.pc # "editor"
      OBVIOUS
    <3> HIDE DEF r
    <3> QED BY <1>2, <3>1, <3>4, <3>5, <3>6
  <2> QED BY <2>2, <2>3
<1>5. CASE EditExit(w) \/ Kill(w)
  BY <1>2, <1>5, <1>6 DEF EditExit, Kill
<1> QED BY <1>3, <1>4, <1>5

\* A step that changes one inode that is not the configuration file.
LEMMA InodeStep ==
  ASSUME \A u, v \in Writers : u = v, StoreInv, NEW w \in Writers, NEW r, NEW i, NEW x,
         proc' = [v \in Writers |-> proc'[v]], proc'[w] = r, inode' = [inode EXCEPT ![i] = x],
         i \in Inodes, i # path, tmp' = i, IsContent(x),
         ProcOK(r, inode', path, i), UNCHANGED <<path, disk>>,
         proc[w].pc # "editor", r.pc # "editor"
  PROVE  StoreInv' /\ AbstractStep
<1>1. proc'[w] = r /\ proc' = [v \in Writers |-> proc'[v]]
  BY DEF StoreInv
<1>2. FsOK(inode', path', tmp')
  BY NoInodeIsNone DEF StoreInv, FsOK
<1>3. \A v \in Writers : ProcOK(proc'[v], inode', path', tmp')
  BY <1>1
<1>4. StoreInv'
  BY <1>1, <1>2, <1>3 DEF StoreInv
<1>5. FileAt(inode', path') = FileAt(inode, path)
  BY DEF FileAt, StoreInv, FsOK
<1>6. FileNow' = FileNow /\ SyncedNow' = SyncedNow
  BY <1>5, FileNowIs, FileThenIs
<1>7. EditingNow = FALSE /\ EditingNow' = FALSE
  BY <1>1, EditingIs
<1> QED BY <1>4, <1>6, <1>7 DEF AbstractStep

\* The steps on the temporary file.
LEMMA TmpStep ==
  ASSUME \A u, v \in Writers : u = v, StoreInv, NEW w \in Writers,
         OpenTmp(w) \/ WriteTmp(w) \/ WriteError(w)
  PROVE  StoreInv' /\ AbstractStep
<1> DEFINE p == proc[w]
<1>1. ProcOK(p, inode, path, tmp) /\ proc = [v \in Writers |-> proc[v]]
  BY DEF StoreInv
<1>2. /\ p = [pc |-> p.pc, cmd |-> p.cmd, doc |-> p.doc, fd |-> p.fd]
      /\ p.pc \in {"open", "write"}
  BY <1>1 DEF ProcOK, OpenTmp, WriteTmp, WriteError
<1>3. PICK c \in Commands :
        /\ p.cmd = {c} /\ (path # NoInode => inode[path].st # "garbled")
        /\ Apply(c, DocAt(inode, path)).ok /\ p.doc = Apply(c, DocAt(inode, path)).doc
  BY <1>1, <1>2 DEF ProcOK
<1>4. FsOK(inode, path, tmp)
  BY DEF StoreInv
<1>5. IsContent(Cut) /\ IsContent(Garbled)
  BY DEF IsContent
<1>6. IsText(p.doc)
  <2>1. IsText(DocAt(inode, path))
    BY <1>4, EmptyDocIs, ContentIs DEF DocAt, FsOK
  <2> QED BY <1>3, <2>1, CommandsAreLocal, StoreAssumption
<1>7. ASSUME NEW i \in Inodes, NEW x, i # path, inode' = [inode EXCEPT ![i] = x]
      PROVE  /\ inode'[i] = x /\ DocAt(inode', path) = DocAt(inode, path)
             /\ path # NoInode => inode'[path].st = inode[path].st
  <2>1. inode'[i] = x /\ (path # NoInode => inode'[path] = inode[path])
    BY <1>4, <1>7 DEF FsOK
  <2> QED BY <2>1 DEF DocAt
<1>8. CASE OpenTmp(w)
  <2> DEFINE i == IF tmp = NoInode THEN NewInode ELSE tmp
             r == [pc |-> "write", cmd |-> p.cmd, doc |-> p.doc, fd |-> i]
  <2>1. i \in Inodes /\ i # path
    <3>1. CASE tmp = NoInode
      BY <1>1, <1>8, <3>1, NewInodeIs DEF ProcOK, OpenTmp
    <3>2. CASE tmp # NoInode
      BY <1>4, <3>2 DEF FsOK
    <3> QED BY <3>1, <3>2
  <2> HIDE DEF i
  <2>2. /\ proc' = [proc EXCEPT ![w].pc = "write", ![w].fd = i]
        /\ tmp' = i /\ inode' = [inode EXCEPT ![i] = Cut] /\ UNCHANGED <<path, disk>>
    BY <1>8 DEF OpenTmp, i
  <2>3. proc' = [v \in Writers |-> proc'[v]] /\ proc'[w] = r
    BY <1>1, <1>2, <2>2, ProcFields
  <2>4. /\ inode'[i] = Cut /\ DocAt(inode', path) = DocAt(inode, path)
        /\ path # NoInode => inode'[path].st = inode[path].st
    BY <1>7, <2>1, <2>2
  <2>5. i # NoInode
    BY <2>1, NoInodeIsNone
  <2>6. ProcOK(r, inode', path, i)
    BY <1>3, <2>4, <2>5 DEF ProcOK
  <2>7. p.pc # "editor" /\ r.pc # "editor"
    BY <1>8 DEF OpenTmp
  <2> HIDE DEF r
  <2> QED BY <1>5, <2>1, <2>2, <2>3, <2>6, <2>7, InodeStep
<1>9. CASE WriteTmp(w) \/ WriteError(w)
  <2>1. /\ p.pc = "write" /\ p.fd = tmp /\ tmp \in Inodes /\ tmp # path /\ tmp # NoInode
        /\ inode[tmp] = Cut
    BY <1>1, <1>4, <1>9 DEF ProcOK, FsOK, WriteTmp, WriteError
  <2>2. CASE WriteTmp(w)
    <3> DEFINE x == Whole(p.doc)
               r == [pc |-> "rename", cmd |-> p.cmd, doc |-> p.doc, fd |-> NoInode]
    <3>1. /\ proc' = [proc EXCEPT ![w].pc = "rename", ![w].fd = NoInode]
          /\ inode' = [inode EXCEPT ![tmp] = x] /\ UNCHANGED <<path, tmp, disk>>
      BY <2>1, <2>2 DEF WriteTmp
    <3>2. proc' = [v \in Writers |-> proc'[v]] /\ proc'[w] = r
      BY <1>1, <1>2, <3>1, ProcFields
    <3>3. /\ inode'[tmp] = x /\ DocAt(inode', path) = DocAt(inode, path)
          /\ path # NoInode => inode'[path].st = inode[path].st
      BY <1>7, <2>1, <3>1
    <3>4. IsContent(x)
      BY <1>6 DEF IsContent, Whole
    <3>5. ProcOK(r, inode', path, tmp)
      BY <1>3, <2>1, <3>3 DEF ProcOK
    <3>6. r.pc # "editor"
      OBVIOUS
    <3> HIDE DEF r, x
    <3> QED BY <2>1, <3>1, <3>2, <3>4, <3>5, <3>6, InodeStep
  <2>3. CASE WriteError(w)
    <3>1. PICK x \in {Cut, Garbled} : inode' = [inode EXCEPT ![tmp] = x]
      BY <2>1, <2>3 DEF WriteError
    <3>2. /\ proc' = [proc EXCEPT ![w] = Idle] /\ UNCHANGED <<path, tmp, disk>>
      BY <2>3 DEF WriteError, Exit
    <3>3. proc' = [v \in Writers |-> proc'[v]] /\ proc'[w] = Idle
      BY <1>1, <3>2
    <3>4. ProcOK(Idle, inode', path, tmp) /\ Idle.pc # "editor"
      BY IdleOK
    <3> QED BY <1>5, <2>1, <3>1, <3>2, <3>3, <3>4, InodeStep
  <2> QED BY <1>9, <2>2, <2>3
<1> QED BY <1>8, <1>9

\* The rename puts the changed document in place of the one that was loaded.
LEMMA RenameStep ==
  ASSUME \A u, v \in Writers : u = v, StoreInv, NEW w \in Writers, Rename(w)
  PROVE  StoreInv' /\ AbstractStep
<1> DEFINE p == proc[w]
<1>1. ProcOK(p, inode, path, tmp) /\ proc = [v \in Writers |-> proc[v]]
  BY DEF StoreInv
<1>2. /\ FsOK(inode, path, tmp) /\ p.pc = "rename" /\ tmp # NoInode /\ inode[tmp] = Whole(p.doc)
      /\ tmp \in Inodes
  BY <1>1 DEF StoreInv, ProcOK, FsOK, Rename
<1>3. PICK c \in Commands :
        /\ p.cmd = {c} /\ (path # NoInode => inode[path].st # "garbled")
        /\ Apply(c, DocAt(inode, path)).ok /\ p.doc = Apply(c, DocAt(inode, path)).doc
  BY <1>1, <1>2 DEF ProcOK
<1> DEFINE before == DocAt(inode, path)
           after == Apply(c, before).doc
<1>5. /\ path' = tmp /\ tmp' = NoInode /\ inode' = inode /\ disk' = disk
      /\ proc' = [v \in Writers |-> proc'[v]] /\ proc'[w] = Idle
  BY <1>1, <1>2 DEF Rename, Exit
<1>6. StoreInv'
  <2>1. FsOK(inode', path', tmp')
    BY <1>2, <1>5 DEF FsOK
  <2>2. \A v \in Writers : ProcOK(proc'[v], inode', path', tmp')
    BY <1>5, IdleOK
  <2> QED BY <1>5, <2>1, <2>2 DEF StoreInv
<1>7. Visible.doc = before /\ FileNow = Whole(before)
  BY <1>2, <1>3, FileIs
<1>8. Visible' = Whole(after) /\ FileNow' = Whole(after) /\ SyncedNow' = SyncedNow
  <2>1. Visible' = Whole(after)
    BY <1>2, <1>3, <1>5 DEF Visible, Exists, Content
  <2>2. AsRead(Whole(after)) = Whole(after)
    BY DEF AsRead, Whole, Cut
  <2> QED BY <1>5, <2>1, <2>2, FileNowIs, FileThenIs DEF FileNow
<1>9. EditingNow' = EditingNow
  BY <1>2, <1>5, EditingIs, IdleOK
<1> HIDE DEF before
<1>10. AbstractStep
  <2>1. /\ FileNow.st = "whole" /\ FileNow.doc = before
    BY <1>7 DEF Whole
  <2> QED BY <1>3, <1>8, <1>9, <2>1 DEF AbstractStep, before
<1> QED BY <1>6, <1>10

\* The steps of an editor, which works on the file in place.
LEMMA EditStep ==
  ASSUME \A u, v \in Writers : u = v, StoreInv, NEW w \in Writers,
         EditLaunch(w) \/ EditorSave(w)
  PROVE  StoreInv' /\ AbstractStep
<1> DEFINE p == proc[w]
<1>1. ProcOK(p, inode, path, tmp) /\ proc = [v \in Writers |-> proc[v]]
  BY DEF StoreInv
<1>2. FsOK(inode, path, tmp)
  BY DEF StoreInv
<1>3. /\ p = [pc |-> p.pc, cmd |-> p.cmd, doc |-> p.doc, fd |-> p.fd]
      /\ p.pc \in {"idle", "editor"} /\ p.fd = NoInode
  BY <1>1 DEF ProcOK, EditLaunch, EditorSave
<1>4. IsContent(Cut) /\ IsContent(Garbled) /\ \A d \in Edits : IsContent(Whole(d))
  BY StoreAssumption DEF IsContent, Whole
<1>5. CASE EditLaunch(w)
  <2> DEFINE r == [pc |-> "editor", cmd |-> p.cmd, doc |-> p.doc, fd |-> p.fd]
  <2>1. proc' = [v \in Writers |-> proc'[v]] /\ proc'[w] = r /\ tmp' = tmp /\ disk' = disk
    BY <1>1, <1>3, <1>5, ProcFields DEF EditLaunch, Goto
  <2>2. FsOK(inode', path', tmp') /\ path' # NoInode /\ FileAt(inode', path') = FileAt(inode, path)
    <3>1. CASE path # NoInode
      BY <1>2, <1>5, <2>1, <3>1 DEF EditLaunch, Exists, FsOK
    <3>2. CASE path = NoInode
      <4>1. /\ path' = NewInode /\ inode' = [inode EXCEPT ![NewInode] = Cut]
            /\ NewInode \in Inodes /\ NewInode # tmp /\ NewInode # NoInode
        BY <1>3, <1>5, <3>2, NewInodeIs, NoInodeIsNone DEF EditLaunch, Exists
      <4>2. FsOK(inode', path', tmp') /\ inode'[path'] = Cut
        BY <1>2, <1>4, <2>1, <4>1 DEF FsOK
      <4> QED BY <3>2, <4>1, <4>2 DEF FileAt
    <3> QED BY <3>1, <3>2
  <2>3. ProcOK(r, inode', path', tmp')
    BY <1>3, <2>2 DEF ProcOK
  <2>4. StoreInv'
    <3>1. \A v \in Writers : ProcOK(proc'[v], inode', path', tmp')
      BY <2>1, <2>3
    <3> QED BY <2>1, <2>2, <3>1 DEF StoreInv
  <2>5. FileNow' = FileNow /\ SyncedNow' = SyncedNow
    BY <2>1, <2>2, FileNowIs, FileThenIs
  <2>6. EditingNow = FALSE /\ EditingNow' = TRUE
    <3>1. p.pc = "idle" /\ proc'[w].pc = "editor"
      BY <1>5, <2>1 DEF EditLaunch
    <3> QED BY <3>1, EditingIs
  <2> QED BY <2>4, <2>5, <2>6 DEF AbstractStep
<1>6. CASE EditorSave(w)
  <2>1. path # NoInode /\ path \in Inodes /\ p.pc = "editor"
    BY <1>1, <1>2, <1>6 DEF ProcOK, FsOK, EditorSave
  <2>2. PICK x \in {Whole(d) : d \in Edits} \cup {Garbled} : inode' = [inode EXCEPT ![path] = x]
    BY <1>6 DEF EditorSave
  <2>3. IsContent(x) /\ AsRead(x) = x
    BY <1>4 DEF AsRead, Whole, Garbled, Cut
  <2>4. path' = path /\ tmp' = tmp /\ disk' = disk /\ proc' = proc
    BY <1>6 DEF EditorSave
  <2>5. FsOK(inode', path', tmp') /\ inode'[path] = x
    BY <1>2, <2>1, <2>2, <2>3, <2>4 DEF FsOK
  <2>6. ProcOK(p, inode', path', tmp')
    BY <1>1, <2>1, <2>4 DEF ProcOK
  <2>7. StoreInv'
    <3>1. \A v \in Writers : ProcOK(proc'[v], inode', path', tmp')
      BY <2>4, <2>6
    <3> QED BY <2>4, <2>5, <3>1 DEF StoreInv
  <2>8. FileNow' = x
    BY <2>1, <2>3, <2>4, <2>5, FileThenIs DEF FileAt
  <2>9. SyncedNow' = SyncedNow
    BY <2>4, FileNowIs, FileThenIs
  <2>10. EditingNow = TRUE /\ EditingNow' = TRUE
    BY <2>1, <2>4, EditingIs
  <2> QED BY <2>2, <2>7, <2>8, <2>9, <2>10 DEF AbstractStep
<1> QED BY <1>5, <1>6

\* The machine writes its state down, and loses power.
LEMMA MachineStep ==
  ASSUME StoreInv, Sync \/ PowerLoss
  PROVE  StoreInv' /\ AbstractStep
<1>1. CASE Sync
  <2>1. /\ disk' = <<inode, path, tmp>> /\ inode' = inode /\ path' = path /\ tmp' = tmp
        /\ proc' = proc
    BY <1>1 DEF Sync, fs
  <2>2. StoreInv'
    <3>1. disk'[1] = inode /\ disk'[2] = path /\ disk'[3] = tmp
      BY <2>1
    <3>2. disk' = <<disk'[1], disk'[2], disk'[3]>> /\ FsOK(disk'[1], disk'[2], disk'[3])
      BY <2>1, <3>1 DEF StoreInv
    <3> QED BY <2>1, <3>2 DEF StoreInv
  <2>3. FileNow' = FileNow /\ SyncedNow' = FileNow
    BY <2>1, FileNowIs, FileThenIs
  <2>4. EditingNow' = EditingNow
    BY <2>1 DEF EditingNow
  <2> QED BY <2>2, <2>3, <2>4 DEF AbstractStep
<1>2. CASE PowerLoss
  <2>1. /\ inode' = disk[1] /\ path' = disk[2] /\ tmp' = disk[3] /\ disk' = disk
        /\ proc' = [v \in Writers |-> Idle]
    BY <1>2 DEF PowerLoss
  <2>2. \A v \in Writers : ProcOK(proc'[v], inode', path', tmp')
    BY <2>1, IdleOK
  <2>3. StoreInv'
    BY <2>1, <2>2 DEF StoreInv
  <2>4. FileNow' = SyncedNow /\ SyncedNow' = SyncedNow
    BY <2>1, FileNowIs, FileThenIs
  <2>5. EditingNow' = FALSE
    BY <2>1, IdleOK DEF EditingNow
  <2> QED BY <2>3, <2>4, <2>5 DEF AbstractStep
<1> QED BY <1>1, <1>2

\* At first no process has begun.
LEMMA StoreInit ==
  ASSUME Init
  PROVE  StoreInv /\ File!Init
<1>1. /\ inode = [i \in Inodes |-> Cut] /\ path = NoInode /\ tmp = NoInode
      /\ disk = <<inode, path, tmp>> /\ proc = [w \in Writers |-> Idle]
  BY DEF Init, fs
<1>2. disk[1] = inode /\ disk[2] = path /\ disk[3] = tmp
  BY <1>1
<1>3. FsOK(inode, path, tmp)
  BY <1>1 DEF FsOK, IsContent
<1>4. \A w \in Writers : ProcOK(proc[w], inode, path, tmp) /\ proc[w].pc = "idle"
  BY <1>1, IdleOK
<1>5. StoreInv
  BY <1>1, <1>2, <1>3, <1>4 DEF StoreInv
<1>6. FileNow = Whole(EmptyDoc) /\ SyncedNow = FileNow
  BY <1>1, <1>2, FileNowIs DEF FileAt, AsRead
<1>7. EditingNow = FALSE
  BY <1>4 DEF EditingNow
<1>8. File!Init
  BY <1>6, <1>7, FileDocIs DEF File!Init, FileNow, SyncedNow, EditingNow
<1> QED BY <1>5, <1>8

\* A step of one process or of the machine.
LEMMA StoreStep ==
  ASSUME \A u, v \in Writers : u = v, StoreInv, [Next]_vars
  PROVE  StoreInv' /\ [File!Next]_<<FileNow, EditingNow, SyncedNow>>
<1>1. StoreInv' /\ AbstractStep
  <2>1. CASE UNCHANGED vars
    <3>1. /\ inode' = inode /\ path' = path /\ tmp' = tmp /\ disk' = disk /\ proc' = proc
      BY <2>1 DEF vars
    <3>2. StoreInv'
      BY <3>1 DEF StoreInv
    <3>3. FileNow' = FileNow /\ SyncedNow' = SyncedNow
      BY <3>1, FileNowIs, FileThenIs
    <3>4. EditingNow' = EditingNow
      BY <3>1 DEF EditingNow
    <3> QED BY <3>2, <3>3, <3>4 DEF AbstractStep
  <2>2. CASE Sync \/ PowerLoss
    BY <2>2, MachineStep
  <2>3. ASSUME NEW w \in Writers,
               \/ \E c \in Commands : Start(w, c)
               \/ Load(w) \/ EditExit(w) \/ Kill(w)
        PROVE  StoreInv' /\ AbstractStep
    BY <2>3, QuietStep
  <2>4. ASSUME NEW w \in Writers, OpenTmp(w) \/ WriteTmp(w) \/ WriteError(w)
        PROVE  StoreInv' /\ AbstractStep
    BY <2>4, TmpStep
  <2>5. ASSUME NEW w \in Writers, Rename(w)
        PROVE  StoreInv' /\ AbstractStep
    BY <2>5, RenameStep
  <2>6. ASSUME NEW w \in Writers, EditLaunch(w) \/ EditorSave(w)
        PROVE  StoreInv' /\ AbstractStep
    BY <2>6, EditStep
  <2> QED BY <2>1, <2>2, <2>3, <2>4, <2>5, <2>6 DEF Next
<1> QED BY <1>1, AbstractStepIs

\* With one process at a time, whatever it does and wherever it is stopped: until
\* its rename, the file still holds the document it loaded.
THEOREM StoreInvariant ==
  ASSUME \A u, v \in Writers : u = v
  PROVE  Spec => []StoreInv
<1>1. Init => StoreInv
  BY StoreInit
<1>2. StoreInv /\ [Next]_vars => StoreInv'
  BY StoreStep
<1> QED BY <1>1, <1>2, PTL DEF Spec

\* With one process at a time, the load, temporary file and rename of store.rs, an
\* editor, a process killed at any step and a loss of power amount to a file that
\* commands change in one step.
THEOREM StoreImplementsFile ==
  ASSUME \A u, v \in Writers : u = v
  PROVE  Spec => ImplementsConfigFile
<1>1. Init => StoreInv /\ File!Init
  BY StoreInit
<1>2. StoreInv /\ [Next]_vars => StoreInv' /\ [File!Next]_<<FileNow, EditingNow, SyncedNow>>
  BY StoreStep
<1> QED BY <1>1, <1>2, PTL
        DEF Spec, ImplementsConfigFile, File!Spec, FileNow, EditingNow, SyncedNow
-----------------------------------------------------------------------------
(* The schema and the two files as readers find them *)

\* What the proofs use of the schema: a section is a table or an array, [machine]
\* is a table with an id, and of a table that has a required field every field is
\* that one.
LEMMA SchemaIs ==
  /\ "machine" \in DOMAIN Schema /\ Schema["machine"].kind = "table"
  /\ Schema["machine"].required = {"id"} /\ DOMAIN FieldTypes("machine") = {"id"}
  /\ FieldTypes("machine")["id"] = "string"
  /\ \A s \in DOMAIN Schema :
       /\ Schema[s].kind \in {"table", "array"}
       /\ Schema[s].kind = "table" =>
            \A f \in DOMAIN FieldTypes(s) : Schema[s].required \subseteq {f}
<1>1. /\ "machine" \in DOMAIN Schema
      /\ Schema["machine"] = Texts("table", {"id"}, {})
  BY DEF Schema
<1>2. /\ Texts("table", {"id"}, {}).kind = "table" /\ Texts("table", {"id"}, {}).required = {"id"}
      /\ Texts("table", {"id"}, {}).types = [f \in {"id"} |-> "string"]
  BY DEF Texts, Section
<1>3. ASSUME NEW s \in DOMAIN Schema
      PROVE  /\ Schema[s].kind \in {"table", "array"}
             /\ Schema[s].kind = "table" =>
                  \/ Schema[s].required = {}
                  \/ \E f : Schema[s].required = {f} /\ DOMAIN Schema[s].types = {f}
  BY DEF Schema, Texts, Section, Flag, Ssh, IpConfig, WireGuardInterface, NbdClient
<1>4. ASSUME NEW s \in DOMAIN Schema, Schema[s].kind = "table",
             NEW f \in DOMAIN FieldTypes(s)
      PROVE  Schema[s].required \subseteq {f}
  BY <1>3, <1>4 DEF FieldTypes
<1> QED BY <1>1, <1>2, <1>3, <1>4 DEF FieldTypes

\* What SchemaIs says of the kind of a section.
LEMMA KindIs ==
  ASSUME NEW s \in DOMAIN Schema
  PROVE  Schema[s].kind \in {"table", "array"}
BY SchemaIs, Zenon

\* What an editor saves is a text.
LEMMA DraftsAreTexts ==
  ASSUME NEW d \in Drafts
  PROVE  IsText(d)
<1>1. IsDraft(d)
  BY ReadersAssumption
<1>2. ASSUME NEW s \in DOMAIN d
      PROVE  d[s] \in Items
  <2> DEFINE S == {d[s].tables[i] : i \in DOMAIN d[s].tables}
  <2>1. d[s] \in [kind : {"table", "array"}, tables : Seq(S)]
    BY <1>1 DEF IsDraft
  <2>2. \A x \in S : x \in Table
    BY <1>1, Tables DEF IsDraft
  <2> HIDE DEF S
  <2>3. d[s].tables \in Seq(Table)
    BY <2>1, <2>2
  <2> QED BY <2>1, <2>3 DEF Items
<1> QED BY <1>1, <1>2 DEF IsText, IsDoc, IsDraft

\* A file that holds a text, or none that parses.
IsFile(x) == x = Garbled \/ (x = Whole(x.doc) /\ IsText(x.doc))

\* The two fields of a file.
LEMMA FileFields ==
  ASSUME NEW x, IsFile(x)
  PROVE  IsText(x.doc) /\ (x.st = "whole" <=> x = Whole(x.doc))
BY EmptyDocIs DEF IsFile, Garbled, Whole

\* A missing file is one without sections.
LEMMA AbsentIs ==
  IsFile(Absent) /\ Absent.st = "whole" /\ Absent.doc = EmptyDoc /\ DOMAIN EmptyDoc = {}
BY EmptyDocIs DEF IsFile, Absent, Whole, EmptyDoc

\* A section of a text.
LEMMA TextItem ==
  ASSUME NEW d, IsText(d), NEW s \in DOMAIN d
  PROVE  /\ d[s].kind \in {"table", "array"} /\ d[s].tables \in Seq(Table)
         /\ d[s].tables # <<>> /\ d[s] = Item(d[s].kind, d[s].tables)
         /\ d[s].kind = "table" => Len(d[s].tables) = 1
         /\ Len(d[s].tables) \in Nat \ {0} /\ DOMAIN d[s].tables = 1..Len(d[s].tables)
<1>1. d[s] \in Items /\ d[s].tables # <<>> /\ (d[s].kind = "table" => Len(d[s].tables) = 1)
  BY DEF IsText, IsDoc
<1>2. d[s] = Item(d[s].kind, d[s].tables) /\ d[s].kind \in {"table", "array"}
      /\ d[s].tables \in Seq(Table)
  BY <1>1 DEF Items, Item
<1>3. Len(d[s].tables) \in Nat \ {0} /\ DOMAIN d[s].tables = 1..Len(d[s].tables)
  BY <1>1, <1>2
<1> QED BY <1>1, <1>2, <1>3

\* The tables of an item fit the schema of a section.
ItemFits(s, item) ==
  /\ item.kind = Schema[s].kind
  /\ \A i \in DOMAIN item.tables : TableFits(s, item.tables[i])

\* A section that one of two texts has comes from that one.
LEMMA JoinedFirst ==
  ASSUME NEW m, IsText(m), NEW s, NEW t \in DOMAIN m \ DOMAIN s
  PROVE  Joined(m, s)[t] = m[t]
<1>1. Joined(m, s)[t] = Item(m[t].kind, m[t].tables \o <<>>)
  BY DEF Joined, TablesOf
<1>2. m[t].tables \in Seq(Table) /\ m[t] = Item(m[t].kind, m[t].tables)
  BY TextItem
<1>3. m[t].tables \o <<>> = m[t].tables
  BY <1>2, ConcatEmptySeq
<1> QED BY <1>1, <1>2, <1>3

LEMMA JoinedSecond ==
  ASSUME NEW m, NEW s, IsText(s), NEW t \in DOMAIN s \ DOMAIN m
  PROVE  Joined(m, s)[t] = s[t]
<1>1. Joined(m, s)[t] = Item(s[t].kind, <<>> \o s[t].tables)
  BY DEF Joined, TablesOf
<1>2. s[t].tables \in Seq(Table) /\ s[t] = Item(s[t].kind, s[t].tables)
  BY TextItem
<1>3. <<>> \o s[t].tables = s[t].tables
  BY <1>2, ConcatEmptySeq
<1> QED BY <1>1, <1>2, <1>3

\* One text behind the other, section by section.
LEMMA JoinedIs ==
  ASSUME NEW m, IsText(m), NEW s, IsText(s)
  PROVE  /\ DOMAIN Joined(m, s) = DOMAIN m \cup DOMAIN s
         /\ \A t \in DOMAIN m \ DOMAIN s : Joined(m, s)[t] = m[t]
         /\ \A t \in DOMAIN s \ DOMAIN m : Joined(m, s)[t] = s[t]
         /\ \A t \in DOMAIN m \cap DOMAIN s :
              Joined(m, s)[t] = Item(m[t].kind, m[t].tables \o s[t].tables)
<1>1. DOMAIN Joined(m, s) = DOMAIN m \cup DOMAIN s
  BY DEF Joined
<1>2. ASSUME NEW t \in DOMAIN m \ DOMAIN s
      PROVE  Joined(m, s)[t] = m[t]
  BY JoinedFirst
<1>3. ASSUME NEW t \in DOMAIN s \ DOMAIN m
      PROVE  Joined(m, s)[t] = s[t]
  BY JoinedSecond
<1>4. ASSUME NEW t \in DOMAIN m \cap DOMAIN s
      PROVE  Joined(m, s)[t] = Item(m[t].kind, m[t].tables \o s[t].tables)
  BY DEF Joined, TablesOf
<1> QED BY <1>1, <1>2, <1>3, <1>4

\* Arrays of two files fit behind each other when each does.
LEMMA ConcatFits ==
  ASSUME NEW s, NEW a \in Seq(Table), NEW b \in Seq(Table)
  PROVE  ItemFits(s, Item("array", a \o b)) <=>
           ItemFits(s, Item("array", a)) /\ ItemFits(s, Item("array", b))
<1>1. /\ Len(a) \in Nat /\ Len(b) \in Nat /\ DOMAIN a = 1..Len(a) /\ DOMAIN b = 1..Len(b)
      /\ DOMAIN (a \o b) = 1..(Len(a) + Len(b))
      /\ \A i \in 1..(Len(a) + Len(b)) : (a \o b)[i] = IF i <= Len(a) THEN a[i] ELSE b[i - Len(a)]
  BY ConcatProperties
<1>2. ASSUME \A i \in DOMAIN (a \o b) : TableFits(s, (a \o b)[i])
      PROVE  /\ \A i \in DOMAIN a : TableFits(s, a[i])
             /\ \A i \in DOMAIN b : TableFits(s, b[i])
  <2>1. ASSUME NEW i \in DOMAIN a PROVE TableFits(s, a[i])
    <3>1. i \in DOMAIN (a \o b) /\ (a \o b)[i] = a[i]
      BY <1>1, <2>1
    <3> QED BY <1>2, <3>1
  <2>2. ASSUME NEW i \in DOMAIN b PROVE TableFits(s, b[i])
    <3>1. i + Len(a) \in 1..(Len(a) + Len(b)) /\ ~(i + Len(a) <= Len(a)) /\ (i + Len(a)) - Len(a) = i
      BY <1>1, <2>2
    <3>2. (a \o b)[i + Len(a)] = b[i]
      BY <1>1, <3>1
    <3>3. TableFits(s, (a \o b)[i + Len(a)])
      BY <1>1, <1>2, <3>1
    <3> QED BY <3>2, <3>3
  <2> QED BY <2>1, <2>2
<1>3. ASSUME \A i \in DOMAIN a : TableFits(s, a[i]), \A i \in DOMAIN b : TableFits(s, b[i]),
             NEW i \in DOMAIN (a \o b)
      PROVE  TableFits(s, (a \o b)[i])
  <2>1. CASE i <= Len(a)
    BY <1>1, <1>3, <2>1
  <2>2. CASE ~(i <= Len(a))
    <3>1. i - Len(a) \in DOMAIN b /\ (a \o b)[i] = b[i - Len(a)]
      BY <1>1, <1>3, <2>2
    <3> QED BY <1>3, <3>1
  <2> QED BY <2>1, <2>2
<1> HIDE DEF ItemFits
<1>4. \A x : ItemFits(s, Item("array", x)) <=>
               "array" = Schema[s].kind /\ \A i \in DOMAIN x : TableFits(s, x[i])
  BY DEF ItemFits, Item
<1> QED BY <1>2, <1>3, <1>4, Zenon

\* Each file fits the schema by itself and the sections they share are arrays.
FitTogether(m, s) ==
  /\ m.st = "whole" /\ s.st = "whole"
  /\ \A t \in DOMAIN m.doc \cap DOMAIN s.doc :
       m.doc[t].kind = "array" /\ s.doc[t].kind = "array"
  /\ \A t \in DOMAIN m.doc \cap DOMAIN Schema : ItemFits(t, m.doc[t])
  /\ \A t \in DOMAIN s.doc \cap DOMAIN Schema : ItemFits(t, s.doc[t])

\* That is when both files are readable together.
LEMMA ReadableIs ==
  ASSUME NEW m, IsFile(m), NEW s, IsFile(s)
  PROVE  load_from_paths(m, s).ok <=> FitTogether(m, s)
<1> DEFINE j == Joined(m.doc, s.doc)
           Arrays == \A t \in DOMAIN m.doc \cap DOMAIN s.doc :
                       m.doc[t].kind = "array" /\ s.doc[t].kind = "array"
<1>1. IsText(m.doc) /\ IsText(s.doc)
  BY FileFields
<1>2. from_toml(j).ok <=> \A t \in DOMAIN j \cap DOMAIN Schema : ItemFits(t, j[t])
  BY DEF from_toml, Unreadable, Known, SectionFits, ItemFits
<1>3. load_from_paths(m, s).ok <=>
        m.st = "whole" /\ s.st = "whole" /\ Arrays /\ from_toml(j).ok
  <2>1. CASE m.st = "whole" /\ s.st = "whole" /\ Arrays
    <3>1. load_from_paths(m, s) = from_toml(j)
      BY <2>1 DEF load_from_paths
    <3> QED BY <2>1, <3>1, Zenon
  <2>2. CASE ~(m.st = "whole" /\ s.st = "whole" /\ Arrays)
    <3>1. load_from_paths(m, s) = Unreadable
      BY <2>2 DEF load_from_paths
    <3> QED BY <2>2, <3>1 DEF Unreadable
  <2> QED BY <2>1, <2>2
<1>4. /\ DOMAIN j = DOMAIN m.doc \cup DOMAIN s.doc
      /\ \A t \in DOMAIN m.doc \ DOMAIN s.doc : j[t] = m.doc[t]
      /\ \A t \in DOMAIN s.doc \ DOMAIN m.doc : j[t] = s.doc[t]
      /\ \A t \in DOMAIN m.doc \cap DOMAIN s.doc :
           j[t] = Item(m.doc[t].kind, m.doc[t].tables \o s.doc[t].tables)
  <2> DEFINE x == m.doc
             y == s.doc
  <2>1. IsText(x) /\ IsText(y)
    BY <1>1
  <2> HIDE DEF x, y
  <2>2. /\ DOMAIN Joined(x, y) = DOMAIN x \cup DOMAIN y
        /\ \A t \in DOMAIN x \ DOMAIN y : Joined(x, y)[t] = x[t]
        /\ \A t \in DOMAIN y \ DOMAIN x : Joined(x, y)[t] = y[t]
        /\ \A t \in DOMAIN x \cap DOMAIN y :
             Joined(x, y)[t] = Item(x[t].kind, x[t].tables \o y[t].tables)
    BY <2>1, JoinedIs
  <2> QED BY <2>2, Zenon DEF x, y
<1> HIDE DEF j
<1>5. ASSUME Arrays, NEW t \in DOMAIN m.doc \cap DOMAIN s.doc
      PROVE  ItemFits(t, j[t]) <=> ItemFits(t, m.doc[t]) /\ ItemFits(t, s.doc[t])
  <2> DEFINE a == m.doc[t].tables
             b == s.doc[t].tables
  <2>1. a \in Seq(Table) /\ b \in Seq(Table)
    BY <1>1, TextItem
  <2>2. m.doc[t] = Item("array", a) /\ s.doc[t] = Item("array", b)
    BY <1>1, <1>5, TextItem
  <2>3. j[t] = Item("array", a \o b)
    BY <1>4, <1>5
  <2> HIDE DEF a, b
  <2> QED BY <2>1, <2>2, <2>3, ConcatFits
<1>6. ASSUME Arrays
      PROVE  (\A t \in DOMAIN j \cap DOMAIN Schema : ItemFits(t, j[t])) <=>
               /\ \A t \in DOMAIN m.doc \cap DOMAIN Schema : ItemFits(t, m.doc[t])
               /\ \A t \in DOMAIN s.doc \cap DOMAIN Schema : ItemFits(t, s.doc[t])
  BY <1>4, <1>5, <1>6
<1> QED BY <1>2, <1>3, <1>6 DEF FitTogether

\* What a readable configuration shows of a section: each table it has, and there
\* is one, with the fields the schema knows and all it requires.
LEMMA LoadedIs ==
  ASSUME NEW m, IsFile(m), NEW s, IsFile(s), load_from_paths(m, s).ok
  PROVE  LET cfg == load_from_paths(m, s).cfg
             j == Joined(m.doc, s.doc)
         IN  /\ DOMAIN cfg = (DOMAIN m.doc \cup DOMAIN s.doc) \cap DOMAIN Schema
             /\ \A t \in DOMAIN cfg :
                  /\ cfg[t] = [i \in DOMAIN j[t].tables |-> Shown(t, j[t].tables[i])]
                  /\ j[t].tables \in Seq(Table) /\ Len(j[t].tables) > 0 /\ ItemFits(t, j[t])
<1> DEFINE j == Joined(m.doc, s.doc)
<1>1. load_from_paths(m, s) = from_toml(j)
  BY DEF load_from_paths, Unreadable
<1>2. /\ from_toml(j).cfg = [t \in Known(j) |-> [i \in DOMAIN j[t].tables |-> Shown(t, j[t].tables[i])]]
      /\ \A t \in Known(j) : ItemFits(t, j[t])
  BY <1>1 DEF from_toml, Unreadable, SectionFits, ItemFits
<1>3. Known(j) = (DOMAIN m.doc \cup DOMAIN s.doc) \cap DOMAIN Schema
  BY DEF Known, Joined
<1>4. ASSUME NEW t \in DOMAIN m.doc \cup DOMAIN s.doc
      PROVE  j[t].tables \in Seq(Table) /\ Len(j[t].tables) > 0
  <2> DEFINE a == TablesOf(m.doc, t)
             b == TablesOf(s.doc, t)
  <2>1. IsText(m.doc) /\ IsText(s.doc)
    BY FileFields
  <2>2. a \in Seq(Table) /\ b \in Seq(Table) /\ (Len(a) > 0 \/ Len(b) > 0)
    BY <2>1, TextItem DEF TablesOf
  <2>3. j[t].tables = a \o b
    BY DEF Joined, Item
  <2> HIDE DEF a, b, j
  <2>4. a \o b \in Seq(Table) /\ Len(a \o b) = Len(a) + Len(b)
    BY <2>2, ConcatProperties
  <2> QED BY <2>2, <2>3, <2>4
<1> QED BY <1>1, <1>2, <1>3, <1>4

\* Which files a reader reads, one it does not read being as good as missing.
OfMachine(ctx, file) ==
  IF ctx.file = "machine" \/ (ctx.file = "none" /\ ctx.efi = "found") THEN file ELSE Absent
OfSystem(ctx, file) == IF ctx.file = "machine" THEN Absent ELSE file

\* A reader before and after a step.
LEMMA LoadIs ==
  ASSUME NEW ctx \in Ctx
  PROVE  /\ load(ctx) = load_from_paths(OfMachine(ctx, machine), OfSystem(ctx, system))
         /\ load(ctx)' = load_from_paths(OfMachine(ctx, machine'), OfSystem(ctx, system'))
<1>1. ctx.file \in {"system", "machine", "none"}
  BY DEF Ctx
<1>2. CASE ctx.file = "system"
  BY <1>2 DEF load, OfMachine, OfSystem
<1>3. CASE ctx.file = "machine"
  BY <1>3 DEF load, OfMachine, OfSystem
<1>4. CASE ctx.file = "none"
  BY <1>4 DEF load, OfMachine, OfSystem, Found
<1> QED BY <1>1, <1>2, <1>3, <1>4
-----------------------------------------------------------------------------
(* The reachable states *)

\* The files hold texts or do not parse, and nbd-heal works on the entries its
\* variables denote.
ReaderInv ==
  /\ IsFile(system) /\ IsFile(machine)
  /\ shell = [s \in Watched |-> shell[s]] /\ view = [s \in Watched |-> view[s]]
  /\ \A s \in Watched : view[s] = EntriesOf(s, shell[s])

\* A new file.
LEMMA UpdatedIs ==
  ASSUME NEW file, IsFile(file), NEW c \in CommandLines, NEW new \in Updated(file, c)
  PROVE  /\ IsFile(new) /\ file.st = "whole" /\ new.st = "whole"
         /\ Parsed(c) \in Command /\ IsText(file.doc) /\ Apply(Parsed(c), file.doc).ok
         /\ new.doc = Apply(Parsed(c), file.doc).doc
<1>1. file.st = "whole" /\ Apply(Parsed(c), file.doc).ok
      /\ new = Whole(Apply(Parsed(c), file.doc).doc)
  BY DEF Updated
<1>2. Parsed(c) \in Command /\ IsText(file.doc)
  BY ReadersAssumption, FileFields
<1>3. IsText(Apply(Parsed(c), file.doc).doc)
  BY <1>2, CommandsAreLocal
<1>4. new.doc = Apply(Parsed(c), file.doc).doc /\ new.st = "whole"
  BY <1>1 DEF Whole
<1> QED BY <1>1, <1>2, <1>3, <1>4 DEF IsFile

\* What an editor saves is a file.
LEMMA SavedIs ==
  ASSUME NEW x \in Saved
  PROVE  IsFile(x)
BY DraftsAreTexts DEF Saved, IsFile, Whole

\* Variables without entries.
LEMMA NoEntries == \A s : EntriesOf(s, NoVars) = << >>
<1>1. 1..NoVars.count = {}
  BY DEF NoVars
<1> QED BY <1>1 DEF EntriesOf

\* At boot nbd-heal has no entries and the files are texts.
LEMMA ReaderStart ==
  ASSUME ReaderInit
  PROVE  ReaderInv
BY DraftsAreTexts, AbsentIs, NoEntries DEF ReaderInit, ReaderInv, IsFile, Whole

\* Every step keeps the invariant.
LEMMA ReaderStep ==
  ASSUME ReaderInv, [ReaderNext]_readerVars
  PROVE  ReaderInv'
<1>1. CASE UNCHANGED readerVars
  BY <1>1 DEF ReaderInv, readerVars, IsFile, EntriesOf
<1>2. ASSUME NEW c \in CommandLines, NEW ctx \in Ctx, Write(c, ctx)
      PROVE  ReaderInv'
  <2>1. UNCHANGED <<shell, view>> /\ IsFile(system) /\ IsFile(machine)
    BY <1>2 DEF Write, ReaderInv
  <2>2. CASE system' \in Updated(system, c) /\ UNCHANGED machine
    BY <2>1, <2>2, UpdatedIs DEF ReaderInv
  <2>3. CASE machine' \in Updated(machine, c) /\ UNCHANGED system
    BY <2>1, <2>3, UpdatedIs DEF ReaderInv
  <2> QED BY <1>2, <2>2, <2>3 DEF Write
<1>3. CASE Edit
  <2>1. UNCHANGED <<shell, view>> /\ IsFile(system) /\ IsFile(machine)
    BY <1>3 DEF Edit, ReaderInv
  <2>2. IsFile(system') /\ IsFile(machine')
    BY <1>3, <2>1, SavedIs DEF Edit
  <2> QED BY <2>1, <2>2 DEF ReaderInv
<1>4. ASSUME NEW s \in Watched, discover(s)
      PROVE  ReaderInv'
  BY <1>4 DEF discover, ReaderInv
<1>5. CASE Restart
  BY <1>5, NoEntries DEF Restart, ReaderInv
<1> QED BY <1>1, <1>2, <1>3, <1>4, <1>5 DEF ReaderNext

\* The files hold texts or do not parse, through every interleaving of commands,
\* editors and the loops of nbd-heal, and nbd-heal's entries are those its
\* variables denote (store.rs, edit.rs, nbd-heal discover).
THEOREM ReaderInvariant == ReaderSpec => []ReaderInv
<1>1. ReaderInit => ReaderInv
  BY ReaderStart
<1>2. ReaderInv /\ [ReaderNext]_readerVars => ReaderInv'
  BY ReaderStep
<1> QED BY <1>1, <1>2, PTL DEF ReaderSpec
-----------------------------------------------------------------------------
(* validate *)

\* What is read of both files is read of the system file alone.
LEMMA SystemAlone ==
  ASSUME NEW m, IsFile(m), NEW s, IsFile(s), load_from_paths(m, s).ok
  PROVE  load_from_paths(Absent, s).ok
<1>1. FitTogether(m, s)
  BY ReadableIs
<1>2. FitTogether(Absent, s)
  BY <1>1, AbsentIs DEF FitTogether
<1> QED BY <1>2, AbsentIs, ReadableIs

\* A readable configuration with [machine] has a machine id.
LEMMA MachineHasId ==
  ASSUME NEW m, IsFile(m), NEW s, IsFile(s), load_from_paths(m, s).ok,
         "machine" \in DOMAIN load_from_paths(m, s).cfg
  PROVE  LET cfg == load_from_paths(m, s).cfg
         IN  /\ 1 \in DOMAIN cfg["machine"] /\ "id" \in DOMAIN cfg["machine"][1]
             /\ cfg["machine"][1]["id"].type = "string"
<1> DEFINE cfg == load_from_paths(m, s).cfg
           item == Joined(m.doc, s.doc)["machine"]
           table == item.tables[1]
<1>1. /\ cfg["machine"] = [i \in DOMAIN item.tables |-> Shown("machine", item.tables[i])]
      /\ item.tables \in Seq(Table) /\ Len(item.tables) > 0 /\ ItemFits("machine", item)
  BY LoadedIs
<1> HIDE DEF cfg, item
<1>2. 1 \in DOMAIN item.tables
  BY <1>1
<1>3. cfg["machine"][1] = Shown("machine", table) /\ TableFits("machine", table)
      /\ 1 \in DOMAIN cfg["machine"]
  BY <1>1, <1>2 DEF ItemFits
<1> HIDE DEF table
<1>4. /\ "id" \in DOMAIN table /\ Fits("string", table["id"])
      /\ "id" \in DOMAIN FieldTypes("machine")
  BY <1>3, SchemaIs DEF TableFits
<1>5. table["id"].type = "string"
  BY <1>4 DEF Fits
<1>6. "id" \in DOMAIN Shown("machine", table) /\ Shown("machine", table)["id"] = table["id"]
  BY <1>4 DEF Shown
<1> QED BY <1>3, <1>5, <1>6 DEF cfg

\* Whatever validate accepts is served.
LEMMA ValidServed ==
  ASSUME ReaderInv
  PROVE  ValidatedIsServed
<1> SUFFICES ASSUME NEW ctx \in Ctx, ctx.file = "none", validate(ctx, "both")
             PROVE  /\ load(Plain).ok
                    /\ LET id == get(ctx, [section |-> Machine, index |-> 0, field |-> "id"], FALSE)
                       IN  id.code = 0 /\ id.out # ""
  BY DEF ValidatedIsServed
<1> DEFINE m == Found(ctx)
           loaded == load_from_paths(m, system)
           key == [section |-> Machine, index |-> 0, field |-> "id"]
<1>1. IsFile(m) /\ IsFile(system)
  BY AbsentIs DEF ReaderInv, Found
<1>2. load(ctx) = loaded /\ load(Plain) = load_from_paths(Absent, system)
  BY DEF load, Plain, Found
<1>3. /\ load(ctx).ok /\ Machine \in DOMAIN load(ctx).cfg
      /\ load(ctx).cfg[Machine][1]["id"].text # ""
  BY DEF validate
<1> HIDE DEF m
<1>4. load(Plain).ok
  BY <1>1, <1>2, <1>3, SystemAlone
<1>5. Machine = "machine"
  BY ReadersAssumption
<1> DEFINE value == load(ctx).cfg["machine"][1]["id"]
<1>6. /\ 1 \in DOMAIN load(ctx).cfg["machine"] /\ "id" \in DOMAIN load(ctx).cfg["machine"][1]
      /\ value.type = "string"
  BY <1>1, <1>2, <1>3, <1>5, MachineHasId
<1>7. Schema["machine"].kind = "table"
  BY SchemaIs
<1>8. key.section = "machine" /\ key.index = 0 /\ key.field = "id"
  BY <1>5
<1> HIDE DEF key
<1>9. lookup(load(ctx).cfg, key) = value
  BY <1>3, <1>5, <1>6, <1>7, <1>8 DEF lookup
<1>10. value.text # ""
  BY <1>3, <1>5
<1> HIDE DEF value
<1>11. value # NoValue
  <2>1. NoValue.type = "none" /\ "none" # "string"
    BY DEF NoValue, Value
  <2> QED BY <1>6, <2>1, Zenon
<1> DEFINE answer == get(ctx, key, FALSE)
<1>12. answer = [code |-> 0, out |-> value.text]
  BY <1>3, <1>9, <1>11 DEF get
<1> HIDE DEF answer
<1>13. answer.code = 0 /\ answer.out # ""
  BY <1>10, <1>12
<1> QED BY <1>4, <1>13 DEF key, answer

\* What validate accepts, the init scripts can read without the EFI partition, and
\* they find a machine id: for every content the two files can get (validate.rs).
THEOREM ValidatedServed == ReaderSpec => []ValidatedIsServed
<1>1. ReaderInit => ReaderInv
  BY ReaderStart
<1>2. ReaderInv /\ [ReaderNext]_readerVars => ReaderInv'
  BY ReaderStep
<1>3. ReaderInv => ValidatedIsServed
  BY ValidServed
<1> QED BY <1>1, <1>2, <1>3, PTL DEF ReaderSpec
-----------------------------------------------------------------------------
(* nbd-heal *)

\* What list prints of a section that has entries.
LEMMA PrintedIs ==
  ASSUME ReaderInv, NEW s, load(Plain).ok, s \in DOMAIN load(Plain).cfg
  PROVE  LET tables == load(Plain).cfg[s]
             printed == list(Plain, s)
         IN  /\ DOMAIN tables = 1..printed.count /\ printed.count \in Nat \ {0}
             /\ \A i \in DOMAIN tables : \A f \in DOMAIN tables[i] :
                  /\ f \in DOMAIN FieldTypes(s) /\ <<i, f>> \in DOMAIN printed.var
                  /\ printed.var[<<i, f>>] = tables[i][f]
<1> DEFINE tables == load(Plain).cfg[s]
           old == Joined(Absent.doc, system.doc)[s].tables
           n == Len(old)
           index == {q \in (DOMAIN tables) \X (DOMAIN FieldTypes(s)) : q[2] \in DOMAIN tables[q[1]]}
           printed == list(Plain, s)
<1>1. load(Plain) = load_from_paths(Absent, system)
  BY DEF load, Plain, Found
<1>2. IsFile(Absent) /\ IsFile(system)
  BY AbsentIs DEF ReaderInv
<1>3. /\ tables = [i \in DOMAIN old |-> Shown(s, old[i])] /\ old \in Seq(Table) /\ n > 0
  BY <1>1, <1>2, LoadedIs
<1> HIDE DEF old
<1>4. n \in Nat \ {0} /\ DOMAIN old = 1..n
  BY <1>3
<1>5. tables = [i \in 1..n |-> Shown(s, old[i])] /\ DOMAIN tables = 1..n
  BY <1>3, <1>4
<1>6. Len(tables) = n /\ tables # << >>
  <2> DEFINE S == {Shown(s, old[i]) : i \in 1..n}
  <2> HIDE DEF n
  <2>1. [i \in 1..n |-> Shown(s, old[i])] \in Seq(S)
    BY <1>4
  <2>2. tables \in Seq(S) /\ DOMAIN tables = 1..n
    BY <1>5, <2>1, Zenon
  <2> HIDE DEF tables, S
  <2> QED BY <1>4, <2>2
<1>7. printed = [count |-> Len(tables), var |-> [p \in index |-> tables[p[1]][p[2]]]]
  BY <1>6 DEF list
<1>8. printed.count = n /\ printed.var = [p \in index |-> tables[p[1]][p[2]]]
  BY <1>6, <1>7
<1> HIDE DEF printed
<1>9. ASSUME NEW i \in DOMAIN tables, NEW f \in DOMAIN tables[i]
      PROVE  /\ f \in DOMAIN FieldTypes(s) /\ <<i, f>> \in DOMAIN printed.var
             /\ printed.var[<<i, f>>] = tables[i][f]
  <2>1. tables[i] = Shown(s, old[i])
    BY <1>5
  <2>2. f \in DOMAIN FieldTypes(s)
    BY <2>1 DEF Shown
  <2> HIDE DEF tables
  <2>3. <<i, f>> \in index
    BY <2>2
  <2> QED BY <1>8, <2>2, <2>3
<1> QED BY <1>4, <1>5, <1>8, <1>9 DEF printed

\* One loop of discover: the new entries are those of the file when it has some,
\* and the old ones otherwise.
LEMMA DiscoverStep ==
  ASSUME ReaderInv, NEW s \in Watched, discover(s)
  PROVE  LET read == load(Plain)
         IN  IF read.ok /\ s \in DOMAIN read.cfg /\ read.cfg[s] # << >>
             THEN /\ DOMAIN view'[s] = DOMAIN read.cfg[s]
                  /\ \A i \in DOMAIN read.cfg[s] : \A f \in DOMAIN read.cfg[s][i] :
                       view'[s][i][f] = read.cfg[s][i][f]
             ELSE view'[s] = view[s]
<1> DEFINE read == load(Plain)
           tables == read.cfg[s]
           printed == list(Plain, s)
           new == Evaluated(s)
<1>1. view'[s] = EntriesOf(s, new) /\ view[s] = EntriesOf(s, shell[s])
  BY DEF discover, ReaderInv
<1>2. CASE ~(read.ok /\ s \in DOMAIN read.cfg /\ tables # << >>)
  <2>1. printed = NoVars
    BY <1>2 DEF list
  <2>2. new = shell[s]
    BY <2>1 DEF Evaluated
  <2> QED BY <1>1, <1>2, <2>2
<1>3. CASE read.ok /\ s \in DOMAIN read.cfg /\ tables # << >>
  <2>1. /\ DOMAIN tables = 1..printed.count /\ printed.count \in Nat \ {0}
        /\ \A i \in DOMAIN tables : \A f \in DOMAIN tables[i] :
             /\ f \in DOMAIN FieldTypes(s) /\ <<i, f>> \in DOMAIN printed.var
             /\ printed.var[<<i, f>>] = tables[i][f]
    BY <1>3, PrintedIs
  <2> HIDE DEF tables
  <2>2. printed # NoVars
    BY <2>1 DEF NoVars
  <2>3. new = [count |-> printed.count,
               var |-> [p \in DOMAIN printed.var \cup DOMAIN shell[s].var |->
                          IF p \in DOMAIN printed.var THEN printed.var[p] ELSE shell[s].var[p]]]
    BY <2>2 DEF Evaluated
  <2> HIDE DEF new, printed
  <2>4. /\ new.count = printed.count
        /\ \A p \in DOMAIN printed.var : p \in DOMAIN new.var /\ new.var[p] = printed.var[p]
    BY <2>3
  <2>5. DOMAIN EntriesOf(s, new) = DOMAIN tables
    BY <2>1, <2>4 DEF EntriesOf
  <2>6. ASSUME NEW i \in DOMAIN tables, NEW f \in DOMAIN tables[i]
        PROVE  EntriesOf(s, new)[i][f] = tables[i][f]
    <3>1. /\ i \in 1..new.count /\ f \in DOMAIN FieldTypes(s)
          /\ <<i, f>> \in DOMAIN new.var /\ new.var[<<i, f>>] = tables[i][f]
      BY <2>1, <2>4
    <3> QED BY <3>1 DEF EntriesOf
  <2> QED BY <1>1, <1>3, <2>5, <2>6 DEF tables
<1> QED BY <1>2, <1>3

\* After a loop nbd-heal works on exactly the configured entries, or on those it
\* had while nothing can be read, for every history of the file (nbd-heal discover).
THEOREM DiscoveryIsCurrent == ReaderSpec => DiscoverIsCurrent
<1>1. ReaderInit => ReaderInv
  BY ReaderStart
<1>2. ReaderInv /\ [ReaderNext]_readerVars => ReaderInv'
  BY ReaderStep
<1>3. ReaderInv =>
        \A s \in Watched :
          discover(s) =>
            LET read == load(Plain)
            IN  IF read.ok /\ s \in DOMAIN read.cfg /\ read.cfg[s] # << >>
                THEN /\ DOMAIN view'[s] = DOMAIN read.cfg[s]
                     /\ \A i \in DOMAIN read.cfg[s] : \A f \in DOMAIN read.cfg[s][i] :
                          view'[s][i][f] = read.cfg[s][i][f]
                ELSE view'[s] = view[s]
  BY DiscoverStep
<1> QED BY <1>1, <1>2, <1>3, PTL DEF ReaderSpec, DiscoverIsCurrent
-----------------------------------------------------------------------------
(* set, add and remove against the readers *)

\* A command line and the command it is parsed into.
LEMMA ParsedIs ==
  ASSUME NEW c \in CommandLines
  PROVE  /\ Parsed(c) \in Command /\ Parsed(c).cmd = c.cmd /\ Parsed(c).key = c.key
         /\ Parsed(c).value = parse_value(c.value)
<1>1. Parsed(c) \in Command
  BY ReadersAssumption
<1>2. Parsed(c) = [c EXCEPT !.value = parse_value(c.value)]
  BY DEF Parsed
<1>3. DOMAIN Parsed(c) = {"cmd", "key", "value"}
  BY <1>1 DEF Command
<1>4. DOMAIN c = {"cmd", "key", "value"}
  BY <1>2, <1>3
<1> QED BY <1>1, <1>2, <1>4

\* A value from the command line has a type.
LEMMA ParsedValue ==
  ASSUME NEW text
  PROVE  parse_value(text) # NoValue
<1>1. NoValue.type = "none"
  BY DEF NoValue, Value
<1>2. parse_value(text).type \in {"bool", "integer", "float", "string"}
  BY DEF parse_value, Value, Integer
<1> QED BY <1>1, <1>2

\* The parts of Respects that concern the command.
Suits(p) ==
  LET s == p.key.section
  IN  /\ s \in DOMAIN Schema
      /\ \/ /\ p.cmd = "set" /\ KnownField(p.key)
            /\ Fits(FieldTypes(s)[p.key.field], p.value)
         \/ p.cmd = "add" /\ Schema[s].kind = "array" /\ Schema[s].required = {}
         \/ p.cmd = "remove" /\ p.key.field \notin Schema[s].required

\* set of a field that fits keeps its section fitting.
LEMMA SetFits ==
  ASSUME NEW d, IsText(d), NEW p \in Command, p.cmd = "set", Suits(p), Apply(p, d).ok,
         p.key.section \in DOMAIN d => ItemFits(p.key.section, d[p.key.section])
  PROVE  ItemFits(p.key.section, Apply(p, d).doc[p.key.section])
<1> DEFINE s == p.key.section
           f == p.key.field
           x == Apply(p, d).doc
           a == x[s].tables
           i == IF p.key.index = 0 THEN 1 ELSE p.key.index
           kind == IF p.key.index = 0 THEN "table" ELSE "array"
<1>1. IsText(x) /\ LocalTo(p, d, x) /\ SectionAfter(p, d, x)
  BY CommandsAreLocal
<1>2. /\ s \in DOMAIN Schema /\ f \in DOMAIN FieldTypes(s)
      /\ (p.key.index = 0) = (Schema[s].kind = "table")
      /\ Fits(FieldTypes(s)[f], p.value)
  BY DEF Suits, KnownField
<1>3. kind = Schema[s].kind
  <2>1. s \in DOMAIN Schema
    BY <1>2, Zenon
  <2> HIDE DEF s
  <2>2. Schema[s].kind \in {"table", "array"}
    BY <2>1, KindIs, Zenon
  <2> QED BY <1>2, <2>2
<1>4. /\ s \in DOMAIN x /\ x[s].kind = kind /\ i \in DOMAIN a /\ f \in DOMAIN a[i]
      /\ s \in DOMAIN d =>
           DOMAIN a = DOMAIN d[s].tables /\ DOMAIN a[i] = DOMAIN d[s].tables[i] \cup {f}
      /\ s \notin DOMAIN d => kind = "table" /\ DOMAIN a = {i} /\ DOMAIN a[i] = {f}
  BY <1>1, Zenon DEF SectionAfter
<1> HIDE DEF x
<1>5. /\ a[i][f] = p.value /\ \A j \in DOMAIN TablesOf(d, s) \ {i} : a[j] = TablesOf(d, s)[j]
      /\ \A g \in Fields \ {f} : i <= Len(TablesOf(d, s)) =>
           (g \in DOMAIN a[i] => a[i][g] = TablesOf(d, s)[i][g])
  <2>1. TablesOf(x, s) = a
    BY <1>4 DEF TablesOf
  <2> HIDE DEF a
  <2> QED BY <1>1, <2>1 DEF LocalTo
<1>6. a \in Seq(Table)
  BY <1>1, <1>4, TextItem
<1>7. a[i] \in Table
  <2>1. i \in DOMAIN a
    BY <1>4, Zenon
  <2> HIDE DEF a, i
  <2> QED BY <1>6, <2>1
<1> HIDE DEF a, i, kind, f, s
<1>8. CASE s \in DOMAIN d
  <2> DEFINE b == d[s].tables
  <2>1. b = TablesOf(d, s) /\ b \in Seq(Table) /\ DOMAIN b = 1..Len(b)
    BY <1>8, TextItem DEF TablesOf
  <2>2. \A j \in DOMAIN b : TableFits(s, b[j])
    BY <1>8 DEF ItemFits, s
  <2> HIDE DEF b
  <2>3. DOMAIN a = DOMAIN b /\ DOMAIN a[i] = DOMAIN b[i] \cup {f}
    BY <1>4, <1>8 DEF b
  <2>4. i <= Len(b) /\ i \in DOMAIN b
    BY <1>4, <2>1, <2>3
  <2>5. TableFits(s, a[i])
    <3>1. Schema[s].required \subseteq DOMAIN a[i]
      BY <2>2, <2>3, <2>4 DEF TableFits
    <3>2. ASSUME NEW g \in DOMAIN a[i] \cap DOMAIN FieldTypes(s), g # f
          PROVE  Fits(FieldTypes(s)[g], a[i][g])
      <4>1. g \in Fields /\ g \in DOMAIN b[i]
        BY <1>7, <2>3, <3>2, Tables
      <4>2. a[i][g] = b[i][g]
        BY <1>5, <2>1, <2>4, <3>2, <4>1
      <4> QED BY <2>2, <2>4, <3>2, <4>1, <4>2 DEF TableFits
    <3>3. Fits(FieldTypes(s)[f], a[i][f])
      BY <1>2, <1>5
    <3> QED BY <3>1, <3>2, <3>3 DEF TableFits
  <2>6. \A j \in DOMAIN a \ {i} : TableFits(s, a[j])
    BY <1>5, <2>1, <2>2, <2>3
  <2> QED BY <1>3, <1>4, <2>5, <2>6 DEF ItemFits, s, a, x
<1>9. CASE s \notin DOMAIN d
  <2>1. DOMAIN a = {i} /\ DOMAIN a[i] = {f} /\ Schema[s].kind = "table"
    BY <1>3, <1>4, <1>9
  <2>2. Schema[s].required \subseteq {f}
    BY <1>2, <2>1, SchemaIs
  <2>3. Fits(FieldTypes(s)[f], a[i][f])
    BY <1>2, <1>5
  <2>4. TableFits(s, a[i])
    BY <2>1, <2>2, <2>3 DEF TableFits
  <2> QED BY <1>3, <1>4, <2>1, <2>4 DEF ItemFits, s, a, x
<1> QED BY <1>8, <1>9

\* add of an entry that needs nothing keeps its section fitting.
LEMMA AddFits ==
  ASSUME NEW d, IsText(d), NEW p \in Command, p.cmd = "add", Suits(p), Apply(p, d).ok,
         p.key.section \in DOMAIN d => ItemFits(p.key.section, d[p.key.section])
  PROVE  ItemFits(p.key.section, Apply(p, d).doc[p.key.section])
<1> DEFINE s == p.key.section
           x == Apply(p, d).doc
           a == x[s].tables
           b == TablesOf(d, s)
<1>1. LocalTo(p, d, x) /\ SectionAfter(p, d, x)
  BY CommandsAreLocal
<1>2. s \in DOMAIN x /\ x[s].kind = "array" /\ Schema[s].kind = "array" /\ Schema[s].required = {}
  BY <1>1 DEF SectionAfter, Suits
<1> HIDE DEF x
<1>3. a = Append(b, EmptyTable)
  BY <1>1, <1>2 DEF LocalTo, TablesOf
<1>4. b \in Seq(Table)
  BY TextItem DEF TablesOf
<1>5. ASSUME NEW j \in DOMAIN b PROVE TableFits(s, b[j])
  <2>1. s \in DOMAIN d
    BY <1>5 DEF TablesOf
  <2> QED BY <1>5, <2>1 DEF ItemFits, TablesOf
<1>6. TableFits(s, EmptyTable)
  BY <1>2, EmptyTableIs DEF TableFits
<1> HIDE DEF b, a, s
<1>7. ASSUME NEW j \in DOMAIN a PROVE TableFits(s, a[j])
  <2>1. a[j] = IF j <= Len(b) THEN b[j] ELSE EmptyTable
    BY <1>3, <1>4, EmptyTableIs
  <2>2. j <= Len(b) => j \in DOMAIN b
    BY <1>3, <1>4, <1>7, EmptyTableIs
  <2> QED BY <1>5, <1>6, <2>1, <2>2
<1> QED BY <1>2, <1>7 DEF ItemFits, s, x, a

\* remove of anything but a required field keeps its section fitting.
LEMMA RemoveFits ==
  ASSUME NEW d, IsText(d), NEW p \in Command, p.cmd = "remove", Suits(p), Apply(p, d).ok,
         p.key.section \in DOMAIN d => ItemFits(p.key.section, d[p.key.section]),
         p.key.section \in DOMAIN Apply(p, d).doc
  PROVE  ItemFits(p.key.section, Apply(p, d).doc[p.key.section])
<1> DEFINE s == p.key.section
           f == p.key.field
           x == Apply(p, d).doc
           a == x[s].tables
           b == d[s].tables
<1>1. IsText(x) /\ LocalTo(p, d, x) /\ SectionAfter(p, d, x)
  BY CommandsAreLocal
<1>2. /\ s \in DOMAIN d /\ x[s].kind = d[s].kind /\ (p.key.index > 0 \/ f # NoField)
      /\ f \notin Schema[s].required
  BY <1>1 DEF SectionAfter, Suits
<1>3. p.key.index \in Nat
  BY CommandIs
<1> HIDE DEF x
<1>4. TablesOf(x, s) = a /\ TablesOf(d, s) = b
  BY <1>2 DEF TablesOf, x
<1>5. a \in Seq(Table) /\ b \in Seq(Table) /\ Len(b) > 0
  BY <1>1, <1>2, TextItem DEF x
<1>6. d[s].kind = Schema[s].kind /\ \A j \in DOMAIN b : TableFits(s, b[j])
  BY <1>2 DEF ItemFits
<1> HIDE DEF a, b, s, f
<1>7. CASE p.key.index > 0
  <2>1. a # b => /\ Len(a) = Len(b) - 1
                 /\ \A j \in DOMAIN a : a[j] = b[IF j < p.key.index THEN j ELSE j + 1]
    BY <1>1, <1>3, <1>4, <1>7 DEF LocalTo, s
  <2>2. ASSUME NEW j \in DOMAIN a PROVE TableFits(s, a[j])
    <3>1. CASE a = b
      BY <1>6, <2>2, <3>1
    <3>2. CASE a # b
      <4>1. j \in DOMAIN b /\ j + 1 \in DOMAIN b
        BY <1>5, <2>1, <2>2, <3>2
      <4>2. a[j] = b[j] \/ a[j] = b[j + 1]
        BY <2>1, <2>2, <3>2
      <4> QED BY <1>6, <4>1, <4>2
    <3> QED BY <3>1, <3>2
  <2> QED BY <1>2, <1>6, <2>2 DEF ItemFits, s, a, x
<1>8. CASE p.key.index = 0 /\ f # NoField
  <2>1. a = b \/ a = <<Without(b[1], f)>>
    BY <1>1, <1>4, <1>8 DEF LocalTo, s, f
  <2>2. 1 \in DOMAIN b
    BY <1>5
  <2>3. TableFits(s, b[1])
    BY <1>6, <2>2
  <2>4. TableFits(s, Without(b[1], f))
    BY <1>2, <2>3 DEF TableFits, Without
  <2>5. ASSUME NEW j \in DOMAIN a PROVE TableFits(s, a[j])
    <3>1. CASE a = b
      BY <1>6, <2>5, <3>1
    <3>2. CASE a = <<Without(b[1], f)>>
      <4>1. j = 1 /\ a[1] = Without(b[1], f)
        BY <2>5, <3>2
      <4> QED BY <2>4, <4>1
    <3> QED BY <2>1, <3>1, <3>2
  <2> QED BY <1>2, <1>6, <2>5 DEF ItemFits, s, a, x
<1> QED BY <1>2, <1>3, <1>7, <1>8

\* A file changed by a command that suits the schema is as readable, next to a file
\* without that section, as it was.
LEMMA StaysFit ==
  ASSUME NEW file, IsFile(file), NEW c \in CommandLines, NEW new \in Updated(file, c),
         NEW other, IsFile(other), Respects(c, other), FitTogether(other, file)
  PROVE  IsFile(new) /\ FitTogether(other, new)
<1> DEFINE p == Parsed(c)
           s == c.key.section
<1>1. /\ IsFile(new) /\ file.st = "whole" /\ new.st = "whole"
      /\ p \in Command /\ IsText(file.doc) /\ Apply(p, file.doc).ok
      /\ new.doc = Apply(p, file.doc).doc
  BY UpdatedIs
<1>2. p.cmd = c.cmd /\ p.key = c.key /\ p.value = parse_value(c.value)
  BY ParsedIs
<1> HIDE DEF p
<1>3. Suits(p) /\ s \notin DOMAIN other.doc /\ s \in DOMAIN Schema
  BY <1>2 DEF Respects, Suits
<1>4. s \in DOMAIN file.doc => ItemFits(s, file.doc[s])
  BY <1>3 DEF FitTogether
<1>5. p.cmd \in {"set", "add", "remove"} /\ p.key.section = s
  BY <1>1, <1>2, CommandIs
<1> HIDE DEF s
<1>6. s \in DOMAIN new.doc => ItemFits(s, new.doc[s])
  BY <1>1, <1>3, <1>4, <1>5, SetFits, AddFits, RemoveFits
<1>7. LocalTo(p, file.doc, new.doc)
  BY <1>1, CommandsAreLocal
<1>8. \A t \in (DOMAIN file.doc \cup DOMAIN new.doc) \ {s} :
        t \in DOMAIN file.doc \cap DOMAIN new.doc /\ file.doc[t] = new.doc[t]
  BY <1>5, <1>7 DEF LocalTo
<1> QED BY <1>1, <1>3, <1>6, <1>8 DEF FitTogether

\* The order of the files does not matter to what is readable.
LEMMA FitEitherWay ==
  ASSUME NEW m, NEW s, FitTogether(m, s)
  PROVE  FitTogether(s, m)
BY DEF FitTogether

\* The same of every reader.
LEMMA ReaderStays ==
  ASSUME ReaderInv, NEW c \in CommandLines, NEW ctx \in Ctx, Write(c, ctx),
         Respects(c, IF target_path(c.key.section, ctx) = "system" THEN machine ELSE system),
         NEW reader \in Ctx, load(reader).ok
  PROVE  load(reader)'.ok
<1> DEFINE m == OfMachine(reader, machine)
           s == OfSystem(reader, system)
<1>1. /\ load(reader) = load_from_paths(m, s)
      /\ load(reader)' = load_from_paths(OfMachine(reader, machine'), OfSystem(reader, system'))
  BY LoadIs
<1>2. IsFile(machine) /\ IsFile(system) /\ IsFile(m) /\ IsFile(s)
  BY AbsentIs DEF ReaderInv, OfMachine, OfSystem
<1>3. FitTogether(m, s)
  BY <1>1, <1>2, ReadableIs
<1>4. CASE /\ target_path(c.key.section, ctx) = "system"
           /\ system' \in Updated(system, c) /\ machine' = machine
  <2>1. Respects(c, machine)
    BY <1>4
  <2>2. Respects(c, m)
    BY <2>1, AbsentIs DEF OfMachine, Respects
  <2>3. CASE s = system
    <3>1. OfSystem(reader, system') \in {system', Absent}
      BY DEF OfSystem
    <3>2. IsFile(system') /\ FitTogether(m, system')
      BY <1>2, <1>3, <1>4, <2>2, <2>3, StaysFit
    <3>3. load_from_paths(m, system').ok
      BY <1>2, <3>2, ReadableIs
    <3>4. CASE OfSystem(reader, system') = system'
      BY <1>1, <1>4, <3>3, <3>4
    <3>5. CASE OfSystem(reader, system') = Absent
      <4>1. FitTogether(m, Absent)
        BY <3>2, AbsentIs DEF FitTogether
      <4>2. load_from_paths(m, Absent).ok
        BY <1>2, <4>1, AbsentIs, ReadableIs
      <4> QED BY <1>1, <1>4, <3>5, <4>2
    <3> QED BY <3>1, <3>4, <3>5
  <2>4. CASE s # system
    <3>1. OfSystem(reader, system') = s
      BY <2>4 DEF OfSystem
    <3> QED BY <1>1, <1>4, <3>1
  <2> QED BY <2>3, <2>4
<1>5. CASE /\ target_path(c.key.section, ctx) = "machine"
           /\ machine' \in Updated(machine, c) /\ system' = system
  <2>1. Respects(c, system)
    BY <1>5
  <2>2. Respects(c, s)
    BY <2>1, AbsentIs DEF OfSystem, Respects
  <2>3. CASE m = machine
    <3>1. OfMachine(reader, machine') \in {machine', Absent}
      BY DEF OfMachine
    <3>2. IsFile(machine') /\ FitTogether(s, machine')
      <4>1. FitTogether(s, machine)
        BY <1>3, <2>3, FitEitherWay
      <4> QED BY <1>2, <1>5, <2>2, <4>1, StaysFit
    <3>3. load_from_paths(machine', s).ok
      BY <1>2, <3>2, FitEitherWay, ReadableIs
    <3>4. CASE OfMachine(reader, machine') = machine'
      BY <1>1, <1>5, <3>3, <3>4
    <3>5. CASE OfMachine(reader, machine') = Absent
      <4>1. FitTogether(Absent, s)
        BY <3>2, AbsentIs DEF FitTogether
      <4>2. load_from_paths(Absent, s).ok
        BY <1>2, <4>1, AbsentIs, ReadableIs
      <4> QED BY <1>1, <1>5, <3>5, <4>2
    <3> QED BY <3>1, <3>4, <3>5
  <2>4. CASE m # machine
    <3>1. OfMachine(reader, machine') = m
      BY <2>4 DEF OfMachine
    <3> QED BY <1>1, <1>5, <3>1
  <2> QED BY <2>3, <2>4
<1> QED BY <1>4, <1>5 DEF Write

\* A command that respects the schema takes a readable configuration away from no
\* reader, whatever the files hold (set.rs, add.rs, remove.rs, schema.rs from_toml).
THEOREM ConfigStaysReadable == ReaderSpec => StaysReadable
<1>1. ReaderInit => ReaderInv
  BY ReaderStart
<1>2. ReaderInv /\ [ReaderNext]_readerVars => ReaderInv'
  BY ReaderStep
<1>3. ReaderInv =>
        \A c \in CommandLines : \A ctx \in Ctx :
          /\ Write(c, ctx)
          /\ Respects(c, IF target_path(c.key.section, ctx) = "system" THEN machine ELSE system)
          => \A reader \in Ctx : load(reader)'.ok \/ ~load(reader).ok
  BY ReaderStays
<1> QED BY <1>1, <1>2, <1>3, PTL DEF ReaderSpec, StaysReadable

\* What set put into one of two files, lookup finds in both read together, when the
\* other file does not have the section.
LEMMA SetIsFound ==
  ASSUME NEW file, IsFile(file), NEW c \in CommandLines, NEW new \in Updated(file, c),
         c.cmd = "set", KnownField(c.key), NEW m, IsFile(m), NEW s, IsFile(s),
         \/ m = new /\ c.key.section \notin DOMAIN s.doc
         \/ s = new /\ c.key.section \notin DOMAIN m.doc,
         load_from_paths(m, s).ok
  PROVE  lookup(load_from_paths(m, s).cfg, c.key) = parse_value(c.value)
<1> DEFINE p == Parsed(c)
           t == c.key.section
           f == c.key.field
           i == IF c.key.index = 0 THEN 1 ELSE c.key.index
           j == Joined(m.doc, s.doc)
           cfg == load_from_paths(m, s).cfg
           tables == new.doc[t].tables
<1>1. /\ IsFile(new) /\ p \in Command /\ IsText(file.doc) /\ Apply(p, file.doc).ok
      /\ new.doc = Apply(p, file.doc).doc
  BY UpdatedIs
<1>2. p.cmd = "set" /\ p.key = c.key /\ p.value = parse_value(c.value)
  BY ParsedIs
<1> HIDE DEF p
<1>3. LocalTo(p, file.doc, new.doc) /\ SectionAfter(p, file.doc, new.doc)
  BY <1>1, CommandsAreLocal, Zenon
<1>4. t \in DOMAIN new.doc /\ i \in DOMAIN tables /\ f \in DOMAIN tables[i]
  BY <1>2, <1>3, Zenon DEF SectionAfter
<1>5. tables[i][f] = p.value
  <2>1. TablesOf(new.doc, t) = tables
    BY <1>4 DEF TablesOf
  <2> HIDE DEF tables
  <2> QED BY <1>2, <1>3, <2>1 DEF LocalTo
<1>6. /\ t \in DOMAIN Schema /\ f \in DOMAIN FieldTypes(t)
      /\ (c.key.index = 0) = (Schema[t].kind = "table")
  BY DEF KnownField
<1>7. j[t] = new.doc[t]
  <2> DEFINE x == m.doc
             y == s.doc
  <2>1. IsText(x) /\ IsText(y)
    BY FileFields
  <2> HIDE DEF x, y
  <2>2. \/ t \in DOMAIN x \ DOMAIN y /\ x[t] = new.doc[t]
        \/ t \in DOMAIN y \ DOMAIN x /\ y[t] = new.doc[t]
    BY <1>4 DEF x, y
  <2>3. Joined(x, y)[t] = new.doc[t]
    <3> HIDE DEF t
    <3>1. CASE t \in DOMAIN x \ DOMAIN y /\ x[t] = new.doc[t]
      BY <2>1, <3>1, JoinedFirst
    <3>2. CASE t \in DOMAIN y \ DOMAIN x /\ y[t] = new.doc[t]
      BY <2>1, <3>2, JoinedSecond
    <3> QED BY <2>2, <3>1, <3>2
  <2> QED BY <2>3 DEF x, y
<1>8. t \in DOMAIN cfg /\ cfg[t] = [k \in DOMAIN j[t].tables |-> Shown(t, j[t].tables[k])]
  <2>1. t \in (DOMAIN m.doc \cup DOMAIN s.doc) \cap DOMAIN Schema
    BY <1>4, <1>6
  <2>2. /\ DOMAIN cfg = (DOMAIN m.doc \cup DOMAIN s.doc) \cap DOMAIN Schema
        /\ \A u \in DOMAIN cfg : cfg[u] = [k \in DOMAIN j[u].tables |-> Shown(u, j[u].tables[k])]
    BY LoadedIs
  <2> HIDE DEF t, cfg, j
  <2> QED BY <2>1, <2>2
<1> HIDE DEF j, cfg
<1>9. cfg[t] = [k \in DOMAIN tables |-> Shown(t, tables[k])]
  BY <1>7, <1>8
<1> HIDE DEF tables, i, t, f
<1>10. i \in DOMAIN cfg[t] /\ cfg[t][i] = Shown(t, tables[i])
  BY <1>4, <1>9
<1>11. f \in DOMAIN Shown(t, tables[i]) /\ Shown(t, tables[i])[f] = p.value
  BY <1>4, <1>5, <1>6 DEF Shown
<1>12. lookup(cfg, c.key) = cfg[t][i][f]
  BY <1>6, <1>8, <1>10, <1>11 DEF lookup, t, i, f
<1> QED BY <1>2, <1>10, <1>11, <1>12 DEF cfg

\* The file a command is sent to, and the other one, read with the same options.
LEMMA SetThenFound ==
  ASSUME ReaderInv, ReaderInv', NEW c \in CommandLines, NEW ctx \in Ctx, Write(c, ctx),
         c.cmd = "set", KnownField(c.key), load(ctx)'.ok, DOMAIN machine'.doc \subseteq {Machine}
  PROVE  lookup(load(ctx)'.cfg, c.key) = parse_value(c.value)
<1> DEFINE m == OfMachine(ctx, machine')
           s == OfSystem(ctx, system')
           t == c.key.section
<1>1. load(ctx)' = load_from_paths(m, s)
  BY LoadIs
<1>2. IsFile(machine) /\ IsFile(system)
  BY DEF ReaderInv
<1>3. IsFile(machine') /\ IsFile(system')
  BY DEF ReaderInv
<1>4. IsFile(m) /\ IsFile(s)
  BY <1>3, AbsentIs DEF OfMachine, OfSystem
<1>5. CASE target_path(t, ctx) = "system" /\ system' \in Updated(system, c)
  <2>1. t # Machine /\ ctx.file # "machine"
    BY <1>5 DEF target_path
  <2>2. s = system'
    BY <2>1 DEF OfSystem
  <2>3. t \notin DOMAIN m.doc
    BY <2>1, AbsentIs DEF OfMachine
  <2> HIDE DEF m, s
  <2>4. lookup(load_from_paths(m, s).cfg, c.key) = parse_value(c.value)
    BY <1>1, <1>2, <1>4, <1>5, <2>2, <2>3, SetIsFound
  <2> QED BY <1>1, <2>4
<1>6. CASE target_path(t, ctx) = "machine" /\ machine' \in Updated(machine, c)
  <2>1. /\ Parsed(c) \in Command /\ Apply(Parsed(c), machine.doc).ok /\ IsText(machine.doc)
        /\ machine'.doc = Apply(Parsed(c), machine.doc).doc
    BY <1>2, <1>6, UpdatedIs
  <2>2. SectionAfter(Parsed(c), machine.doc, machine'.doc)
    BY <2>1, CommandsAreLocal, Zenon
  <2>3. Parsed(c).cmd = "set" /\ Parsed(c).key = c.key
    BY ParsedIs, Zenon
  <2>4. /\ t \in DOMAIN machine'.doc
        /\ c.key.index = 0 => machine'.doc[t].kind = "table"
    BY <2>2, <2>3, Zenon DEF SectionAfter
  <2>5. t = Machine
    BY <2>4
  <2>6. ctx.file = "none" /\ ctx.efi = "found"
    BY <1>6, <2>5 DEF target_path
  <2>7. m = machine'
    BY <2>6 DEF OfMachine
  <2>8. machine'.doc[t].kind = "table"
    <3>1. t = "machine"
      BY <2>5, ReadersAssumption
    <3>2. c.key.index = 0
      BY <3>1, SchemaIs DEF KnownField
    <3> QED BY <2>4, <3>2
  <2>9. t \notin DOMAIN s.doc
    <3>1. FitTogether(m, s)
      BY <1>1, <1>4, ReadableIs
    <3> HIDE DEF m, s
    <3> QED BY <2>4, <2>7, <2>8, <3>1 DEF FitTogether
  <2> HIDE DEF m, s
  <2>10. lookup(load_from_paths(m, s).cfg, c.key) = parse_value(c.value)
    BY <1>1, <1>2, <1>4, <1>6, <2>7, <2>9, SetIsFound
  <2> QED BY <1>1, <2>10
<1> QED BY <1>5, <1>6 DEF Write

\* get after set, with the same options.
LEMMA GetAfterSet ==
  ASSUME ReaderInv, ReaderInv', NEW c \in CommandLines, NEW ctx \in Ctx, Write(c, ctx),
         c.cmd = "set", KnownField(c.key), load(ctx)'.ok, DOMAIN machine'.doc \subseteq {Machine}
  PROVE  get(ctx, c.key, FALSE)' = [code |-> 0, out |-> parse_value(c.value).text]
<1> DEFINE loaded == load(ctx)'
           value == lookup(loaded.cfg, c.key)
<1>1. value = parse_value(c.value)
  BY SetThenFound
<1>2. value # NoValue
  BY <1>1, ParsedValue
<1>3. get(ctx, c.key, FALSE)' =
        CASE ~loaded.ok -> [code |-> 1, out |-> ""]
          [] loaded.ok /\ value = NoValue -> [code |-> IF FALSE THEN 2 ELSE 1, out |-> ""]
          [] loaded.ok /\ value # NoValue ->
               IF FALSE /\ value.type # "bool" THEN [code |-> 1, out |-> ""]
               ELSE [code |-> 0, out |-> value.text]
  BY DEF get
<1>4. loaded.ok
  OBVIOUS
<1> HIDE DEF loaded, value
<1> QED BY <1>1, <1>2, <1>3, <1>4

\* What was set is what get prints, in whichever file it was put and with the other
\* one read in front of it (store.rs target_path, load.rs, path.rs lookup).
THEOREM SetIsWhatGetPrints == ReaderSpec => SetThenGet
<1>1. ReaderInit => ReaderInv
  BY ReaderStart
<1>2. ReaderInv /\ [ReaderNext]_readerVars => ReaderInv'
  BY ReaderStep
<1>3. ReaderInv /\ ReaderInv' =>
        \A c \in CommandLines : \A ctx \in Ctx :
          /\ Write(c, ctx) /\ c.cmd = "set" /\ KnownField(c.key)
          /\ load(ctx)'.ok /\ DOMAIN machine'.doc \subseteq {Machine}
          => get(ctx, c.key, FALSE)' = [code |-> 0, out |-> parse_value(c.value).text]
  BY GetAfterSet
<1> QED BY <1>1, <1>2, <1>3, PTL DEF ReaderSpec, SetThenGet
=============================================================================

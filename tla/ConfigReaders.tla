--------------------------- MODULE ConfigReaders ---------------------------
(***************************************************************************)
(* Who reads what the commands write: the two files /etc/zebrafish.toml and *)
(* <EFI>/zebrafish.toml, changed as ConfigFile says and each command in the *)
(* file its options choose (store.rs, main.rs); the merged and typed         *)
(* configuration that get, list and validate work on (load.rs, schema.rs);   *)
(* and nbd-heal, which lists its devices and pools again in every loop and   *)
(* keeps the shell variables of earlier loops.                               *)
(*                                                                         *)
(* Text on the command line is a string, with the integer it denotes, if it *)
(* denotes one, given by IntOf.                                              *)
(***************************************************************************)
EXTENDS ConfigDoc, FiniteSets, TLC

CONSTANTS
  CommandLines, \* the set / add / remove commands that may run, with their text
  Drafts,       \* documents an editor may save
  IntOf,        \* IntOf[text]: the integer it is, for texts that are one
  FloatTexts,   \* texts that are a float and not an integer
  Watched,      \* the sections nbd-heal lists
  MaxWrites     \* bound: changes of the files

VARIABLES
  system, machine,   \* the files (ConfigFile)
  writes,            \* changes so far
  shell,             \* shell[s]: nbd-heal's variables for section s
  view               \* view[s]: the entries its loop works on

readerVars == <<system, machine, writes, shell, view>>

-----------------------------------------------------------------------------
(* schema.rs *)

\* A section: a table or an array of them, the fields it must have, and the type
\* of each field it may have.
Section(kind, required, types) == [kind |-> kind, required |-> required, types |-> types]

\* One with nothing but strings.
Texts(kind, required, optional) ==
  Section(kind, required, [f \in required \cup optional |-> "string"])

Flag == Section("table", {}, [enabled |-> "bool"])

Ssh == Section("table", {}, [port |-> "u16", keys |-> "strings"])

IpConfig ==
  Section("table", {}, [address |-> "string", broadcast |-> "string", subnet |-> "string",
                        gateway |-> "string", netmask |-> "u8", dns |-> "strings"])

WireGuardInterface ==
  Section("array", {}, [name |-> "string", private_key |-> "string", address |-> "string",
                        listen_port |-> "u16", peers |-> "peers"])

NbdClient ==
  Section("array", {"address", "device", "port"},
          [address |-> "string", device |-> "string", port |-> "u16",
           export |-> "string", timeout |-> "u16"])

Schema ==
  [s \in {"machine", "console", "headless", "rescue", "hostname", "ssh", "ipv4", "ipv6",
          "wg", "wg-server", "nbd-client", "nbd-server", "zfs-key", "zfs-mount",
          "docker-registry"} |->
     CASE s = "machine" -> Texts("table", {"id"}, {})
       [] s = "console" -> Texts("table", {}, {"keymap", "font"})
       [] s \in {"headless", "rescue"} -> Flag
       [] s = "hostname" -> Texts("table", {"name"}, {})
       [] s = "ssh" -> Ssh
       [] s \in {"ipv4", "ipv6"} -> IpConfig
       [] s \in {"wg", "wg-server"} -> WireGuardInterface
       [] s = "nbd-client" -> NbdClient
       [] s = "nbd-server" -> Texts("array", {"address", "device"}, {})
       [] s = "zfs-key" -> Texts("array", {"dataset", "key"}, {})
       [] s = "zfs-mount" -> Texts("array", {"name"}, {})
       [] s = "docker-registry" -> Texts("array", {"hostname", "username", "password"}, {})]

FieldTypes(s) == Schema[s].types

\* A typed value, with its text as get prints it.
Value(type, text) == [type |-> type, text |-> text, int |-> 0]
Integer(n) == [type |-> "integer", text |-> ToString(n), int |-> n]
NoValue == Value("none", "")

\* set.rs parse_value: the first of bool, i64 and f64 that the text parses as.
parse_value(text) ==
  CASE text \in {"true", "false"} -> Value("bool", text)
    [] text \in DOMAIN IntOf      -> Integer(IntOf[text])
    [] text \in FloatTexts        -> Value("float", text)
    [] OTHER                      -> Value("string", text)

Fits(type, value) ==
  CASE type = "u8"  -> value.type = "integer" /\ value.int \in 0..255
    [] type = "u16" -> value.type = "integer" /\ value.int \in 0..65535
    [] OTHER        -> value.type = type

TableFits(s, table) ==
  /\ Schema[s].required \subseteq DOMAIN table
  /\ \A f \in DOMAIN table \cap DOMAIN FieldTypes(s) : Fits(FieldTypes(s)[f], table[f])

\* Sections and fields the schema does not know are passed over.
Known(doc) == DOMAIN doc \cap DOMAIN Schema

SectionFits(doc, s) ==
  /\ doc[s].kind = Schema[s].kind
  /\ \A i \in DOMAIN doc[s].tables : TableFits(s, doc[s].tables[i])

\* The configuration as try_from shows it: known fields only, a flag with its
\* default.
Defaulted(s) == IF s \in {"headless", "rescue"} THEN {"enabled"} ELSE {}

Shown(s, table) ==
  [f \in DOMAIN FieldTypes(s) \cap (DOMAIN table \cup Defaulted(s)) |->
     IF f \in DOMAIN table THEN table[f] ELSE Value("bool", "false")]

Unreadable == [ok |-> FALSE, cfg |-> EmptyDoc]

\* One field that does not fit makes the whole configuration unreadable.
from_toml(doc) ==
  IF \E s \in Known(doc) : ~SectionFits(doc, s) THEN Unreadable
  ELSE [ok |-> TRUE,
        cfg |-> [s \in Known(doc) |->
                   [i \in DOMAIN doc[s].tables |-> Shown(s, doc[s].tables[i])]]]
-----------------------------------------------------------------------------
(* The options of a command, and load.rs *)

\* --file with one of the two files, or without it --efi and whether the EFI
\* directory is found.
Ctx == [file : {"system", "machine"}, efi : {"no"}]
       \cup [file : {"none"}, efi : {"no", "found", "missing"}]

\* The file a command changes, or "none" when its options do not allow it.
target_path(section, ctx) ==
  IF ctx.file # "none" THEN IF section = Machine THEN "none" ELSE ctx.file
  ELSE IF section # Machine THEN "system"
  ELSE IF ctx.efi = "found" THEN "machine" ELSE "none"

\* The texts of both files behind each other: tables of an array are appended,
\* a table that comes twice, or once as an array, is an error.
Joined(m, s) ==
  [t \in DOMAIN m \cup DOMAIN s |->
     Item(IF t \in DOMAIN m THEN m[t].kind ELSE s[t].kind, TablesOf(m, t) \o TablesOf(s, t))]

load_from_paths(m, s) ==
  IF m.st # "whole" \/ s.st # "whole"
     \/ \E t \in DOMAIN m.doc \cap DOMAIN s.doc :
          m.doc[t].kind # "array" \/ s.doc[t].kind # "array"
  THEN Unreadable
  ELSE from_toml(Joined(m.doc, s.doc))

Absent == Whole(EmptyDoc)

\* The machine file, when it is found.
Found(ctx) == IF ctx.efi = "found" THEN machine ELSE Absent

load(ctx) ==
  CASE ctx.file = "system"  -> load_from_paths(Absent, system)
    [] ctx.file = "machine" -> load_from_paths(machine, Absent)
    [] OTHER -> load_from_paths(Found(ctx), system)
-----------------------------------------------------------------------------
(* get, list and validate *)

\* Broken variant: an array is walked into at its first entry.
LookupFirst(cfg, key) ==
  IF key.section \in DOMAIN cfg /\ 1 \in DOMAIN cfg[key.section]
     /\ key.field \in DOMAIN cfg[key.section][1]
  THEN cfg[key.section][1][key.field] ELSE NoValue

\* A field of a table, or of an entry of an array.
lookup(cfg, key) ==
  LET i == IF key.index = 0 THEN 1 ELSE key.index
  IN  IF /\ key.section \in DOMAIN cfg
         /\ (key.index = 0) = (Schema[key.section].kind = "table")
         /\ i \in DOMAIN cfg[key.section] /\ key.field \in DOMAIN cfg[key.section][i]
      THEN cfg[key.section][i][key.field]
      ELSE NoValue

\* What get prints, and its exit code; --bool tells a missing key by code 2.
get(ctx, key, bool) ==
  LET value == lookup(load(ctx).cfg, key)
  IN  CASE ~load(ctx).ok -> [code |-> 1, out |-> ""]
        [] load(ctx).ok /\ value = NoValue -> [code |-> IF bool THEN 2 ELSE 1, out |-> ""]
        [] load(ctx).ok /\ value # NoValue ->
             IF bool /\ value.type # "bool" THEN [code |-> 1, out |-> ""]
             ELSE [code |-> 0, out |-> value.text]

\* Broken variant: where the EFI partition is found, its file is all that is read.
ValidateFound(ctx, only) ==
  LET loaded == IF ctx.efi = "found" THEN load_from_paths(machine, Absent) ELSE load(ctx)
  IN  /\ loaded.ok /\ Machine \in DOMAIN loaded.cfg
      /\ loaded.cfg[Machine][1]["id"].text # ""

\* validate, of both files or of one; [machine] is asked of the system file too.
validate(ctx, only) ==
  LET loaded == CASE ctx.file # "none"    -> load(ctx)
                  [] ctx.file = "none" /\ only = "machine" -> load_from_paths(Found(ctx), Absent)
                  [] ctx.file = "none" /\ only = "system"  -> load_from_paths(Absent, system)
                  [] ctx.file = "none" /\ only = "both"    -> load(ctx)
  IN  /\ loaded.ok /\ Machine \in DOMAIN loaded.cfg
      /\ loaded.cfg[Machine][1]["id"].text # ""

NoVars == [count |-> 0, var |-> EmptyTable]

\* list --format shell: the variables it prints for a section that is an array,
\* or nothing when it is unreadable, absent or empty.
list(ctx, s) ==
  IF ~load(ctx).ok \/ s \notin DOMAIN load(ctx).cfg \/ load(ctx).cfg[s] = << >> THEN NoVars
  ELSE LET tables == load(ctx).cfg[s]
       IN  [count |-> Len(tables),
            var |-> [p \in {q \in (DOMAIN tables) \X (DOMAIN FieldTypes(s)) :
                              q[2] \in DOMAIN tables[q[1]]} |-> tables[p[1]][p[2]]]]
-----------------------------------------------------------------------------
(* The commands that change a file *)

\* Values of the documents are parsed values, and so is that of a command.
Parsed(c) == [c EXCEPT !.value = parse_value(c.value)]

\* A command that fails changes nothing; one that does not is a single step of its
\* file (ConfigFile!Update).
Updated(file, c) ==
  LET result == Apply(Parsed(c), file.doc)
  IN  IF file.st = "whole" /\ result.ok THEN {Whole(result.doc)} ELSE {}

Write(c, ctx) ==
  /\ writes < MaxWrites /\ writes' = writes + 1
  /\ \/ /\ target_path(c.key.section, ctx) = "system"
        /\ system' \in Updated(system, c) /\ UNCHANGED machine
     \/ /\ target_path(c.key.section, ctx) = "machine"
        /\ machine' \in Updated(machine, c) /\ UNCHANGED system
  /\ UNCHANGED <<shell, view>>

\* A text (IsText), said without the set of all tables.
IsDraft(d) ==
  LET tables(s) == {d[s].tables[i] : i \in DOMAIN d[s].tables}
  IN  /\ d \in [DOMAIN d -> {d[s] : s \in DOMAIN d}]
      /\ \A s \in DOMAIN d :
           /\ d[s] \in [kind : {"table", "array"}, tables : Seq(tables(s))]
           /\ d[s].tables # << >> /\ (d[s].kind = "table" => Len(d[s].tables) = 1)
           /\ \A t \in tables(s) : DOMAIN t \subseteq Fields /\ t \in [DOMAIN t -> Values]

ASSUME ReadersAssumption ==
  /\ Machine = "machine"
  /\ \A c \in CommandLines : Parsed(c) \in Command
  /\ \A d \in Drafts : IsDraft(d)

Saved == {Whole(d) : d \in Drafts} \cup {Garbled}

Edit ==
  /\ writes < MaxWrites /\ writes' = writes + 1
  /\ \/ system' \in Saved /\ UNCHANGED machine
     \/ machine' \in Saved /\ UNCHANGED system
  /\ UNCHANGED <<shell, view>>
-----------------------------------------------------------------------------
(* nbd-heal *)

Plain == [file |-> "none", efi |-> "no"]

\* eval: a list that prints nothing leaves the variables alone, and one that
\* prints leaves those it has no value for.
Evaluated(s) ==
  LET printed == list(Plain, s)
  IN  IF printed = NoVars THEN shell[s]
      ELSE [count |-> printed.count,
            var |-> [p \in DOMAIN printed.var \cup DOMAIN shell[s].var |->
                       IF p \in DOMAIN printed.var THEN printed.var[p] ELSE shell[s].var[p]]]

\* "${!n:-export}" and "${!t:-180}".
OptionDefault == [export |-> Value("string", "export"), timeout |-> Integer(180)]

EntriesOf(s, variables) ==
  [i \in 1..variables.count |->
     [f \in DOMAIN FieldTypes(s) |->
        IF <<i, f>> \in DOMAIN variables.var THEN variables.var[<<i, f>>]
        ELSE IF f \in DOMAIN OptionDefault THEN OptionDefault[f] ELSE NoValue]]

\* Broken variant: the count is taken from this list alone.
DiscoverAnew(s) ==
  /\ shell' = [shell EXCEPT ![s] = [Evaluated(s) EXCEPT !.count = list(Plain, s).count]]
  /\ view' = [view EXCEPT ![s] = EntriesOf(s, shell'[s])]
  /\ UNCHANGED <<system, machine, writes>>

\* discover lists one section after the other, and the file may change between.
discover(s) ==
  /\ shell' = [shell EXCEPT ![s] = Evaluated(s)]
  /\ view' = [view EXCEPT ![s] = EntriesOf(s, Evaluated(s))]
  /\ UNCHANGED <<system, machine, writes>>

Restart ==
  /\ shell' = [s \in Watched |-> NoVars] /\ view' = [s \in Watched |-> << >>]
  /\ UNCHANGED <<system, machine, writes>>
-----------------------------------------------------------------------------
ReaderInit ==
  /\ system \in {Whole(d) : d \in Drafts} /\ machine = Absent
  /\ writes = 0
  /\ shell = [s \in Watched |-> NoVars] /\ view = [s \in Watched |-> << >>]

ReaderNext ==
  \/ \E c \in CommandLines : \E ctx \in Ctx : Write(c, ctx)
  \/ Edit
  \/ \E s \in Watched : discover(s)
  \/ Restart

ReaderSpec == ReaderInit /\ [][ReaderNext]_readerVars
-----------------------------------------------------------------------------
(* Properties *)

KnownField(key) ==
  /\ key.section \in DOMAIN Schema /\ key.field \in DOMAIN FieldTypes(key.section)
  /\ (key.index = 0) = (Schema[key.section].kind = "table")

\* What was set is what get prints for the same key and options: in whichever file
\* the command put it, and with the other file read in front of it, as long as
\* that one keeps to [machine] and everything is readable (store.rs target_path,
\* load.rs, set.rs parse_value, path.rs lookup).
SetThenGet ==
  [][\A c \in CommandLines : \A ctx \in Ctx :
       /\ Write(c, ctx) /\ c.cmd = "set" /\ KnownField(c.key)
       /\ load(ctx)'.ok /\ DOMAIN machine'.doc \subseteq {Machine}
       => get(ctx, c.key, FALSE)' = [code |-> 0, out |-> parse_value(c.value).text]]_readerVars

\* A command that respects the schema, on a section the other file does not have.
Respects(c, other) ==
  LET s == c.key.section
  IN  /\ s \in DOMAIN Schema \ DOMAIN other.doc
      /\ \/ /\ c.cmd = "set" /\ KnownField(c.key)
            /\ Fits(FieldTypes(s)[c.key.field], parse_value(c.value))
         \/ c.cmd = "add" /\ Schema[s].kind = "array" /\ Schema[s].required = {}
         \/ c.cmd = "remove" /\ c.key.field \notin Schema[s].required

\* The commands write whatever they are told and the readers refuse everything
\* when one field does not fit; a command that respects the schema never takes a
\* readable configuration away from any reader (set.rs, add.rs, remove.rs against
\* schema.rs from_toml).
StaysReadable ==
  [][\A c \in CommandLines : \A ctx \in Ctx :
       /\ Write(c, ctx)
       /\ Respects(c, IF target_path(c.key.section, ctx) = "system" THEN machine ELSE system)
       => \A reader \in Ctx : load(reader)'.ok \/ ~load(reader).ok]_readerVars

\* What validate accepts with the EFI partition at hand, the init scripts can read
\* without it, and zfs_get_machine_id finds an id (validate.rs, functions zf_get,
\* zfs_get_machine_id).
ValidatedIsServed ==
  \A ctx \in Ctx :
    ctx.file = "none" /\ validate(ctx, "both") =>
      /\ load(Plain).ok
      /\ LET id == get(ctx, [section |-> Machine, index |-> 0, field |-> "id"], FALSE)
         IN  id.code = 0 /\ id.out # ""

\* After a loop of the supervisor it works on exactly the configured entries, with
\* the fields they have, or, while the configuration is unreadable or has none, on
\* the entries it had before: no window in which the file does not parse makes it
\* drop a device (nbd-heal discover).
DiscoverIsCurrent ==
  [][\A s \in Watched :
       discover(s) =>
         LET read == load(Plain)
         IN  IF read.ok /\ s \in DOMAIN read.cfg /\ read.cfg[s] # << >>
             THEN /\ DOMAIN view'[s] = DOMAIN read.cfg[s]
                  /\ \A i \in DOMAIN read.cfg[s] : \A f \in DOMAIN read.cfg[s][i] :
                       view'[s][i][f] = read.cfg[s][i][f]
             ELSE view'[s] = view[s]]_readerVars
=============================================================================

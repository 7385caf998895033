-------------------------- MODULE MCConfigReaders --------------------------
(* ConfigReaders: ssh.port, the machine's id, the NBD clients and the pools. *)
EXTENDS ConfigReaders

Cmd(cmd, s, i, f, text) ==
  [cmd |-> cmd, key |-> [section |-> s, index |-> i, field |-> f], value |-> text]

MCIntOf == "080" :> 80 @@ "70000" :> 70000

\* Values that fit, are of another type or too large, an unknown field, a key of
\* the wrong form, and every kind of removal.
MCCommands ==
  { Cmd("set", "ssh", 0, "port", "080"), Cmd("set", "ssh", 0, "port", "70000"),
    Cmd("set", "ssh", 0, "prot", "080"), Cmd("set", "machine", 0, "id", "a71d"),
    Cmd("set", "machine", 0, "id", "1.5"), Cmd("set", "nbd-client", 1, "port", "080"),
    Cmd("set", "nbd-client", 2, "timeout", "080"), Cmd("set", "nbd-client", 0, "port", "080"),
    Cmd("add", "nbd-client", 0, NoField, ""), Cmd("add", "wg", 0, NoField, ""),
    Cmd("remove", "nbd-client", 1, NoField, ""), Cmd("remove", "nbd-client", 0, NoField, ""),
    Cmd("remove", "ssh", 0, "port", ""), Cmd("remove", "zfs-mount", 1, NoField, "") }

Client(device, timeout) ==
  "address" :> Value("string", "s") @@ "port" :> Integer(80) @@
  "device" :> Value("string", device) @@ timeout

MCDrafts ==
  { EmptyDoc,
    "rescue" :> Item("table", <<EmptyTable>>) @@
    "zfs-mount" :> Item("array", <<"name" :> Value("string", "p")>>) @@
    "nbd-client" :> Item("array", <<Client("nbd0", "timeout" :> Integer(200)),
                                    Client("nbd1", EmptyTable)>>) }

MCValues ==
  {parse_value(text) : text \in {"080", "70000", "a71d", "1.5", "", "s", "nbd0", "nbd1", "p"}}
    \cup {Integer(80), Integer(200)}
=============================================================================

# A TLA+ verification of Zebrafish

Zebrafish is a small Linux distribution for container hosts. Besides build
recipes it has a few programs of its own: a caching DNS-over-HTTPS resolver
and a configuration tool in Rust, and shell programs that set up the machine's
disk, upgrade it, supervise its network block devices and bring its compose
projects up and down. This project models those programs in TLA+, checks them
with TLC on small instances, and proves what matters most with TLAPS.

Paths below are relative to the repository. `PROJECT.json` maps each
definition to the lines it models.

## 1. Inventory

| Component | State | Operations | What is hard | What makes it correct |
|---|---|---|---|---|
| DNS answer cache (`package/zebrafish-dns/src/cache.rs`) | LRU map from question to response, insertion time, TTL | `get`, `put` | clock read outside the lock, expiry boundary, eviction, TTL fallback rules | no record outlives its bounds; handed-out TTLs are honest; capacity; LRU |
| DNS server, DoH client (`server.rs`, `doh.rs`, `query_log.rs`) | one task per UDP query, one per TCP connection, the shared cache, the log | receive, `resolve`, upstream answer, log, send | tasks interleave at every await and lock; answers overtake each other; clients go away; the upstream hangs | replies match their query and are framed whole; staleness is bounded; each query is answered once, and logged at most once; nothing but the upstream and its own client blocks a query |
| Configuration documents (`package/zebrafish-config/src/{path,set,add,remove}.rs`) | a TOML document | `apply_set`, `add_inner`, `remove_in_doc` | tables against arrays of tables, 1-based indexes, clean-up of what became empty | an update changes only what its key names |
| Configuration store (`store.rs`, `edit.rs`) | configuration file, temporary file | load, write, rename, edit | kills, full disks and power loss between system calls; two processes; a file that does not parse | an update is all or nothing; a garbled file is kept |
| EFI discovery, load, get (`efi.rs`, `load.rs`, `get.rs`; `zfs_efi_unmount` in `lib/zebrafish/functions`) | the mount of the EFI partition | look-up, mount, read, write, unmount | several programs mount and unmount it without a lock, in two modes | readers find the machine ID |
| Readers of the configuration (`schema.rs`, `load.rs`, `get.rs`, `list.rs`, `validate.rs`, and `discover` of `nbd-heal`) | the two files, the supervisor's shell variables | merge, type, `get`, `list`, `validate`, `discover` | values are typed by their text, one field that does not fit spoils everything, two files are joined, variables of earlier loops remain | what was set is what is read; what validates is served; the supervisor works on what is configured |
| NBD supervisor (`rootfs-overlay/etc/nbd-heal/nbd-heal`, after `S45nbd` and `S46mounts`) | failure count, time stamps, a repair in progress, the lock | connect and import at boot; check, attach, probe, clear, verify | devices die and return during a repair; cool-downs; restarts | the boot gets through; pools are cleared only over verified devices; what can heal does; stuck pools are reported |
| Compose (`rootfs-overlay/etc/init.d/S64compose`) | order of the projects, boot marker, the engine's containers (also of no project) and networks | `start`, `stop`, `pull` | dependencies and cycles among projects, failing commands, interruption, reboot, containerd late | providers before consumers; a stop leaves nothing; running containers survive a later start |
| Upgrade (`rootfs-overlay/lib/zebrafish/upgrade`) | EFI partition, download folder | compare, fetch, verify, copy, sync | releases published between two downloads; kill and power loss during the copy | a completed upgrade is complete; an interrupted one is repeated |
| Persistence (`lib/zebrafish/setup-persistence`) | pool, datasets, swap, overlays | find or format, create what is missing, swap, overlays | power loss between any two steps, failures that end only a subshell, devices that are late | no pool is formatted again; a set-up that was cut off is completed; changes are kept unless a warning says otherwise |
| NSS client (`package/zebrafish-dns/src/nss.rs`) and the server's way upstream (`config.rs`, `doh.rs`) | one call per program, its socket and buffer; the server's connection | `gethostbyname*_r`, connect | lost, late and misdirected datagrams, repeated calls, a server that asks itself for its upstream | every lookup ends; a success has the right addresses; no cycle the configuration did not ask for |
| WireGuard, network, service scripts, early boot, build system | - | - | - | not modelled |

How they interact: `server.rs` calls `doh.rs::resolve`, which uses the cache
under its mutex and the upstream over HTTP. Programs reach the server through
`nss.rs`, and so does the server itself when it has no bootstrap address. The scripts read their settings
from the file that `zebrafish-config` writes. `nbd-heal` watches what `S45nbd`
attached and `S46mounts` imported. `S64compose` waits for the containerd that
`S60containerd` started. `setup-persistence` reads the machine ID through
`zebrafish-config --efi`, then unmounts the EFI partition; `upgrade` mounts the
same partition elsewhere.

## 2. Modules

    DnsCache <- DnsCacheUse <- MCDnsCache          cache, and a history of its uses
    DnsCache <- DnsResolver <- MCDnsResolver       server, client and log around the cache
    DnsService                                     abstract: what becomes of a query
    DnsResolver, DnsCacheUse <- DnsProofs          the theorems on cache and server
    DnsConfig <- NssClient <- MCNssClient          the server's way upstream, and lookups of programs
    NssClient <- NssClientProofs                   the theorems on lookups
    ConfigDoc <- ConfigStore <- MCConfigStore      documents, and the files they are kept in
    ConfigDoc <- ConfigFile                        abstract: a file changed in single steps
    ConfigDoc <- ConfigReaders <- MCConfigReaders  schema, merging, and who reads the files
    ConfigStore, ConfigReaders <- ConfigProofs     the theorems on documents, files and readers
    NbdHeal <- MCNbdHeal                           the supervisor in its environment
    NbdHeal <- NbdHealProofs                       the theorems on clearing pools
    ComposeOrder <- Compose <- MCCompose           order of projects, and the commands on them
    Compose <- ComposeProofs                       the theorems on the order and the loops
    Upgrade <- MCUpgrade                           the upgrade script
    Upgrade <- UpgradeProofs                       its theorems
    EfiMount <- MCEfiMount                         who mounts the EFI partition
    EfiMount <- EfiMountProofs                     its theorems
    Persistence <- MCPersistence                   set-up of the disk at boot
    Persistence <- PersistenceProofs               its theorems

Two refinements connect them: `DnsResolver` implements `DnsService`
(`ImplementsService`), and `ConfigStore` with one writer implements `ConfigFile`
(`ImplementsConfigFile`). The modules of the callers then use the abstract steps: `NssClient` knows of the server what
`DnsService` says, `ConfigReaders` changes a file by `ConfigFile`'s steps.

(`A <- B`: B extends A.) Definitions whose comment starts with "Broken variant"
are faulty forms of the definition below them. Nothing in a specification uses
them; substituted for that definition, they make the property they are paired
with in `PROJECT.json` fail, which shows that the property depends on it.

### DnsCache, DnsCacheUse

`cache` is the map, `older` the LRU list as an order, `now` the clock in ticks;
`Sec` ticks make a second, because `Instant` is finer than TTLs. `get` is
`GetHit` and `GetMiss` (an expired entry is popped), `put` is `put`. Both run
under the mutex and are one step each. `put` takes the time at which its
insertion stamp was read, any time up to now, because the code reads it before
taking the lock. A response is abstracted to the TTLs in its answer and
additional sections, whether it parses, and whether re-encoding keeps its
length, which is all the cache distinguishes. `DnsCacheUse` adds which keys
were used since the last use of each, to state the LRU promise without the
order the cache itself keeps.

### DnsResolver

A query's task moves through the states between two awaits: received, looked
up, asked, answered, fetched, replying, sending, and prefixed between the two
writes of a TCP reply. `Receive` is the read of a UDP datagram or
of a TCP frame, which happens only when the connection's previous query is done
(`handle_tcp_connection` is sequential). `ResolveMalformed`, `ResolveHit` and
`ResolveMiss` are `resolve` up to the request, `UpstreamAnswer` and
`UpstreamFail` the upstream (external), `BodyCollected` the awaited body,
`Store` the `put` and the end of `resolve`, `Fail` the SERVFAIL path. `LogLine`
is the log: a server may have no logger, which is the default, and a line that
cannot be written is given up without a word. `Send` and `SendError` are the
datagram; over TCP `WriteLength` and `WriteReply` are the two writes of a reply,
either of which may wait for ever for a client that does not read, or fail
(`WriteError`), which ends the connection. `wire` is what was written to a
connection; a reply of 64 KiB or more gets a length cut to 16 bits. Clients close
connections at any time (`ClientClose`). A response body carries its ID, the
question it answers, its size and the time at which it was true at the upstream.
The resolver's steps are the cache's own actions. A query is seen by `DnsService`
as idle, pending, ready, then replied or lost with its client, or bad and ignored
when it does not parse; the mapping `Seen` reads that off the task. `DnsService`
has no fairness: a query may be pending for good if the upstream is silent, and
ready for good if its client does not read.

### DnsConfig, NssClient

`DnsConfig` holds the pure part of `config.rs` and `doh.rs`: the defaults that
replace a file that cannot be read, `doh_url`, `bootstrap_addrs`, and the test
by which `BootstrapConnector` decides whether to use them. The test compares the
host of the request with the URL up to its first slash, so a URL with a port
never matches and is resolved by name. So is one whose first address is of IPv6:
the connector writes it without brackets, the URI does not build, and the
original one is called.

`NssClient` is a call of `gethostbyname4_r`, `gethostbyname2_r` or
`gethostbyname_r`: the checks before the first query (`Started`), for each
record type a new socket (`Send`), the answer (`Receive`) or three seconds of
nothing (`Timeout`), and the packing, which succeeds, finds nothing, or asks for
a larger buffer, whereupon glibc (external) repeats the call. The kernel gives a
closed socket's port away again, so a late answer reaches whoever holds the port
by then; the code compares neither ID nor question. `Self` is the server when
its connector has to look up the upstream's host: it goes through the same code
and asks itself. An address is abstracted to the name and type it was published
for. Room is in bytes: `Packed` compares with it what the code takes to be needed,
and records what is written, with the padding before the list of addresses
(`Aligned`); the buffer is taken to start at an aligned address, as glibc's do.

### ConfigDoc, ConfigStore

A document maps sections to a table or an array of tables of fields. Nested
tables are abstracted away; paths keep section, index and field. An array that
has become empty is not written out (`Rendered`). `ConfigStore` gives each command the system calls of `store.rs`:
load, open (truncating) the temporary file, write, rename. The file system is
names for inodes, so a process that holds the temporary file open keeps writing
to it after another process has renamed it. `Kill`, `WriteError` and
`PowerLoss` may come at any step. After a power loss the file system is at its
last transaction group, as `/etc` is an overlay on ZFS. `edit` saves in place,
also text that does not parse. `ConfigFile` is what a reader may think happens:
one command, one step; an editor saves anything; a power loss goes back to the
last sync; a file that does not parse is replaced only by an editor.

### ConfigReaders

The two files and everything that reads them. `Schema` is `schema.rs` with the
types, the required fields and the defaults of the flags; `from_toml` refuses
the whole configuration for one field that does not fit. `parse_value` types the
text of a command line, `target_path` chooses the file to change,
`load_from_paths` joins both texts (arrays are appended, a table that comes twice
is an error), `get`, `list` and `validate` read the result, with their exit
codes. `Write` is one command on the file its options choose, `Edit` an editor,
`discover` one of the two `eval`s of `nbd-heal`, which keeps whatever the list
does not overwrite. A text is a string with the integer it denotes given by the
constant `IntOf`; formatting is kept only where `get` prints a value again
("080" is printed as 80). The specification is called `ReaderSpec`, and its
constants `CommandLines` and `Drafts`, so that one module of proofs can extend
both this module and `ConfigStore`.

### NbdHeal

At boot init runs `S45nbd` (connect every device, wait a bounded time for each),
`S46mounts` (import the pools in order) and `S48nbd-heal`. The environment
takes servers down, up, or lets them accept and hang, stalls devices or kills
them for good (a device that was disconnected cannot be re-armed without a
reboot), suspends pools; people import and export pools, attach and detach
devices, stop and start the daemon, reboot the machine. `S45nbd` asks for the
export by name and then for an anonymous one, `nbd-heal` only by name, so a device
of a server that does not know its name (`Unnamed`) is attached by the first
alone. `nbd-client` in `S45nbd` has no time limit and does not end while the
server hangs. The lock of the daemon is inherited by the commands it runs: in
`"orphan"` such a command outlives its daemon, and one started meanwhile exits.
The daemon sleeps, checks, and after
`FAIL_THRESHOLD` bad checks runs `repair`: attach every device, probe every
device, then resume the pools one by one, verify, back off. Each command the
script runs is a step, so devices may fail between any two. Time stamps are
kept as ages up to the delay they are compared with, which makes the state
space finite without bounding time.

### ComposeOrder, Compose

`order_compose_projects` is modelled pass by pass: `Visit` takes the next
pending project, `NextPass` starts over with what was put off, `OrderEnd`
appends the rest after a pass without progress. A compose file is abstracted to
the networks it declares and joins. `Compose` runs the loops of `do_start`
(clean, marker, order, create, start), `do_stop` (order, stop, down and network
removal, in reverse) and `do_pull`, one docker command per step. The engine
(external) is modelled from the commands: `create` fails on a missing external
network and may fail half-way, a network in use is not removed, a reboot turns
containers into orphaned records. Containers of no project (`other`), from
`S63coolify` or by hand, run beside them, and a project may be brought up by hand
between two commands (`UpByHand`); the cleaning of a start takes everything the
engine lists. With no compose file at all, `printf '%s\n'` of an empty list gives
one empty name and the loops have one turn in the current directory; the model
has at least one file.

### Upgrade

The server's manifest and archive are published separately. The script
compares manifests, fetches, verifies the hashes, and for each file truncates
and writes it on the partition, the manifest last, then syncs. Until then a
power loss leaves each unsynced file old, new or cut off (vfat).

### EfiMount

`zebrafish-config` walks through discovery (`find_efi_partition`, `is_mounted`,
`mount_efi`, `kernel_dir`), reads or writes, and leaves the partition mounted
read-only. `upgrade` unmounts the device, mounts it writable on a directory of
its own and cleans up in its trap. The kernel (external) refuses to mount the
partition in two modes at once. A write after the mount was dropped lands in
the bare directory (`astray`): `write_document` creates missing directories.
The history variable `calm` says of a command that no other program changed
the mounts while it ran, and that no `lsblk` or `mount` of its own failed by itself.

### Persistence

One boot is one pass through `setup-persistence`; the media (`media`, `made`,
`key`, `signed`) outlive it. A dataset is its path below the pool, so the
substring test of the script is a prefix test, and `Order` is the order in which
the script creates them. Where the script calls `fail` in a command
substitution, only the subshell ends and the model goes on as the script does:
`MountFails` leads to the search for a magic device, `SwapOnFails` to an empty
directory and, through `set -u`, to the exit in `WriteVersionFile`. The tests
`[ $? ]` and `[ $is_fresh... ]` are always true and are modelled so. `fault`
records whether a command failed that the state would have let succeed, which
separates bad luck from a state the script cannot get out of. ZFS is external:
import by name needs exactly one pool of that name, `zpool create` only knows
the imported ones and overwrites the magic header, `zfs mount -a` passes over
locked datasets, `zfs create` is durable.

## 3. Runs

| Run | Result | What it shows |
|---|---|---|
| `dns_cache` | pass | three names, two entries, all orders of look-ups, stores and ticks: `LifetimeBound`, `UpstreamTtlRespected`, `RemainingHonest`, `CapacityBound`, `RecentlyUsedKept` |
| `resolver` | pass | a UDP query beside a TCP connection with two, one cache entry for two names, with the clock: `ReplyMatchesQuery`, `BoundedStaleness`, `FramesWhole`, `NoQueryStuck` (liveness), `ImplementsService` (refinement) |
| `nss` | pass | a program that makes one lookup after the other through every entry point, beside the server's own, over all ways to configure the upstream: `SuccessIsSound`, `AsksItselfOnlyIfTold`, `LookupEnds` (liveness); no deadlock |
| `config_store` | pass | commands and editors one at a time, with kills, failing writes and power loss: `ImplementsConfigFile` (refinement) |
| `config_readers` | pass | commands that respect the schema and that do not, on both files, with every reader after each: `SetThenGet`, `StaysReadable`, `ValidatedIsServed`, `DiscoverIsCurrent` |
| `config_two_writers` | violation | two commands share `<path>.toml.tmp`; a crash can leave a file cut off, contrary to the comment in `store.rs` |
| `nbd_heal` | pass | two pools on two devices, one of which its server knows by no name: `ClearOnlyVerified`, `ClearCooldownHonoured`, and the liveness properties `BootGoesOn`, `HealsWhenPossible` and `StuckIsReported` |
| `efi_mount` | pass | a boot, two readers, a writer and two upgrades: `GetFindsId` |
| `persistence` | pass | boots cut off at any step, with failing commands (those that find, open, create, mount and swap): `InterruptedSetupRecovers`, `QuietMeansPersistent`, `PoolsSurvive`, `SecondPoolOnlyByAccident`, `SwapSizeSound` |
| `compose` | pass | three projects under all 64 dependency graphs, beside containers of no project: `OrderCorrect`, `NetworksExistAtCreate`, `ConsumersGoFirst`, `StopLeavesNothing`, `RunningSurvives` |
| `compose_orphans` | violation | when containerd is late, the boot marker is set and the orphaned records stay for this boot |
| `upgrade` | pass | publications, broken downloads, kills and power loss at any step: `CompleteIsComplete`, `InterruptedIsRetried` |

Each violation is explained under "findings" in `PROJECT.json`.

What the passing runs of the boot say includes the exceptions they had to name.
`InterruptedSetupRecovers` excepts a crash between the creation of the swap
volume and `mkswap`, after which every boot ends before the overlays, and a
machine ID that is not the vault's. `QuietMeansPersistent` excepts a vault that is
still locked, by another ID or because `zfs load-key` failed: then nothing is
mounted and the overlays lie in memory, without the warning. `GetFindsId` is
about a command whose mount no other program took away. `BootGoesOn` excepts
servers that accept a connection and hang; `HealsWhenPossible` exports without a
name; both it and `StuckIsReported` a machine that is left without a daemon.
`RunningSurvives` begins with the boot marker: before it, the cleaning takes
whatever runs. `SuccessIsSound` excepts a caller whose port had been that of
a query still unanswered: what it gets may be the addresses of another name. It
also allows for the padding that the size check leaves out. `AsksItselfOnlyIfTold`
counts an IPv6 address before the others as being told. `FramesWhole` excepts the
length of a reply of 64 KiB or more.
`StaysReadable` is about commands that respect the schema; the others make the
configuration unreadable and exit with success. `DiscoverIsCurrent` is about the
fields an entry has; those it lost stay until the daemon is restarted.

### Bounds

- Cache: three names against two entries make evictions happen with a choice of
  victim. TTLs lie below, between and above the two bounds. Two ticks a second
  and a clock up to 7 cover entries expiring on and between whole seconds.
- Resolver: a query by UDP and two on one connection are enough for one answer
  to overtake another, for closing, and for a query that waits behind its
  predecessor. One entry for two names makes evictions happen between look-up
  and store. `Lat` bounds how long a response is on its way, so that
  `BoundedStaleness` can be stated; the clock goes up to two, which is one more
  than a record lives. One answer is a byte too long for its length prefix.
- NSS: two `Ports` and a `Backlog` of two queries are what it takes for a port
  to come back while the answer to its earlier user is outstanding, with another
  query beside it. The first buffer (`FirstRoom`, 45 bytes) holds one tuple, so a
  call with two answers is repeated, and fits or just does not fit the names and
  pointers of `gethostbyname_r`, with and without padding. The number of lookups
  is not bounded.
- Store: four commands are enough for add, set, remove and a fault in
  between. `Inodes` has two more members than there are processes, so one is
  always free.
- Readers: three changes (`MaxWrites`) are enough for a section to get into both
  files, or to be added, filled and removed; the supervisor's loops and restarts
  are not bounded. The commands have values that fit, are of another type or too
  large, an unknown field, keys of the wrong form and every kind of removal.
- NBD: the delays are scaled down; interval and back-off stay below cool-down and
  hold, which are one length here (300 and 600 seconds in the script, each far
  above what a repair takes). Neither time nor the number of failures,
  restarts or repairs is bounded.
- Compose: three projects give chains, diamonds without a fourth corner and
  all short cycles; three invocations, or projects brought up by hand, and one
  reboot reach a start or stop after a failed, interrupted or cut-off one.
- Upgrade: two releases that share one of three files; three publications
  allow a return to the old release, three runs a retry of a retry.
- EFI: two readers, one writer, the boot and two upgrades; none, one or several
  partitions listed.
- Persistence: two devices, the thirteen datasets of the script, two machine
  IDs or none, any number of boots. The sizes for the swap volume are those
  around the boundaries, in units of about ten megabytes.

`CHECK_DEADLOCK FALSE` is given where behaviours end because invocations or
queries are bounded.

### Fairness

- Resolver: weak fairness of each task's own steps (`Step`): tokio polls tasks
  that are ready, and the mutex is held only within a step. The answer of the
  upstream, the end of its body and the writes to a TCP client get none, as no
  timeout bounds them; `NoQueryStuck` counts waiting for them as an end.
- NSS: weak fairness of each call's own steps, the time-out among them, which
  the socket option guarantees. Nothing is assumed of the server, which may be
  silent for ever; neither are programs assumed to make lookups.
- NBD: weak fairness of init, of the daemon and of time. The daemon is one sequential
  process whose commands are taken to end, for which `nbd-heal` runs the risky ones
  under `timeout`; `zpool clear` on a wedged pool is an exception that the hazard
  list notes. `nbd-client` in `S45nbd` is not taken to end: its step is not enabled
  while the server hangs. Servers, stalls and restarts get no
  fairness. `HealsWhenPossible` assumes instead that the transport is good from
  some time on and that people do not attach and detach devices or restart the
  daemon or the machine for ever.

The other specifications state safety only.

## 4. Proofs

TLC checks each property on one small instance; the theorems state it for every
value of the constants that satisfies the module's assumptions. Those type the
constants and say little else; what else they say is given below. Each proof
module has the same form: an inductive invariant, one lemma per action (or per
group of actions that agree on what the invariant reads), the theorem that it
holds, and from it the properties, few of which are inductive as they stand.

**DnsProofs, the cache** (all sets of keys and responses, capacities, TTL bounds
and clock resolutions; `CacheAssumption` does not assume `min_ttl <= max_ttl`):
`TypeCorrect`, `CapacityBounded`, `LifetimeBounded`, `UpstreamTtlIsRespected` and
`RemainingIsHonest`. They follow from `CacheInvariant`, that
`CacheInv == CacheTypeOK /\ CapacityBound /\ EntriesSound` is inductive. None of
the last three is inductive alone: that a hit is young says nothing about what
`put` stored. `EntriesSound` says of *every* entry that its TTL is within the
bounds, derived from its own response, and its stamp not in the future; the
clock then enters only through the comparison in `get`. `EntryTtl` is the
arithmetic of `extract_min_ttl` and `clamp`, `MinOfIsMin` gives the minimum of a
set of naturals that need not be finite. `RecentlyUsedIsKept` is the LRU promise:
`UseInv` says that the cache's order agrees with the history of uses, and that a
key gone without having expired has as many keys used since as there is room for.

**DnsProofs, the server** (any number of queries, connections and names):
`RepliesMatch` and `StalenessBounded` from `ResolverInvariant`. `TaskOK` says what
a task may carry in each state between two awaits, `EntryOK` what an entry may
hold: the answer to its own key, at most `Lat` old when it was stamped. The second
is what makes a hit safe whoever filled the cache. `FramesAreWhole` needs `WireInv`:
the queries of a connection are handled in turn (`InTurn`), the number of writes
is even between two replies (`Between`) and odd after a length, which is then the
last write and that of the reply to come (`AfterLength`); a connection closed
between the two stays as it is, because nothing is in progress on it any more
(`WhileOpen`). `ServerImplementsService` is the refinement of `DnsService`, under
the hypothesis `~PutPanics` (`min_ttl <= max_ttl`): otherwise a task dies between
its answer and its reply, and the promise is not kept.

**NssClientProofs** (any number of programs, lookups, ports and queries, any
configuration file; `ConfigAssumption` says that Cloudflare's address is one):
`SuccessHolds` and `AsksItselfIsTold`. `SuccessIsSound` is about calls that are
done; `CallSound` says the same of what a call has got so far, in any state.
`AnswersFit` is the core: whatever can still come to the port of an untainted call
answers a query for its name. It survives because sockets are not shared
(`PortsApart`) and because a call that takes a port still awaited by an answer is
tainted from then on. That what is written fits but for `Overrun` is the
arithmetic of rounding up to a multiple of `PointerSize`. For the second theorem
`NotBootstrapped` goes through every form a file can have, and `FirstIsFirst` says
what the first address that parses is.

**ConfigProofs** on documents and the store: `CommandsAreLocal`, for every document
and key: what `set`, `add` and `remove` return is a document again and differs from
the old one only at the key, and the section of the key has the kind and the fields
the command gives it (`SectionAfter`). The theorems on the store assume one process
at a time (`\A u, v \in Writers : u = v`); with two, `config_two_writers` shows them
false. `StoreInv` says that from its
load to its rename a process finds the file as it loaded it and the temporary file
as it wrote it, and that what the last transaction group holds is a file system
too. From it `StoreImplementsFile`, the refinement of `ConfigFile` through kills,
failing writes, editors and power loss. `StoreAssumption`
asks for finitely many processes and inodes with more inodes than processes need,
and for editors that save documents or text that does not parse.

**ConfigProofs** on the readers (any contents of the two files, any command lines
and options, any texts): `ValidatedServed`, `DiscoveryIsCurrent`,
`ConfigStaysReadable` and `SetIsWhatGetPrints`, one for each property of
`ConfigReaders`. `ReadersAssumption` asks that a command line, once its value is
typed, is a command on the values and fields considered, and that editors save
texts. `ReaderInv` is the inductive invariant: a file is a text or does not parse,
and the entries `nbd-heal` works on are those its shell variables denote; without
the second half nothing could be said of a loop in which the list prints nothing.
The core is `ReadableIs`: both files are readable together exactly when each fits
the schema and the sections they share are arrays in both. With it "readable" is a
condition on single sections, and `SectionAfter` says what a command does to the one
section it touches, for each of the three commands (`SetFits`, `AddFits`,
`RemoveFits`). `ConfigStaysReadable` also needs a fact about `schema.rs` itself
(`SchemaIs`): where a table, not an array, has a required field, it has no other
field, so a `set` that creates the table cannot leave a required field out.

**NbdHealProofs** (any number of devices and pools, any delays): `ClearsAreVerified`
and `CooldownIsHonoured`. `ProbesCount` gives the flag `all_ok` its meaning: while
it is set, a device is still to be probed or has answered. `StampIsLast` says that
the one time stamp is at least as recent as the last clear of each pool; that it is
unset during boot is needed for the start of the daemon, which forgets it.

**ComposeProofs** (any number of projects and networks and all dependencies; there
is at least one compose file):
`OrderIsCorrect`, that `OrderCorrect` is an invariant of the *composed*
specification, with failing commands, interruptions and reboots. While the
passes run, the inductive invariant `OrderInv` keeps `Partition` (each project
is in exactly one of the three lists, once), `OrderedReady` (what was ordered
comes after its providers) and `StillNotReady` (in a pass that has ordered
nothing, what was put off is still not ready). The last is the core: at
`OrderEnd` it makes the projects left over a set in which each waits for a
network only the set declares (`PutOffIsDeadlocked`), so no order could have
done better. `ScriptInv` adds the loops: the networks of the projects a start has
passed exist (`CreatedSoFar`), those of the projects a stop has passed are gone
(`DownSoFar`), and no loop runs between two commands (`IdleOK`). From it
`CreateFindsNetworks`, `StopTakesConsumersFirst`, `StopIsComplete` and
`RunningIsKept`.

**UpgradeProofs** (any files, releases and hashes): `CompleteHolds` and
`RetriedHolds`. `ManifestVouches` is the core of `UpgradeInv`: when the partition
has the manifest of the release written last, it has its files. It needs
`ManifestLast`, that the manifest differs from the new one until all files are
written, and a case for each way a power loss can leave an unsynced file.

**EfiMountProofs** (any number of commands and upgrades): `GetFinds`. `Calm` says of a command that no other program has
disturbed what each of its steps has found.

**PersistenceProofs** (any devices and sizes, any number of boots, cut off at any
step): `SetupRecovers`, `QuietIsPersistent`, `SwapIsSound`, `PoolsAreKept` and
`NoSecondPool`. `PersistenceInv` says what is on the media (`DiskOK`, `VaultOK`: a
dataset has the ones that hold it, which is what makes the script's substring test
right, and a vault has a key) and what the boot has found, made and mounted at each
step (`DeviceOK`, `DatasetsOK`, `MountsOK`); an open vault has the machine's ID, and
one that is closed without a fault has another. `SwapIsSound` is arithmetic with integer division, for all sizes.

Only model-checked:

- Liveness, which is out of the prover's reach: `NoQueryStuck`, `LookupEnds`,
  `BootGoesOn`, `HealsWhenPossible` and `StuckIsReported`.
- Two writers of the configuration at once, where the properties do not hold.

## 5. Not modelled

- `S44wg`: a straight-line script that turns the configuration into commands.
- `path` of `zebrafish-config`, which prints file names; the peers of a WireGuard
  interface and other tables within tables; the tables that `list` prints for
  people.
- The contents of the caller's buffer in `nss.rs` beyond their sizes, and a buffer
  that does not start at an aligned address.
- Socket binding, TLS, HTTP, the DNS wire format, the text of the log:
  libraries or text.
- The effect of a configuration that changes on the repairs of `nbd-heal`
  (`ConfigReaders` has its `discover`, `NbdHeal` fixed devices and pools), and
  steps of the wall clock.
- Several upgrades at once in `Upgrade`, whose runs have the partition to
  themselves: the script has no lock, and the second unmounts the partition under
  the first (a step of `EfiMount`).
- An empty list of compose files, which gives each loop of `S64compose` one turn
  in the current directory.
- Keys and mounts of the datasets of other pools in `S46mounts`, whose failures
  are only printed.
- Panics on `min_ttl > max_ttl`: a branch of `DnsResolver`, not reached in the
  listed runs. The proofs about the cache include such configurations.
- Network set-up, service wrappers, early boot, build recipes.

## 6. Observations

Met while modelling, outside what the runs check:

- `package/zebrafish-dns/src/config.rs:116`: a custom DoH URL always gets
  Cloudflare's address as its bootstrap, so a custom provider without a port in
  its URL cannot be reached (`DnsConfig!CanConnect`).
- `upgrade`: after an interrupted installation and a return of the server to the
  old release, the manifests agree and the script says "No update required."
  although the files on the partition differ.
- `set` of a field the schema does not know succeeds, and `get` then finds
  nothing; a text that looks like a number, set in a text field, makes the whole
  configuration unreadable.
- `package/zebrafish-config/src/load.rs:46` says that of keys in both files
  "later occurrences win", and line 63 that the schema enforces what each file
  may hold; a table in both is an error of the parser, and nothing enforces it.
- `schema.rs:95` says a flag's presence implies `enabled = true`; its default is
  false.
- `validate --system` asks for `[machine]`, which belongs to the other file.
- The comments in `lib/zebrafish/functions` say that `zf_get` reads the merged
  files and that `zfs_get_machine_id` alone does not touch
  `/etc/zebrafish.toml`; the first passes no `--efi`, the second reads both.
- `nss.rs:264`: the space needed leaves out the padding of lines 301-302, so a
  success of `gethostbyname2_r` may write up to 7 bytes past the buffer it was given.
- `doh.rs:50` writes an IPv6 bootstrap address without brackets. The URI does not
  build, and line 59 falls back to resolving the upstream by name, through this very
  server.
- `server.rs:278` cuts the length of a TCP reply to 16 bits; one of 64 KiB or more
  reaches its client with a length that is not its own.
- `store.rs:1` says "Atomic read-modify-write helpers"; two commands at once lose
  updates, as nothing is locked from the load at line 41 to the rename.
- `store.rs:13` says that `[machine]` "is always written to the EFI file", and the
  error at line 31 sends users to `--efi`; `efi.rs:88` mounts the partition
  read-only, so the write fails unless another program took the mount away
  meanwhile, and then it goes to the directory under `/run`.
- `nbd-heal:221`: the commands of the daemon inherit its lock. `S48nbd-heal restart`
  kills the daemon and not its `sleep`, so the new daemon usually finds the lock
  taken and exits with 0.
- `nbd-heal:126` attaches by name only; `S45nbd:78` also tries an anonymous export.
  A device of a server without names, once detached, is not attached again.
- `S45nbd:75` runs `nbd-client` without a time limit, and a server that accepts and
  never negotiates hangs the boot there.
- `setup-persistence:56` ignores a failing `zfs load-key`, and that boot keeps its
  changes in memory without the warning.
- `S64compose:133` removes every container of the engine, those of no project and
  those already running included, before the first start of a boot.
- Two `upgrade`s at once have no lock between them: one unmounts the partition
  under the other.
- `S44wg` counts its interfaces with `grep -c '^WG_COUNT='`, which is 1 for any
  number of them; `INSTALL.md` documents several.

## 7. Plan

Done, with proofs of all their safety properties: DnsCache;
DnsResolver on top of it, with DnsService; NssClient over DnsConfig; ConfigDoc,
ConfigStore with ConfigFile, and ConfigReaders; NbdHeal with the boot scripts before
it; ComposeOrder, Compose; Upgrade; EfiMount; Persistence.

Next modules: an abstract specification of the persistent disk (set up, or set-up
resumes) that Persistence implements, and one of an upgrade (old release, new
release, or to be repeated) that Upgrade implements.

Next theorems: the refinements of the two abstract specifications above.

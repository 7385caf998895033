----------------------------- MODULE NssClient -----------------------------
(***************************************************************************)
(* Name lookups of programs through libnss_zebrafish (nss.rs), which asks   *)
(* the local zebrafish-dns over UDP, one record type after the other, and   *)
(* the way that server gets to its upstream (DnsConfig): when it cannot use *)
(* a bootstrap address it looks the host up like any other program, which   *)
(* is to say by asking itself.  Of the server this module keeps the promise *)
(* of DnsService: one answer at most to each query, at any time.            *)
(*                                                                         *)
(* An address is the name and the type it was published for; the caller's   *)
(* buffer is its size and how much of it was written, in bytes.  Datagrams  *)
(* may get lost, answers come at any time or never, and the kernel hands    *)
(* out the port of a closed socket again.                                   *)
(***************************************************************************)
EXTENDS DnsConfig, Integers, FiniteSets

CONSTANTS
  Apps,        \* programs, each making one lookup after the other
  Self,        \* zebrafish-dns, when it looks up the host of its upstream
  Lookups,     \* what programs look up: a name, and the entry point they call
  OwnLookup,   \* what Self looks up
  Localhost, NotUtf8,
  Ports,       \* bound: the ports the kernel has to give
  Backlog,     \* bound: queries 1..n that the server may have at a time
  Files,       \* what the configuration file of the server may hold
  NameLen,     \* the bytes of a name, its terminator included
  FirstRoom    \* the buffer of the first call

Callers == Apps \cup {Self}
NoPort == 0

ASSUME NssAssumption ==
  /\ Self \notin Apps /\ Ports \subseteq Nat \ {NoPort}
  /\ Backlog \subseteq Nat /\ FirstRoom \in Nat \ {0}
  /\ \A lookup \in Lookups \cup {OwnLookup} : NameLen[lookup.name] \in Nat
  /\ \A file \in Files \ {Unreadable} : \A p \in DOMAIN file.providers :
       DOMAIN file.providers[p].bootstrap \subseteq Nat

VARIABLES
  call,       \* call[c]: how far the lookup of c got
  ask,        \* ask[q]: what q asks, the port its answer goes to
  upstream,   \* there is a connection to the upstream
  config,     \* the file the server was started with
  listening   \* "no" (not started), "udp", or "other" (not on UDP)

vars == <<call, ask, upstream, config, listening>>

NoAsk == [name |-> Localhost, type |-> "none", port |-> NoPort]

\* A call with nothing done yet.
Entered(pc, lookup, todo, status) ==
  [pc |-> pc, lookup |-> lookup, todo |-> todo, got |-> {}, port |-> NoPort,
   room |-> FirstRoom, wrote |-> 0, tainted |-> FALSE, status |-> status]

Idle == Entered("idle", OwnLookup, << >>, "none")

Outstanding == {q \in Backlog : ask[q] # NoAsk}
PortsInUse == {call[c].port : c \in Callers}
-----------------------------------------------------------------------------
(* libnss_zebrafish: query_local_dns and the entry points *)

\* gethostbyname4_r asks for both types; the others for that of their family.
Types(lookup) ==
  CASE lookup.via = "addrinfo" -> <<"A", "AAAA">>
    [] lookup.via = "inet" -> <<"A">>
    [] lookup.via = "inet6" -> <<"AAAA">>
    [] OTHER -> << >>

TypesOf(lookup) == {Types(lookup)[i] : i \in DOMAIN Types(lookup)}

\* A call, after the checks before its first query.
Started(lookup) ==
  IF lookup.name = NotUtf8 THEN Entered("done", lookup, << >>, "Unavail")
  ELSE IF lookup.name = Localhost \/ Types(lookup) = << >>
       THEN Entered("done", lookup, << >>, "NotFound")
       ELSE Entered("query", lookup, Types(lookup), "none")

Begin(c) ==
  /\ c \in Apps /\ call[c].pc \in {"idle", "done"}
  /\ \E lookup \in Lookups : call' = [call EXCEPT ![c] = Started(lookup)]
  /\ UNCHANGED <<ask, upstream, config, listening>>

\* query_local_dns returned addrs, none of them after an error or a time-out: on
\* to the next type, or to the caller's buffer.
Returned(c, addrs) ==
  [call EXCEPT ![c].pc = IF Len(call[c].todo) > 1 THEN "query" ELSE "pack",
               ![c].todo = Tail(@), ![c].got = @ \cup addrs, ![c].port = NoPort]

\* A new socket for each query; the server may not get the datagram.  A caller
\* is tainted when an answer to an earlier user of its port is still to come.
Send(c) ==
  /\ call[c].pc = "query"
  /\ \E port \in Ports \ PortsInUse :
       /\ call' = [call EXCEPT ![c].pc = "recv", ![c].port = port,
                               ![c].tainted = @ \/ \E q \in Outstanding : ask[q].port = port]
       /\ \/ /\ listening = "udp" /\ Outstanding # Backlog
             /\ LET q == CHOOSE r \in Backlog : r \notin Outstanding
                IN  ask' = [ask EXCEPT ![q] = [name |-> call[c].lookup.name,
                                               type |-> Head(call[c].todo),
                                               port |-> port]]
          \/ UNCHANGED ask
  /\ UNCHANGED <<upstream, config, listening>>

\* No socket, or the datagram cannot be sent.
SendFails(c) ==
  /\ call[c].pc = "query"
  /\ call' = Returned(c, {})
  /\ UNCHANGED <<ask, upstream, config, listening>>

\* Broken variant: a read that timed out is repeated.
ReadAgain(c) == call[c].pc = "recv" /\ UNCHANGED vars

\* Three seconds without a datagram.
Timeout(c) ==
  /\ call[c].pc = "recv"
  /\ call' = Returned(c, {})
  /\ UNCHANGED <<ask, upstream, config, listening>>

\* The answer goes to the buffer, or the caller is told to come back with a
\* larger one, which glibc does at once: all queries are made again.
Packed(c, needed, written) ==
  LET v == call[c]
  IN  [call EXCEPT ![c] =
         IF v.got = {} THEN [v EXCEPT !.pc = "done", !.status = "NotFound"]
         ELSE IF needed > v.room
              THEN [v EXCEPT !.pc = "query", !.todo = Types(v.lookup), !.got = {},
                             !.room = 2 * v.room]
              ELSE [v EXCEPT !.pc = "done", !.status = "Success", !.wrote = written]]

\* sizeof(GaiAddrTuple), the size of a pointer, and that of an address.
TupleSize == 40
PointerSize == 8
addr_size(lookup) == IF lookup.via = "inet" THEN 4 ELSE 16

\* A tuple for each address ...
gethostbyname4_r(c) ==
  /\ call[c].pc = "pack" /\ call[c].lookup.via = "addrinfo"
  /\ LET tuples == TupleSize * Cardinality(call[c].got)
     IN  call' = Packed(c, tuples, tuples)
  /\ UNCHANGED <<ask, upstream, config, listening>>

\* The next place for a pointer.
Aligned(offset) == ((offset + PointerSize - 1) \div PointerSize) * PointerSize

\* ... or the name and the addresses, and then, where a pointer may stand, the list
\* of the addresses and that of the aliases, each with its end.  What is needed
\* does not count the way to that place.
gethostbyname_r(c) ==
  /\ call[c].pc = "pack" /\ call[c].lookup.via # "addrinfo"
  /\ LET n == Cardinality(call[c].got)
         data == NameLen[call[c].lookup.name] + addr_size(call[c].lookup) * n
         lists == (n + 2) * PointerSize
     IN  call' = Packed(c, data + lists, Aligned(data) + lists)
  /\ UNCHANGED <<ask, upstream, config, listening>>

\* Broken variant: every address of the answer is taken.
ReceiveAnyType(port, records) ==
  LET c == CHOOSE d \in Callers : call[d].port = port
  IN  IF port \in PortsInUse THEN call' = Returned(c, records) ELSE UNCHANGED call

\* The first datagram that comes to the port is the answer, whatever its ID and
\* question; of its records those of the type asked for are taken.
Receive(port, records) ==
  LET c == CHOOSE d \in Callers : call[d].port = port
  IN  IF port \in PortsInUse
      THEN call' = Returned(c, {r \in records : r.type = Head(call[c].todo)})
      ELSE UNCHANGED call
-----------------------------------------------------------------------------
(* zebrafish-dns *)

\* main and DnsServer::run: a socket that cannot be bound is passed over, so the
\* server may run on without the one for UDP, or end without any.
Run ==
  /\ listening = "no" /\ listening' \in {"udp", "other"}
  /\ UNCHANGED <<call, ask, upstream, config>>

\* With a bootstrap address the server connects on its own.
Connect ==
  /\ ~upstream /\ Outstanding # {}
  /\ Bootstrapped(load(config)) /\ CanConnect(load(config))
  /\ upstream' = TRUE
  /\ UNCHANGED <<call, ask, config, listening>>

\* Without one HttpConnector resolves the host, one lookup at a time; the other
\* requests wait for the connection.
ConnectByName ==
  /\ ~upstream /\ Outstanding # {} /\ ~Bootstrapped(load(config))
  /\ call[Self].pc = "idle" /\ call' = [call EXCEPT ![Self] = Started(OwnLookup)]
  /\ UNCHANGED <<ask, upstream, config, listening>>

\* Whatever came of it, the next source of nsswitch.conf may know the host.
ConnectedByName ==
  /\ call[Self].pc = "done" /\ call' = [call EXCEPT ![Self] = Idle]
  /\ upstream' \in BOOLEAN
  /\ UNCHANGED <<ask, config, listening>>

Disconnect ==
  /\ upstream /\ upstream' = FALSE
  /\ UNCHANGED <<call, ask, config, listening>>

\* Without a connection the request fails and the answer is a SERVFAIL, without
\* records; with one, the answer may have an address or not.
Records(q) ==
  {{}} \cup IF upstream THEN {{[name |-> ask[q].name, type |-> ask[q].type]}} ELSE {}

\* The answer comes to whoever has the port now, or gets lost, which to a client
\* is the same as a reply the server could not send.
Reply(q) ==
  /\ q \in Outstanding
  /\ \/ \E records \in Records(q) : Receive(ask[q].port, records)
     \/ UNCHANGED call
  /\ ask' = [ask EXCEPT ![q] = NoAsk]
  /\ UNCHANGED <<upstream, config, listening>>
-----------------------------------------------------------------------------
Init ==
  /\ call = [c \in Callers |-> Idle]
  /\ ask = [q \in Backlog |-> NoAsk]
  /\ upstream = FALSE /\ config \in Files /\ listening = "no"

\* What a lookup does once it has begun.
Step(c) == Send(c) \/ SendFails(c) \/ Timeout(c)
           \/ gethostbyname4_r(c) \/ gethostbyname_r(c)

Next ==
  \/ \E c \in Callers : Begin(c) \/ Step(c)
  \/ \E q \in Backlog : Reply(q)
  \/ Run \/ Connect \/ ConnectByName \/ ConnectedByName \/ Disconnect

\* Programs run on and sockets time out; of the server nothing is assumed.
Fairness == \A c \in Callers : WF_vars(Step(c))

Spec == Init /\ [][Next]_vars /\ Fairness
-----------------------------------------------------------------------------
(* Properties *)

\* What an entry point may write past the end of the buffer: what it needs leaves
\* out the padding before the address list.
Overrun(lookup) == IF lookup.via = "addrinfo" THEN 0 ELSE PointerSize - 1

\* A lookup that succeeds has at least one address, stays within the buffer but
\* for that padding, and has only addresses of the family the entry point is for,
\* all of the name looked up unless its port had been that of a query whose answer
\* was still to come: replies are told apart by the port alone (nss.rs
\* query_local_dns, gethostbyname4_r, gethostbyname_r).
SuccessIsSound ==
  \A c \in Callers :
    call[c].status = "Success" =>
      /\ call[c].got # {}
      /\ call[c].wrote <= call[c].room + Overrun(call[c].lookup)
      /\ \A a \in call[c].got :
           /\ a.type \in TypesOf(call[c].lookup)
           /\ ~call[c].tainted => a.name = call[c].lookup.name

\* Every lookup ends, with the server silent, answering late, gone, or waiting
\* for this very lookup; so do the calls repeated with a larger buffer (nss.rs
\* QUERY_TIMEOUT, the ERANGE returns).
LookupEnds == \A c \in Callers : call[c].pc = "query" ~> call[c].pc = "done"

\* "avoids chicken-and-egg problem" (doh.rs): the server depends on itself only
\* when its file says so, with a port in the URL or, for the provider it names, no
\* address that parses or one of IPv6 before the others; no unreadable file and no
\* unknown provider does it.
AsksItselfOnlyIfTold ==
  call[Self].pc # "idle" =>
    /\ config # Unreadable
    /\ \/ doh_url(config).port
       \/ /\ config.provider \in DOMAIN config.providers
          /\ LET addrs == config.providers[config.provider].bootstrap
                 parse == {i \in DOMAIN addrs : addrs[i] # NotIp}
             IN  parse = {} \/ \E i \in parse : addrs[i].v6 /\ \A j \in parse : i <= j
=============================================================================

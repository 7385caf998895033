---------------------------- MODULE DnsResolver ----------------------------
(***************************************************************************)
(* The zebrafish-dns server: concurrent client queries (server.rs), each   *)
(* resolved through the shared cache or the DNS-over-HTTPS upstream        *)
(* (doh.rs), logged if there is a query log (query_log.rs) and answered.   *)
(* A UDP datagram is a task of its own; the queries of a TCP connection    *)
(* run one after the other, and each reply is two writes to it.  Tasks     *)
(* interleave at every await and around every lock: the lookup, the        *)
(* request, reading the body, the store, the log line and each write.      *)
(*                                                                         *)
(* The bytes of a response that the cache does not look at are             *)
(*   id, key  the message ID and the question answered,                    *)
(*   asOf     when the upstream produced it,                               *)
(*   size     its length in bytes.                                         *)
(***************************************************************************)
EXTENDS DnsCache, Sequences

CONSTANTS
  Queries,   \* client queries; each stands for its own message ID
  Conns,     \* TCP connections
  Via,       \* Via[q]: the connection of q, or Udp
  Udp,
  No,        \* No[q]: the place of q among the queries of its connection
  NoKey,     \* "key" of a well-formed message without a question
  NoBody,    \* a task that holds no response
  Lat,       \* bound on the way of an answer from the upstream to us, in ticks
  ServfailSize  \* length of a SERVFAIL: a header and the question it repeats

Message == [id : Queries, key : Keys \cup {NoKey}, asOf : Nat, size : Nat]

\* A response as a task holds it: the TTLs may have been adjusted, the ID replaced.
Body == [parses : BOOLEAN, fits : BOOLEAN, data : Message,
         answers : SUBSET Nat, additionals : SUBSET Nat]

ASSUME ResolverAssumption ==
  /\ Via \in [Queries -> Conns \cup {Udp}] /\ Udp \notin Conns
  /\ No \in [Queries -> Nat]
  /\ \A p, q \in Queries : p # q /\ Via[p] = Via[q] /\ Via[q] # Udp => No[p] # No[q]
  /\ NoKey \notin Keys /\ NoBody \notin Body /\ Lat \in Nat
  /\ ServfailSize \in Nat
  /\ \A r \in Responses : r.data \in Message

VARIABLES
  task,    \* task[q]: where the handling of q stands, and what it holds
  conn,    \* conn[c]: "open", "eof" (the client closed its side) or "closed"
  log,     \* log[q]: lines the query log has for q
  wire     \* wire[c]: what was written to connection c, write by write

outVars == <<log, wire>>
vars == <<cache, older, now, task, conn, log, wire>>

Stages ==
  { "idle",      \* not received
    "received",  \* read from the socket, about to be resolved
    "asked",     \* the POST is out; nothing bounds the wait
    "answered",  \* a successful answer began to arrive; nor does anything here
    "fetched",   \* body collected, TTL computed, Instant read; not stored
    "failed",    \* resolve returned an error
    "replying",  \* resolve returned, or a SERVFAIL was built
    "sending",   \* the log has been told
    "prefixed",  \* TCP: the length of the reply is written, the reply is not
    "sent", "lost", "dropped", "panicked" }

Over == {"sent", "lost", "dropped", "panicked"}

Task == [st : Stages, wf : BOOLEAN, key : Keys \cup {NoKey},
         body : Body \cup {NoBody}, at : Nat,
         kind : {"none", "cached", "upstream", "servfail"}]

\* A task that is over, and what it held is gone.
Ended(q, how) ==
  [task[q] EXCEPT !.st = how, !.key = NoKey, !.body = NoBody, !.at = 0, !.kind = "none"]

-----------------------------------------------------------------------------
(* Receiving: serve_udp, and the read half of handle_tcp_connection *)

InProgress(q) == task[q].st \notin Over \cup {"idle"}

CanReceive(q) ==
  Via[q] # Udp =>
    /\ conn[Via[q]] # "closed"
    /\ \A p \in Queries : Via[p] = Via[q] =>
         ~InProgress(p) /\ (No[p] < No[q] => task[p].st # "idle")

Receive(q) ==
  /\ task[q].st = "idle" /\ CanReceive(q)
  /\ \E wf \in BOOLEAN, key \in Keys \cup {NoKey} :
       /\ ~wf => key = NoKey
       /\ task' = [task EXCEPT ![q].st = "received", ![q].wf = wf, ![q].key = key]
  /\ UNCHANGED <<cacheVars, conn, outVars>>

\* The client shuts its side of a connection, at any time; what it sent before can
\* still be read.
ClientClose(c) ==
  /\ conn[c] = "open"
  /\ conn' = [conn EXCEPT ![c] = "eof"]
  /\ UNCHANGED <<cacheVars, task, outVars>>

\* An idle connection reads end of file (or a zero length prefix): it is left.
ReadEof(c) ==
  /\ conn[c] # "closed"
  /\ \A q \in Queries : Via[q] = c => ~InProgress(q)
  /\ conn' = [conn EXCEPT ![c] = "closed"]
  /\ UNCHANGED <<cacheVars, task, outVars>>

\* The handler of q leaves its connection.
CloseOf(q) ==
  conn' = IF Via[q] = Udp THEN conn ELSE [conn EXCEPT ![Via[q]] = "closed"]
-----------------------------------------------------------------------------
(* DohClient::resolve *)

\* Broken variant: the ID is left as the upstream sent it.
SameId(r, q) == r

\* A response of at least two bytes gets the ID of the query it answers.
WithId(r, q) == IF r.data.size >= 2 THEN [r EXCEPT !.data.id = q] ELSE r

ResolveMalformed(q) ==
  /\ task[q].st = "received" /\ ~task[q].wf
  /\ task' = [task EXCEPT ![q].st = "failed"]
  /\ UNCHANGED <<cacheVars, conn, outVars>>

ResolveHit(q) ==
  /\ task[q].st = "received" /\ task[q].wf
  /\ task[q].key \in Keys /\ GetHit(task[q].key)
  /\ task' = [task EXCEPT ![q].st = "replying", ![q].kind = "cached",
                          ![q].body = WithId(Cached(task[q].key), q)]
  /\ UNCHANGED <<conn, outVars>>

\* There is no record of requests already out: two misses both ask.
ResolveMiss(q) ==
  /\ task[q].st = "received" /\ task[q].wf
  /\ \/ task[q].key = NoKey /\ UNCHANGED cacheVars
     \/ task[q].key \in Keys /\ GetMiss(task[q].key)
  /\ task' = [task EXCEPT ![q].st = "asked"]
  /\ UNCHANGED <<conn, outVars>>

\* The upstream answers the question it was asked.
UpstreamAnswer(q, r) ==
  /\ task[q].st = "asked"
  /\ r.data.id = q /\ r.data.key = task[q].key /\ r.data.asOf = now
  /\ task' = [task EXCEPT ![q].st = "answered", ![q].body = r]
  /\ UNCHANGED <<cacheVars, conn, outVars>>

\* No connection, an error status, or a body that breaks off.
UpstreamFail(q) ==
  /\ task[q].st \in {"asked", "answered"}
  /\ task' = [task EXCEPT ![q].st = "failed", ![q].body = NoBody]
  /\ UNCHANGED <<cacheVars, conn, outVars>>

\* The body is complete; put computes the TTL and reads the clock, then wants
\* the lock.  A panic in the clamp ends the task, and with it a connection.
BodyCollected(q) ==
  /\ task[q].st = "answered"
  /\ IF PutPanics /\ task[q].key # NoKey
     THEN /\ task' = [task EXCEPT ![q] = Ended(q, "panicked")]
          /\ CloseOf(q)
     ELSE /\ task' = [task EXCEPT ![q].st = "fetched", ![q].at = now]
          /\ UNCHANGED conn
  /\ UNCHANGED <<cacheVars, outVars>>

\* Broken variant: the life of the entry starts when the lock is obtained.
StoreStampsLate(q) ==
  /\ task[q].st = "fetched"
  /\ \/ task[q].key = NoKey /\ UNCHANGED cacheVars
     \/ task[q].key \in Keys /\ put(task[q].key, task[q].body, now)
  /\ task' = [task EXCEPT ![q].st = "replying", ![q].kind = "upstream",
                          ![q].body = WithId(task[q].body, q), ![q].at = 0]
  /\ UNCHANGED <<conn, outVars>>

Store(q) ==
  /\ task[q].st = "fetched"
  /\ \/ task[q].key = NoKey /\ UNCHANGED cacheVars
     \/ task[q].key \in Keys /\ put(task[q].key, task[q].body, task[q].at)
  /\ task' = [task EXCEPT ![q].st = "replying", ![q].kind = "upstream",
                          ![q].body = WithId(task[q].body, q), ![q].at = 0]
  /\ UNCHANGED <<conn, outVars>>
-----------------------------------------------------------------------------
(* Answering: the write half of the handlers *)

\* Broken variant: the handler waits for good on a query it cannot answer.
FailWellFormedOnly(q) ==
  /\ task[q].st = "failed" /\ task[q].wf
  /\ task' = [task EXCEPT ![q].st = "replying", ![q].kind = "servfail"]
  /\ UNCHANGED <<cacheVars, conn, outVars>>

\* Broken variant: an upstream that fails leaves its client without a reply.
FailSilently(q) ==
  /\ task[q].st = "failed"
  /\ task' = [task EXCEPT ![q] = Ended(q, "dropped")]
  /\ CloseOf(q)
  /\ UNCHANGED <<cacheVars, outVars>>

\* A SERVFAIL for a query that parses; nothing for one that does not, and its
\* connection is left.
Fail(q) ==
  /\ task[q].st = "failed"
  /\ IF task[q].wf
     THEN /\ task' = [task EXCEPT ![q].st = "replying", ![q].kind = "servfail"]
          /\ UNCHANGED conn
     ELSE /\ task' = [task EXCEPT ![q] = Ended(q, "dropped")]
          /\ CloseOf(q)
  /\ UNCHANGED <<cacheVars, outVars>>

\* No line without a logger (the default), with one that is disabled, or when its
\* write fails, which nobody notices.
LogLine(q) ==
  /\ task[q].st = "replying"
  /\ \/ log' = [log EXCEPT ![q] = @ + 1]
     \/ log' = log
  /\ task' = [task EXCEPT ![q].st = "sending"]
  /\ UNCHANGED <<cacheVars, conn, wire>>

\* UDP: one datagram.
Send(q) ==
  /\ task[q].st = "sending" /\ Via[q] = Udp
  /\ task' = [task EXCEPT ![q] = Ended(q, "sent")]
  /\ UNCHANGED <<cacheVars, conn, outVars>>

SendError(q) ==
  /\ task[q].st = "sending" /\ Via[q] = Udp
  /\ task' = [task EXCEPT ![q] = Ended(q, "lost")]
  /\ UNCHANGED <<cacheVars, conn, outVars>>

\* The length of the reply of q.
ReplySize(q) ==
  IF task[q].kind = "servfail" THEN ServfailSize ELSE task[q].body.data.size

\* A length has two bytes.
U16 == 65536
as_u16(n) == n % U16

\* What one write puts on a connection: the length of a reply, as a u16, or a reply.
Chunk == [part : {"length", "reply"}, of : Queries, n : Nat]

Write(q, part, n) ==
  wire' = [wire EXCEPT ![Via[q]] = Append(@, [part |-> part, of |-> q, n |-> n])]

\* TCP: the length first ...
WriteLength(q) ==
  /\ task[q].st = "sending" /\ Via[q] # Udp
  /\ Write(q, "length", as_u16(ReplySize(q)))
  /\ task' = [task EXCEPT ![q].st = "prefixed"]
  /\ UNCHANGED <<cacheVars, conn, log>>

\* ... then the reply.
WriteReply(q) ==
  /\ task[q].st = "prefixed"
  /\ Write(q, "reply", ReplySize(q))
  /\ task' = [task EXCEPT ![q] = Ended(q, "sent")]
  /\ UNCHANGED <<cacheVars, conn, log>>

\* Broken variant: the handler goes on with a connection after a failed write.
WriteErrorGoesOn(q) ==
  /\ task[q].st \in {"sending", "prefixed"} /\ Via[q] # Udp
  /\ conn[Via[q]] = "eof"
  /\ task' = [task EXCEPT ![q] = Ended(q, "lost")]
  /\ UNCHANGED <<cacheVars, conn, outVars>>

\* Either write fails on a connection the client closed, and the handler leaves it.
WriteError(q) ==
  /\ task[q].st \in {"sending", "prefixed"} /\ Via[q] # Udp
  /\ conn[Via[q]] = "eof"
  /\ task' = [task EXCEPT ![q] = Ended(q, "lost")]
  /\ CloseOf(q)
  /\ UNCHANGED <<cacheVars, outVars>>
-----------------------------------------------------------------------------
\* The way back from the upstream takes at most Lat ticks.
Clock ==
  /\ \A q \in Queries :
       task[q].st = "answered" => now - task[q].body.data.asOf < Lat
  /\ Tick
  /\ UNCHANGED <<task, conn, outVars>>

Init ==
  /\ CacheInit
  /\ task = [q \in Queries |-> [st |-> "idle", wf |-> FALSE, key |-> NoKey,
                                body |-> NoBody, at |-> 0, kind |-> "none"]]
  /\ conn = [c \in Conns |-> "open"]
  /\ log = [q \in Queries |-> 0]
  /\ wire = [c \in Conns |-> <<>>]

\* The steps a task takes on its own once it is scheduled.
Step(q) ==
  \/ ResolveMalformed(q) \/ ResolveHit(q) \/ ResolveMiss(q)
  \/ Store(q) \/ Fail(q) \/ LogLine(q) \/ Send(q) \/ SendError(q)

\* The steps that wait for the client to take what is written to it.
TcpWrite(q) == WriteLength(q) \/ WriteReply(q) \/ WriteError(q)

Next ==
  \/ \E q \in Queries :
       \/ Receive(q) \/ Step(q) \/ TcpWrite(q) \/ UpstreamFail(q) \/ BodyCollected(q)
       \/ \E r \in Responses : UpstreamAnswer(q, r)
  \/ \E c \in Conns : ClientClose(c) \/ ReadEof(c)
  \/ Clock

\* tokio runs every ready task, and that is all: no timeout bounds the wait for the
\* upstream, for the end of its body or for a TCP client that does not read.
Fairness == \A q \in Queries : WF_vars(Step(q))

Spec == Init /\ [][Next]_vars /\ Fairness
-----------------------------------------------------------------------------
(* Properties *)

Replying(q) == task[q].st \in {"replying", "sending", "prefixed"}

\* Whichever query filled the cache, a reply carries the ID and answers the
\* question of the query it is sent to (doh.rs resolve; a body of fewer than two
\* bytes has no ID).
ReplyMatchesQuery ==
  \A q \in Queries :
    Replying(q) /\ task[q].kind # "servfail" =>
      /\ task[q].body.data.key = task[q].key
      /\ task[q].body.data.size >= 2 => task[q].body.data.id = q

\* A hit was true at the upstream less than max_ttl plus the way back ago, even
\* when a late answer overwrote a newer one (cache.rs put takes any order).
BoundedStaleness ==
  \A k \in Keys : Hit(k) => now - cache[k].response.data.asOf < Sec * max_ttl + Lat

\* What the server has no power over: the upstream, and a TCP client that reads.
WaitsForOthers(q) ==
  \/ task[q].st \in {"asked", "answered"}
  \/ task[q].st \in {"sending", "prefixed"} /\ Via[q] # Udp

\* The server itself never sits on a query (server.rs, doh.rs): whatever else runs,
\* and however long the upstream or a TCP client keeps another one waiting, each
\* query it received ends or waits for one of these two.
NoQueryStuck ==
  \A q \in Queries :
    task[q].st # "idle" ~> task[q].st \in Over \/ WaitsForOthers(q)

FramedAt(w, i) ==
  IF i % 2 = 1
  THEN /\ w[i].part = "length"
       /\ \A j \in 1..(i - 1) : No[w[j].of] < No[w[i].of]
  ELSE /\ w[i].part = "reply" /\ w[i].of = w[i - 1].of
       /\ w[i].n < U16 => w[i - 1].n = w[i].n

Framed(w) == \A i \in DOMAIN w : FramedAt(w, i)

\* A TCP client can cut what it reads into replies (server.rs:278-280, two writes, of
\* which the second may fail): lengths and replies alternate, each reply follows its
\* own length, nothing follows a length whose reply was not written, and the replies
\* come in the order of the queries, none twice.  A reply of 64 KiB or more does not
\* fit its length.
FramesWhole == \A c \in Conns : Framed(wire[c])

\* What a client can tell of a query.
Seen(q) ==
  CASE task[q].st = "idle" -> "idle"
    [] task[q].st \in {"sending", "prefixed"} -> "ready"
    [] InProgress(q) /\ task[q].st \notin {"sending", "prefixed"} ->
         IF task[q].wf THEN "pending" ELSE "bad"
    [] task[q].st = "sent" -> "replied"
    [] task[q].st = "lost" -> "lost"
    [] task[q].st = "dropped" /\ ~task[q].wf -> "ignored"
    [] OTHER -> "astray"

Service == INSTANCE DnsService WITH
  state <- [q \in Queries |-> Seen(q)], lines <- log

\* The server is the service its clients, and a reader of the query log, rely on
\* (server.rs, doh.rs): however its tasks interleave, a query that parses ends replied
\* or lost with its client, never silently; the log has at most one line for it,
\* written before any of the reply is.
ImplementsService == Service!Spec
=============================================================================

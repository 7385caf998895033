-------------------------- MODULE NssClientProofs --------------------------
(***************************************************************************)
(* What a lookup through libnss_zebrafish returns, and when the server asks  *)
(* itself, for any number of programs, lookups, ports and queries and every  *)
(* configuration file.                                                       *)
(***************************************************************************)
EXTENDS NssClient, FiniteSetTheorems, WellFoundedInduction, TLAPS

(* The inductive invariant *)

Wanted == Lookups \cup {OwnLookup}
Names == {lookup.name : lookup \in Wanted} \cup {Localhost}
Kinds == {"A", "AAAA"}

CallType ==
  [pc : {"idle", "query", "recv", "pack", "done"}, lookup : Wanted,
   todo : Seq(Kinds), got : SUBSET [name : Names, type : Kinds],
   port : Ports \cup {NoPort}, room : Nat, wrote : Nat, tainted : BOOLEAN,
   status : {"none", "Unavail", "NotFound", "Success"}]

AskType == [name : Names, type : Kinds, port : Ports] \cup {NoAsk}

NssTypeOK ==
  /\ call \in [Callers -> CallType] /\ ask \in [Backlog -> AskType]
  /\ upstream \in BOOLEAN /\ listening \in {"no", "udp", "other"}
  /\ config \in Files

\* A call holds a socket just while it waits, has a type left to ask for until
\* the answers are packed, and what it has got so far is already sound.
CallSound(v) ==
  /\ v.pc = "recv" <=> v.port # NoPort
  /\ v.pc \in {"query", "recv"} => v.todo # << >>
  /\ \A i \in DOMAIN v.todo : v.todo[i] \in TypesOf(v.lookup)
  /\ IsFiniteSet(v.got)
  /\ \A a \in v.got : /\ a.type \in TypesOf(v.lookup)
                      /\ ~v.tainted => a.name = v.lookup.name
  /\ v.status = "Success" => /\ v.pc = "done" /\ v.got # {}
                             /\ v.wrote <= v.room + Overrun(v.lookup)

PortsApart ==
  \A c, d \in Callers :
    call[c].port = call[d].port /\ call[c].port # NoPort => c = d

\* Whatever can still come to the port of a call that is not tainted answers a
\* query for its name.
AnswersFit ==
  \A c \in Callers : \A q \in Backlog :
    /\ call[c].port # NoPort /\ ~call[c].tainted
    /\ ask[q].port = call[c].port
    => ask[q].name = call[c].lookup.name

SelfIsTold == call[Self].pc # "idle" => ~Bootstrapped(load(config))

NssInv ==
  /\ NssTypeOK /\ PortsApart /\ AnswersFit /\ SelfIsTold
  /\ \A c \in Callers : CallSound(call[c])
-----------------------------------------------------------------------------
(* Calls on their own *)

\* The types an entry point asks for.
LEMMA TypesFacts ==
  ASSUME NEW lookup
  PROVE  /\ Types(lookup) \in Seq(Kinds)
         /\ \A i \in DOMAIN Types(lookup) : Types(lookup)[i] \in TypesOf(lookup)
<1>1. \/ Types(lookup) = <<"A", "AAAA">> \/ Types(lookup) = <<"A">>
      \/ Types(lookup) = <<"AAAA">> \/ Types(lookup) = << >>
  BY DEF Types
<1>2. /\ <<"A", "AAAA">> \in Seq(Kinds) /\ <<"A">> \in Seq(Kinds)
      /\ <<"AAAA">> \in Seq(Kinds) /\ << >> \in Seq(Kinds)
  BY DEF Kinds
<1> QED BY <1>1, <1>2 DEF TypesOf

\* A call that has got nothing yet is sound.
LEMMA EnteredFacts ==
  ASSUME NEW pc \in {"idle", "query", "done"}, NEW lookup \in Wanted,
         NEW todo \in Seq(Kinds), NEW status \in {"none", "Unavail", "NotFound"},
         pc = "query" => todo # << >>,
         \A i \in DOMAIN todo : todo[i] \in TypesOf(lookup)
  PROVE  /\ Entered(pc, lookup, todo, status) \in CallType
         /\ CallSound(Entered(pc, lookup, todo, status))
         /\ Entered(pc, lookup, todo, status).port = NoPort
         /\ Entered(pc, lookup, todo, status).pc = pc
<1>1. Entered(pc, lookup, todo, status) \in CallType
  BY NssAssumption DEF Entered, CallType
<1>2. CallSound(Entered(pc, lookup, todo, status))
  BY FS_EmptySet DEF Entered, CallSound
<1> QED BY <1>1, <1>2 DEF Entered

\* So is one that asks for nothing ...
LEMMA AsksNothing ==
  ASSUME NEW pc \in {"idle", "done"}, NEW lookup \in Wanted,
         NEW status \in {"none", "Unavail", "NotFound"}
  PROVE  /\ Entered(pc, lookup, << >>, status) \in CallType
         /\ CallSound(Entered(pc, lookup, << >>, status))
         /\ Entered(pc, lookup, << >>, status).port = NoPort
         /\ Entered(pc, lookup, << >>, status).pc = pc
<1>1. << >> \in Seq(Kinds) /\ \A i \in DOMAIN << >> : << >>[i] \in TypesOf(lookup)
  OBVIOUS
<1>2. pc \in {"idle", "query", "done"} /\ pc # "query"
  OBVIOUS
<1> QED BY <1>1, <1>2, EnteredFacts

\* ... and one that passed its first checks.
LEMMA StartedFacts ==
  ASSUME NEW lookup \in Wanted
  PROVE  /\ Started(lookup) \in CallType /\ CallSound(Started(lookup))
         /\ Started(lookup).port = NoPort
<1>1. CASE lookup.name = NotUtf8
  <2>1. Started(lookup) = Entered("done", lookup, << >>, "Unavail")
    BY <1>1 DEF Started
  <2> QED BY <2>1, AsksNothing
<1>2. CASE lookup.name # NotUtf8 /\ (lookup.name = Localhost \/ Types(lookup) = << >>)
  <2>1. Started(lookup) = Entered("done", lookup, << >>, "NotFound")
    BY <1>2 DEF Started
  <2> QED BY <2>1, AsksNothing
<1>3. CASE lookup.name # NotUtf8 /\ lookup.name # Localhost /\ Types(lookup) # << >>
  <2>1. Started(lookup) = Entered("query", lookup, Types(lookup), "none")
    BY <1>3 DEF Started
  <2> QED BY <2>1, <1>3, EnteredFacts, TypesFacts
<1> QED BY <1>1, <1>2, <1>3

\* What is left to ask for after a query.
LEMMA TailFacts ==
  ASSUME NEW s \in Seq(Kinds), s # << >>
  PROVE  /\ Tail(s) \in Seq(Kinds) /\ Len(s) \in Nat /\ Len(s) > 0
         /\ DOMAIN s = 1..Len(s) /\ DOMAIN Tail(s) = 1..(Len(s) - 1)
         /\ \A i \in 1..(Len(s) - 1) : Tail(s)[i] = s[i + 1]
         /\ Head(s) = s[1] /\ Head(s) \in Kinds
         /\ Len(s) > 1 => Tail(s) # << >>
<1>1. Len(Tail(s)) = Len(s) - 1 /\ Len(s) \in Nat /\ Len(s) > 0
  OBVIOUS
<1>2. Len(s) > 1 => Tail(s) # << >>
  <2>1. Len(<< >>) = 0
    OBVIOUS
  <2>2. Tail(s) = << >> => Len(Tail(s)) = 0
    BY <2>1, Zenon
  <2> QED BY <1>1, <2>2
<1> QED BY <1>1, <1>2

\* Answers of the type asked for, and for the name unless the call is tainted,
\* keep a call sound.
LEMMA ReturnedFacts ==
  ASSUME NssTypeOK, NEW c \in Callers, CallSound(call[c]),
         call[c].pc \in {"query", "recv"},
         NEW addrs \in SUBSET [name : Names, type : Kinds], IsFiniteSet(addrs),
         \A a \in addrs : /\ a.type = Head(call[c].todo)
                          /\ ~call[c].tainted => a.name = call[c].lookup.name
  PROVE  /\ Returned(c, addrs) \in [Callers -> CallType]
         /\ \A d \in Callers \ {c} : Returned(c, addrs)[d] = call[d]
         /\ CallSound(Returned(c, addrs)[c])
         /\ Returned(c, addrs)[c].port = NoPort
         /\ Returned(c, addrs)[c].pc # "idle"
<1> DEFINE v == call[c]
           w == [v EXCEPT !.pc = IF Len(v.todo) > 1 THEN "query" ELSE "pack",
                          !.todo = Tail(@), !.got = @ \cup addrs, !.port = NoPort]
<1>1. v \in CallType
  BY DEF NssTypeOK
<1>2. Returned(c, addrs) = [call EXCEPT ![c] = w]
  BY <1>1 DEF Returned, NssTypeOK, CallType
<1>3. v.todo \in Seq(Kinds) /\ v.todo # << >>
  BY <1>1 DEF CallSound, CallType
<1>4. /\ Tail(v.todo) \in Seq(Kinds) /\ Len(v.todo) \in Nat /\ Len(v.todo) > 0
      /\ DOMAIN v.todo = 1..Len(v.todo) /\ DOMAIN Tail(v.todo) = 1..(Len(v.todo) - 1)
      /\ \A i \in 1..(Len(v.todo) - 1) : Tail(v.todo)[i] = v.todo[i + 1]
      /\ Head(v.todo) = v.todo[1]
      /\ Len(v.todo) > 1 => Tail(v.todo) # << >>
  BY <1>3, TailFacts
<1>5. /\ w.pc = IF Len(v.todo) > 1 THEN "query" ELSE "pack"
      /\ w.todo = Tail(v.todo) /\ w.got = v.got \cup addrs /\ w.port = NoPort
      /\ w.lookup = v.lookup /\ w.room = v.room /\ w.tainted = v.tainted
      /\ w.status = v.status /\ w.wrote = v.wrote
  BY <1>1 DEF CallType
<1>6. w \in CallType
  BY <1>1, <1>4 DEF CallType
<1>7. CallSound(w)
  <2>1. \A i \in 1..Len(v.todo) : v.todo[i] \in TypesOf(v.lookup)
    BY <1>4 DEF CallSound
  <2>6. /\ Head(v.todo) \in TypesOf(v.lookup)
        /\ \A i \in DOMAIN Tail(v.todo) : Tail(v.todo)[i] \in TypesOf(v.lookup)
    BY <1>4, <2>1
  <2>2. IsFiniteSet(v.got \cup addrs)
    BY FS_Union DEF CallSound
  <2>3. \A a \in v.got \cup addrs : /\ a.type \in TypesOf(v.lookup)
                                    /\ ~v.tainted => a.name = v.lookup.name
    BY <2>6 DEF CallSound
  <2>4. w.pc = "query" => Tail(v.todo) # << >>
    BY <1>4, <1>5
  <2>5. v.status # "Success"
    BY DEF CallSound
  <2> QED BY <1>5, <2>6, <2>2, <2>3, <2>4, <2>5 DEF CallSound
<1>8. w.pc # "idle"
  BY <1>5
<1> QED BY <1>2, <1>5, <1>6, <1>7, <1>8 DEF NssTypeOK
-----------------------------------------------------------------------------
(* Steps *)

\* A program that does not hold a socket may begin its next call.
LEMMA CallReplaced ==
  ASSUME NssInv, NEW c \in Callers, NEW v \in CallType, CallSound(v), v.port = NoPort,
         call' = [call EXCEPT ![c] = v],
         ask' = ask \/ \E q \in Backlog : ask' = [ask EXCEPT ![q] = NoAsk],
         upstream' \in BOOLEAN, config' = config, listening' \in {"no", "udp", "other"},
         c = Self => (v.pc # "idle" => ~Bootstrapped(load(config)))
  PROVE  NssInv'
<1>1. NoAsk \in AskType /\ NoAsk.port = NoPort
  BY DEF NoAsk, AskType
<1>2. ask' \in [Backlog -> AskType]
      /\ \A q \in Backlog : ask'[q] = ask[q] \/ ask'[q].port = NoPort
  BY <1>1 DEF NssInv, NssTypeOK
<1>3. call' \in [Callers -> CallType] /\ call'[c] = v
      /\ \A d \in Callers \ {c} : call'[d] = call[d]
  BY DEF NssInv, NssTypeOK
<1>4. NssTypeOK'
  BY <1>2, <1>3 DEF NssInv, NssTypeOK
<1>5. PortsApart'
  BY <1>3 DEF NssInv, PortsApart
<1>6. AnswersFit'
  BY <1>2, <1>3 DEF NssInv, AnswersFit
<1>7. SelfIsTold'
  BY <1>3 DEF NssInv, SelfIsTold, Callers
<1>8. \A d \in Callers : CallSound(call'[d])
  BY <1>3 DEF NssInv
<1> QED BY <1>4, <1>5, <1>6, <1>7, <1>8 DEF NssInv, CallSound

\* A socket is taken: what is on its way to the port either answers this query,
\* or taints the call.
LEMMA SendStep ==
  ASSUME NssInv, NEW c \in Callers, Send(c)
  PROVE  NssInv'
<1>1. PICK port \in Ports \ PortsInUse :
        /\ call' = [call EXCEPT ![c].pc = "recv", ![c].port = port,
                                ![c].tainted = @ \/ \E q \in Outstanding : ask[q].port = port]
        /\ \/ \E q \in Backlog \ Outstanding :
                ask' = [ask EXCEPT ![q] = [name |-> call[c].lookup.name,
                                           type |-> Head(call[c].todo), port |-> port]]
           \/ UNCHANGED ask
  <2>1. ASSUME Outstanding # Backlog
        PROVE  (CHOOSE r \in Backlog : r \notin Outstanding) \in Backlog \ Outstanding
    BY <2>1 DEF Outstanding
  <2> QED BY <2>1 DEF Send
<1> DEFINE v == call[c]
           dirty == \E q \in Outstanding : ask[q].port = port
           new == [name |-> v.lookup.name, type |-> Head(v.todo), port |-> port]
           w == [v EXCEPT !.pc = "recv", !.port = port, !.tainted = v.tainted \/ dirty]
<1>2. v \in CallType /\ CallSound(v) /\ v.pc = "query"
  BY DEF NssInv, NssTypeOK, Send
<1>3. port # NoPort /\ \A d \in Callers : call[d].port # port
  BY NssAssumption DEF PortsInUse
<1>4. call' = [call EXCEPT ![c] = w]
  BY <1>1, <1>2 DEF NssInv, NssTypeOK, CallType
<1>5. /\ w.pc = "recv" /\ w.port = port /\ w.tainted = (v.tainted \/ dirty)
      /\ w.todo = v.todo /\ w.got = v.got /\ w.lookup = v.lookup
      /\ w.room = v.room /\ w.status = v.status /\ w.wrote = v.wrote
  BY <1>2 DEF CallType
<1>6. w \in CallType
  BY <1>2 DEF CallType
<1>7. call' \in [Callers -> CallType] /\ call'[c] = w
      /\ \A d \in Callers \ {c} : call'[d] = call[d]
  BY <1>4, <1>6 DEF NssInv, NssTypeOK
<1> HIDE DEF w
<1>8. v.todo # << >> /\ Head(v.todo) \in Kinds /\ v.lookup.name \in Names
  BY <1>2, TailFacts DEF CallSound, CallType, Names
<1>9. new \in AskType
  BY <1>8 DEF AskType
<1>10. /\ ask' \in [Backlog -> AskType]
       /\ \A q \in Backlog : ask'[q] = ask[q] \/ ask'[q] = new
  BY <1>1, <1>9 DEF NssInv, NssTypeOK
<1>11. NssTypeOK'
  BY <1>7, <1>10 DEF NssInv, NssTypeOK, Send
<1>12. PortsApart'
  <2>1. call'[c].port = port /\ \A d \in Callers \ {c} : call'[d].port # port
    BY <1>3, <1>5, <1>7
  <2> QED BY <1>7, <2>1 DEF NssInv, PortsApart
<1>13. AnswersFit'
  <2> SUFFICES ASSUME NEW d \in Callers, NEW q \in Backlog,
                      call'[d].port # NoPort, ~call'[d].tainted,
                      ask'[q].port = call'[d].port
               PROVE  ask'[q].name = call'[d].lookup.name
    BY DEF AnswersFit
  <2>1. CASE d # c
    <3>1. call'[d] = call[d] /\ call[d].port # port
      BY <1>3, <1>7, <2>1
    <3>2. ask'[q] = ask[q]
      BY <1>10, <3>1
    <3> QED BY <3>1, <3>2 DEF NssInv, AnswersFit
  <2>2. CASE d = c /\ ask'[q] = new
    <3>1. ask'[q].name = v.lookup.name
      BY <2>2
    <3> QED BY <1>5, <1>7, <2>2, <3>1
  <2>3. CASE d = c /\ ask'[q] = ask[q]
    <3>1. ask[q].port = port /\ ~dirty
      BY <1>5, <1>7, <2>3
    <3>2. q \in Outstanding
      BY <1>3, <3>1 DEF Outstanding, NoAsk
    <3> QED BY <3>1, <3>2
  <2> QED BY <1>10, <2>1, <2>2, <2>3
<1>14. SelfIsTold'
  BY <1>2, <1>7 DEF NssInv, SelfIsTold, Send, Callers
<1>15. CallSound(w)
  BY <1>2, <1>3, <1>5 DEF CallSound
<1>16. \A d \in Callers : CallSound(call'[d])
  BY <1>7, <1>15 DEF NssInv
<1> QED BY <1>11, <1>12, <1>13, <1>14, <1>16 DEF NssInv, CallSound

\* A query is over, with or without addresses.
LEMMA ReturnedStep ==
  ASSUME NssInv, NEW c \in Callers, call[c].pc \in {"query", "recv"},
         NEW addrs \in SUBSET [name : Names, type : Kinds], IsFiniteSet(addrs),
         \A a \in addrs : /\ a.type = Head(call[c].todo)
                          /\ ~call[c].tainted => a.name = call[c].lookup.name,
         call' = Returned(c, addrs),
         ask' = ask \/ \E q \in Backlog : ask' = [ask EXCEPT ![q] = NoAsk],
         UNCHANGED <<upstream, config, listening>>
  PROVE  NssInv'
<1> DEFINE w == Returned(c, addrs)[c]
<1>1. /\ Returned(c, addrs) \in [Callers -> CallType]
      /\ \A d \in Callers \ {c} : Returned(c, addrs)[d] = call[d]
      /\ CallSound(w) /\ w.port = NoPort /\ w.pc # "idle"
  BY ReturnedFacts DEF NssInv
<1>2. w \in CallType
  BY <1>1
<1> HIDE DEF w
<1>3. call' = [call EXCEPT ![c] = w]
  <2>1. call' \in [Callers -> CallType] /\ call'[c] = w
        /\ \A d \in Callers \ {c} : call'[d] = call[d]
    BY <1>1 DEF w
  <2> QED BY <2>1 DEF NssInv, NssTypeOK
<1>4. c = Self => ~Bootstrapped(load(config))
  BY DEF NssInv, SelfIsTold
<1> QED BY <1>1, <1>2, <1>3, <1>4, CallReplaced DEF NssInv, NssTypeOK

\* No answer, for whatever reason.
LEMMA NothingCame ==
  ASSUME NssInv, NEW c \in Callers, SendFails(c) \/ Timeout(c)
  PROVE  NssInv'
<1>1. IsFiniteSet({})
  BY FS_EmptySet
<1> QED BY <1>1, ReturnedStep DEF SendFails, Timeout

\* An answer comes to the port of a caller: of its records it takes those of the
\* type it asked for, and they are of its name unless it is tainted.
LEMMA ReplyStep ==
  ASSUME NssInv, NEW q \in Backlog, Reply(q)
  PROVE  NssInv'
<1>1. ask[q] \in [name : Names, type : Kinds, port : Ports] /\ ask' = [ask EXCEPT ![q] = NoAsk]
      /\ UNCHANGED <<upstream, config, listening>>
  BY DEF Reply, Outstanding, NssInv, NssTypeOK, AskType
<1>2. CASE UNCHANGED call
  <2>1. NoAsk \in AskType /\ NoAsk.port = NoPort
    BY DEF NoAsk, AskType
  <2>2. NssTypeOK'
    BY <1>1, <1>2, <2>1 DEF NssInv, NssTypeOK
  <2>3. AnswersFit'
    <3>1. \A r \in Backlog : ask'[r] = ask[r] \/ ask'[r].port = NoPort
      BY <1>1, <2>1 DEF NssInv, NssTypeOK
    <3> QED BY <1>2, <3>1 DEF NssInv, AnswersFit
  <2>4. PortsApart' /\ SelfIsTold'
    BY <1>1, <1>2 DEF NssInv, PortsApart, SelfIsTold
  <2> QED BY <1>2, <2>2, <2>3, <2>4 DEF NssInv, CallSound
<1>3. ASSUME NEW records \in Records(q), Receive(ask[q].port, records), call' # call
      PROVE  NssInv'
  <2> DEFINE port == ask[q].port
             c == CHOOSE d \in Callers : call[d].port = port
             addrs == {r \in records : r.type = Head(call[c].todo)}
  <2>1. port \in PortsInUse /\ call' = Returned(c, addrs)
    BY <1>3 DEF Receive
  <2>2. c \in Callers /\ call[c].port = port
    BY <2>1 DEF PortsInUse
  <2> HIDE DEF c
  <2>3. \/ records = {} 
        \/ records = {[name |-> ask[q].name, type |-> ask[q].type]}
    BY <1>3 DEF Records
  <2>4. IsFiniteSet(records)
    BY <2>3, FS_EmptySet, FS_Singleton
  <2>5. IsFiniteSet(addrs)
    BY <2>4, FS_Subset
  <2>6. port # NoPort
    BY <1>1, NssAssumption
  <2>7. call[c].pc = "recv" /\ call[c].todo # << >> /\ Head(call[c].todo) \in Kinds
    BY <2>2, <2>6, TailFacts DEF NssInv, CallSound, NssTypeOK, CallType
  <2>8. ~call[c].tainted => ask[q].name = call[c].lookup.name
    BY <2>2, <2>6 DEF NssInv, AnswersFit
  <2>9. \A a \in addrs : a.type = Head(call[c].todo) /\ a.name = ask[q].name
    BY <2>3
  <2>10. addrs \in SUBSET [name : Names, type : Kinds]
    BY <1>1, <2>3
  <2> QED BY <1>1, <2>1, <2>2, <2>5, <2>7, <2>8, <2>9, <2>10, ReturnedStep
<1> QED BY <1>2, <1>3 DEF Reply

\* The sizes that a call reckons with.
LEMMA Sizes ==
  ASSUME NEW lookup
  PROVE  /\ PointerSize \in Nat /\ TupleSize \in Nat /\ addr_size(lookup) \in Nat
         /\ Overrun(lookup) \in Nat
         /\ lookup.via # "addrinfo" =>
              \A n \in Nat : /\ Aligned(n) \in Nat
                             /\ Aligned(n) <= n + Overrun(lookup)
<1>1. \A n \in Nat : Aligned(n) \in Nat /\ Aligned(n) <= n + 7
  BY DEF Aligned, PointerSize
<1> QED BY <1>1 DEF PointerSize, TupleSize, addr_size, Overrun

\* The answer is handed over, or the call made again with a larger buffer.
LEMMA PackedStep ==
  ASSUME NssInv, NEW c \in Callers, NEW needed \in Nat, NEW written \in Nat,
         call[c].pc = "pack", written <= needed + Overrun(call[c].lookup),
         call' = Packed(c, needed, written), UNCHANGED <<ask, upstream, config, listening>>
  PROVE  NssInv'
<1> DEFINE v == call[c]
           none == [v EXCEPT !.pc = "done", !.status = "NotFound"]
           again == [v EXCEPT !.pc = "query", !.todo = Types(v.lookup), !.got = {},
                            !.room = 2 * v.room]
           full == [v EXCEPT !.pc = "done", !.status = "Success", !.wrote = written]
<1>1. v \in CallType /\ CallSound(v) /\ v.port = NoPort /\ v.status # "Success"
  BY DEF NssInv, NssTypeOK, CallSound
<1>2. c = Self => ~Bootstrapped(load(config))
  BY DEF NssInv, SelfIsTold
<1>3. \A w \in CallType : CallSound(w) /\ w.port = NoPort /\ call' = [call EXCEPT ![c] = w] => NssInv'
  BY <1>2, CallReplaced DEF NssInv, NssTypeOK
<1>4. CASE v.got = {}
  <2>1. call' = [call EXCEPT ![c] = none]
    BY <1>4 DEF Packed
  <2>2. none \in CallType /\ CallSound(none) /\ none.port = NoPort
    BY <1>1 DEF CallType, CallSound
  <2> QED BY <1>3, <2>1, <2>2
<1>5. CASE v.got # {} /\ needed > v.room
  <2>1. call' = [call EXCEPT ![c] = again]
    BY <1>5 DEF Packed
  <2>2. Types(v.lookup) \in Seq(Kinds) /\ Types(v.lookup) # << >>
        /\ \A i \in DOMAIN Types(v.lookup) : Types(v.lookup)[i] \in TypesOf(v.lookup)
    <3>1. TypesOf(v.lookup) # {}
      BY <1>1, <1>5 DEF CallSound
    <3>2. DOMAIN << >> = {}
      OBVIOUS
    <3>3. Types(v.lookup) # << >>
      BY <3>1, <3>2, Zenon DEF TypesOf
    <3> QED BY <3>3, TypesFacts
  <2>3. again \in CallType
    <3>1. [v EXCEPT !.pc = "query", !.todo = Types(v.lookup)] \in CallType
      BY <1>1, <2>2 DEF CallType
    <3>2. 2 * v.room \in Nat
      BY <1>1 DEF CallType
    <3>3. \A u \in CallType : [u EXCEPT !.got = {}, !.room = 2 * v.room] \in CallType
      BY <3>2 DEF CallType
    <3> QED BY <3>1, <3>3
  <2>4. /\ again.pc = "query" /\ again.todo = Types(v.lookup) /\ again.got = {}
        /\ again.port = NoPort /\ again.lookup = v.lookup /\ again.status = v.status
    BY <1>1 DEF CallType
  <2>5. CallSound(again)
    BY <1>1, <2>2, <2>4, FS_EmptySet DEF CallSound
  <2> QED BY <1>3, <2>1, <2>3, <2>4, <2>5
<1>6. CASE v.got # {} /\ needed <= v.room
  <2>1. call' = [call EXCEPT ![c] = full]
    <3>1. ~(needed > v.room)
      BY <1>1, <1>6 DEF CallType
    <3> QED BY <1>6, <3>1 DEF Packed
  <2>2. written <= v.room + Overrun(v.lookup)
    <3>1. Overrun(v.lookup) \in Nat /\ v.room \in Nat
      BY <1>1, Sizes DEF CallType
    <3> QED BY <1>6, <3>1
  <2>3. /\ full.pc = "done" /\ full.todo = v.todo /\ full.got = v.got
        /\ full.port = NoPort /\ full.lookup = v.lookup /\ full.room = v.room
        /\ full.wrote = written /\ full.tainted = v.tainted
    BY <1>1 DEF CallType
  <2>4. full \in CallType
    BY <1>1 DEF CallType
  <2>5. CallSound(full)
    BY <1>1, <1>6, <2>2, <2>3 DEF CallSound
  <2> QED BY <1>3, <2>1, <2>3, <2>4, <2>5
<1> QED BY <1>1, <1>4, <1>5, <1>6 DEF CallType

\* What an entry point writes is what it needs, and for the lists of gethostbyname_r
\* the padding before them.
LEMMA PackingStep ==
  ASSUME NssInv, NEW c \in Callers, gethostbyname4_r(c) \/ gethostbyname_r(c)
  PROVE  NssInv'
<1>1. Cardinality(call[c].got) \in Nat
  BY FS_CardinalityType DEF NssInv, CallSound
<1> DEFINE n == Cardinality(call[c].got)
           lookup == call[c].lookup
           tuples == TupleSize * n
           data == NameLen[lookup.name] + addr_size(lookup) * n
           lists == (n + 2) * PointerSize
<1>4. lookup \in Wanted /\ NameLen[lookup.name] \in Nat
  BY NssAssumption DEF NssInv, NssTypeOK, CallType, Wanted
<1>5. \A m, k \in Nat : m * k \in Nat
  OBVIOUS
<1>2. CASE gethostbyname4_r(c)
  <2>1. tuples \in Nat /\ tuples <= tuples + Overrun(lookup)
    <3>1. tuples \in Nat
      BY <1>1, <1>5, Sizes
    <3> QED BY <3>1, Sizes
  <2>2. call[c].pc = "pack" /\ call' = Packed(c, tuples, tuples)
        /\ UNCHANGED <<ask, upstream, config, listening>>
    BY <1>2 DEF gethostbyname4_r
  <2> HIDE DEF tuples
  <2> QED BY <2>1, <2>2, PackedStep
<1>3. CASE gethostbyname_r(c)
  <2>1. addr_size(lookup) * n \in Nat /\ lists \in Nat
    BY <1>1, <1>5, Sizes
  <2>2. data \in Nat
    BY <1>4, <2>1
  <2>3. call[c].pc = "pack" /\ call' = Packed(c, data + lists, Aligned(data) + lists)
        /\ UNCHANGED <<ask, upstream, config, listening>> /\ lookup.via # "addrinfo"
    BY <1>3 DEF gethostbyname_r
  <2> HIDE DEF data, lists
  <2>4. Aligned(data) \in Nat /\ Aligned(data) <= data + Overrun(lookup)
        /\ Overrun(lookup) \in Nat
    BY <2>2, <2>3, Sizes
  <2>5. data + lists \in Nat /\ Aligned(data) + lists \in Nat
        /\ Aligned(data) + lists <= data + lists + Overrun(lookup)
    BY <2>1, <2>2, <2>4
  <2> QED BY <2>3, <2>5, PackedStep
<1> QED BY <1>2, <1>3

\* Programs begin calls, and the server one of its own when it has to.
LEMMA BeginStep ==
  ASSUME NssInv, (\E c \in Callers : Begin(c)) \/ ConnectByName \/ ConnectedByName
  PROVE  NssInv'
<1>1. Self \in Callers /\ Self \notin Apps
  BY NssAssumption DEF Callers
<1>2. ASSUME NEW c \in Callers, Begin(c) PROVE NssInv'
  <2>1. PICK lookup \in Lookups : call' = [call EXCEPT ![c] = Started(lookup)]
    BY <1>2 DEF Begin
  <2>2. lookup \in Wanted /\ c # Self
    BY <1>1, <1>2 DEF Wanted, Begin
  <2> QED BY <1>2, <2>1, <2>2, StartedFacts, CallReplaced DEF Begin, NssInv, NssTypeOK
<1>3. CASE ConnectByName
  <2>1. OwnLookup \in Wanted
    BY DEF Wanted
  <2> QED BY <1>1, <1>3, <2>1, StartedFacts, CallReplaced DEF ConnectByName, NssInv, NssTypeOK
<1>4. CASE ConnectedByName
  <2>1. Idle \in CallType /\ CallSound(Idle) /\ Idle.port = NoPort /\ Idle.pc = "idle"
    BY AsksNothing DEF Idle, Wanted
  <2> QED BY <1>1, <1>4, <2>1, CallReplaced DEF ConnectedByName, NssInv, NssTypeOK
<1> QED BY <1>2, <1>3, <1>4

\* The other steps of the server, and none, leave the calls and queries alone.
LEMMA QuietStep ==
  ASSUME NssInv, Run \/ Connect \/ Disconnect \/ UNCHANGED vars
  PROVE  NssInv'
<1>1. UNCHANGED <<call, ask, config>> /\ upstream' \in BOOLEAN
      /\ listening' \in {"no", "udp", "other"}
  BY DEF Run, Connect, Disconnect, vars, NssInv, NssTypeOK
<1>2. NssTypeOK'
  BY <1>1 DEF NssInv, NssTypeOK
<1>3. PortsApart' /\ AnswersFit' /\ SelfIsTold'
  BY <1>1 DEF NssInv, PortsApart, AnswersFit, SelfIsTold
<1> QED BY <1>1, <1>2, <1>3 DEF NssInv, CallSound
-----------------------------------------------------------------------------
(* Theorems *)

\* The inductive invariant of calls, queries and ports: what an untainted call
\* has got, and whatever can still come to its port, is about its own name.
THEOREM NssInvariant == Spec => []NssInv
<1>1. ASSUME Init PROVE NssInv
  <2>1. Idle \in CallType /\ CallSound(Idle) /\ Idle.port = NoPort /\ Idle.pc = "idle"
    BY AsksNothing DEF Idle, Wanted
  <2>2. NoAsk \in AskType /\ Self \in Callers
    BY DEF AskType, Callers
  <2>3. NssTypeOK
    BY <1>1, <2>1, <2>2 DEF Init, NssTypeOK
  <2>4. PortsApart /\ AnswersFit /\ SelfIsTold
    BY <1>1, <2>1, <2>2 DEF Init, PortsApart, AnswersFit, SelfIsTold
  <2> QED BY <1>1, <2>1, <2>3, <2>4 DEF Init, NssInv
<1>2. ASSUME NssInv, [Next]_vars PROVE NssInv'
  BY <1>2, SendStep, NothingCame, PackingStep, BeginStep, ReplyStep, QuietStep
  DEF Next, Step
<1> QED BY <1>1, <1>2, PTL DEF Spec

\* A lookup that succeeds returns addresses of the right family, and of the name
\* asked for unless its port had an answer to somebody else coming, and writes at
\* most the padding before the address list past the buffer, and nothing past it
\* for getaddrinfo; for any number of programs, ports and queries, any names and
\* any size of the buffer (nss.rs query_local_dns and the entry points).
THEOREM SuccessHolds == Spec => []SuccessIsSound
<1>1. NssInv => SuccessIsSound
  BY DEF NssInv, CallSound, SuccessIsSound
<1> QED BY <1>1, NssInvariant, PTL

\* First is the least place of an address that parses.
LEMMA FirstIsFirst ==
  ASSUME NEW file, SocketAddrs(file) # {}, SocketAddrs(file) \subseteq Nat
  PROVE  /\ First(file) \in SocketAddrs(file)
         /\ \A j \in SocketAddrs(file) : First(file) <= j
<1> DEFINE R == OpToRel(<, Nat)
<1>1. IsWellFoundedOn(R, Nat)
  BY NatLessThanWellFounded
<1>2. ASSUME NEW a \in Nat, NEW b \in Nat, a < b
      PROVE  <<a, b>> \in R
  BY <1>2 DEF OpToRel
<1> HIDE DEF R
<1>3. PICK x \in SocketAddrs(file) : \A y \in SocketAddrs(file) : <<y, x>> \notin R
  BY <1>1, WFMin
<1>4. \A y \in SocketAddrs(file) : x <= y
  <2> TAKE y \in SocketAddrs(file)
  <2>1. x \in Nat /\ y \in Nat
    OBVIOUS
  <2>2. ~(y < x)
    BY <1>2, <1>3, <2>1
  <2> QED BY <2>1, <2>2
<1> QED BY <1>4 DEF First

\* What it takes for the connector not to use an address, whatever the file says.
LEMMA NotBootstrapped ==
  ASSUME NEW file \in Files, ~Bootstrapped(load(file))
  PROVE  /\ file # Unreadable
         /\ \/ doh_url(file).port
            \/ /\ file.provider \in DOMAIN file.providers
               /\ LET addrs == file.providers[file.provider].bootstrap
                      parse == {i \in DOMAIN addrs : addrs[i] # NotIp}
                  IN  parse = {} \/ \E i \in parse : addrs[i].v6 /\ \A j \in parse : i <= j
<1>2. file # Unreadable
  <2> SUFFICES ASSUME file = Unreadable PROVE FALSE
    OBVIOUS
  <2>1. load(file) = Default
    BY DEF load
  <2> DEFINE both == <<Ip(Cloudflare, FALSE), Ip(Cloudflare, TRUE)>>
             entry == [url |-> CloudflareUrl, bootstrap |-> both]
  <2>2. /\ Default.provider = "cloudflare"
        /\ Default.providers = [x \in {"cloudflare"} |-> entry]
    BY DEF Default
  <2>5. DOMAIN both = {1, 2} /\ both[1] = Ip(Cloudflare, FALSE)
    <3>1. \A x, y : DOMAIN <<x, y>> = {1, 2} /\ <<x, y>>[1] = x
      OBVIOUS
    <3> QED BY <3>1, Zenon
  <2> HIDE DEF both, entry
  <2>3. /\ Default.provider # "custom" /\ Default.provider \in DOMAIN Default.providers
        /\ Default.providers[Default.provider] = entry
    BY <2>2
  <2>4. doh_url(Default) = CloudflareUrl /\ bootstrap_addrs(Default) = both
    BY <2>3 DEF doh_url, bootstrap_addrs, entry
  <2>6. 1 \in SocketAddrs(Default) /\ SocketAddrs(Default) \subseteq {1, 2}
    BY <2>4, <2>5, ConfigAssumption DEF SocketAddrs
  <2>8. /\ First(Default) \in SocketAddrs(Default)
        /\ \A j \in SocketAddrs(Default) : First(Default) <= j
    BY <2>6, FirstIsFirst
  <2>7. bootstrap_addrs(Default)[First(Default)] = Ip(Cloudflare, FALSE)
    <3>1. First(Default) = 1
      BY <2>6, <2>8
    <3> QED BY <2>4, <2>5, <3>1
  <2> QED BY <2>1, <2>4, <2>6, <2>7 DEF Bootstrapped, CloudflareUrl, Ip
<1>3. ASSUME ~doh_url(file).port
      PROVE  /\ file.provider \in DOMAIN file.providers
             /\ LET addrs == file.providers[file.provider].bootstrap
                    parse == {i \in DOMAIN addrs : addrs[i] # NotIp}
                IN  parse = {} \/ \E i \in parse : addrs[i].v6 /\ \A j \in parse : i <= j
  <2> DEFINE addrs == bootstrap_addrs(file)
             parse == SocketAddrs(file)
             one == <<Ip(Cloudflare, FALSE)>>
  <2>1. parse = {} \/ addrs[First(file)].v6
    BY <1>2, <1>3 DEF load, Bootstrapped
  <2>2. addrs # one
    <3> SUFFICES ASSUME addrs = one PROVE FALSE
      OBVIOUS
    <3>1. DOMAIN one = {1} /\ one[1] = Ip(Cloudflare, FALSE)
      OBVIOUS
    <3> HIDE DEF one
    <3>2. 1 \in parse /\ parse \subseteq {1}
      BY <3>1, ConfigAssumption DEF SocketAddrs
    <3>4. First(file) \in parse
      BY <3>2, FirstIsFirst
    <3>3. addrs[First(file)] = Ip(Cloudflare, FALSE)
      BY <3>1, <3>2, <3>4
    <3> QED BY <2>1, <3>2, <3>3 DEF Ip
  <2>3. file.provider \in DOMAIN file.providers
        /\ addrs = file.providers[file.provider].bootstrap
    BY <2>2 DEF bootstrap_addrs
  <2>4. parse = {} \/ \E i \in parse : addrs[i].v6 /\ \A j \in parse : i <= j
    <3>1. parse \subseteq Nat
      BY <1>2, <2>3, NssAssumption DEF SocketAddrs
    <3> QED BY <2>1, <3>1, FirstIsFirst
  <2> QED BY <2>3, <2>4 DEF SocketAddrs
<1> QED BY <1>2, <1>3

\* The server looks its upstream up through itself only where its file asks for
\* that, whatever the file may hold (doh.rs BootstrapConnector).
THEOREM AsksItselfIsTold == Spec => []AsksItselfOnlyIfTold
<1>1. NssInv => AsksItselfOnlyIfTold
  BY NotBootstrapped DEF NssInv, NssTypeOK, SelfIsTold, AsksItselfOnlyIfTold
<1> QED BY <1>1, NssInvariant, PTL
=============================================================================

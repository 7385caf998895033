--------------------------- MODULE ComposeProofs ---------------------------
(***************************************************************************)
(* The order in which S64compose visits the projects, and what its start and *)
(* stop loops do in that order, for all projects and dependencies.            *)
(***************************************************************************)
EXTENDS Compose, TLAPS

(* Facts on sequences *)

\* What the elements of a sequence are.
LEMMA ElementsIn ==
  ASSUME NEW S, NEW s \in Seq(S)
  PROVE  Elements(s) \subseteq S /\ \A i \in 1..Len(s) : s[i] \in Elements(s)
  BY DEF Elements

\* A project put at the end.
LEMMA AppendFacts ==
  ASSUME NEW S, NEW s \in Seq(S), NEW e \in S
  PROVE  /\ Append(s, e) \in Seq(S) /\ Len(Append(s, e)) = Len(s) + 1
         /\ \A i \in 1..Len(s) : Append(s, e)[i] = s[i]
         /\ Append(s, e)[Len(s) + 1] = e
         /\ Elements(Append(s, e)) = Elements(s) \cup {e}
         /\ NoDuplicates(s) /\ e \notin Elements(s) => NoDuplicates(Append(s, e))
<1>1. /\ Append(s, e) \in Seq(S) /\ Len(Append(s, e)) = Len(s) + 1
      /\ \A i \in 1..Len(s) : Append(s, e)[i] = s[i]
      /\ Append(s, e)[Len(s) + 1] = e
  OBVIOUS
<1>2. Elements(Append(s, e)) = Elements(s) \cup {e}
  BY <1>1 DEF Elements
<1>3. ASSUME NoDuplicates(s), e \notin Elements(s) PROVE NoDuplicates(Append(s, e))
  BY <1>1, <1>3 DEF NoDuplicates, Elements
<1> QED BY <1>1, <1>2, <1>3

\* The first project taken off.
LEMMA TailFacts ==
  ASSUME NEW S, NEW s \in Seq(S), s # <<>>
  PROVE  /\ Head(s) \in S /\ Tail(s) \in Seq(S)
         /\ Elements(s) = {Head(s)} \cup Elements(Tail(s))
         /\ NoDuplicates(s) => NoDuplicates(Tail(s)) /\ Head(s) \notin Elements(Tail(s))
<1>1. /\ Head(s) = s[1] /\ Head(s) \in S /\ Tail(s) \in Seq(S)
      /\ Len(Tail(s)) = Len(s) - 1 /\ Len(s) >= 1 /\ Len(s) \in Nat
      /\ \A i \in 1..Len(Tail(s)) : Tail(s)[i] = s[i + 1]
  OBVIOUS
<1>2. Elements(s) \subseteq {Head(s)} \cup Elements(Tail(s))
  <2> SUFFICES ASSUME NEW i \in 1..Len(s), i # 1
               PROVE  s[i] \in Elements(Tail(s))
    BY <1>1 DEF Elements
  <2>1. i - 1 \in 1..Len(Tail(s)) /\ Tail(s)[i - 1] = s[i]
    BY <1>1
  <2> QED BY <2>1 DEF Elements
<1>3. {Head(s)} \cup Elements(Tail(s)) \subseteq Elements(s)
  BY <1>1 DEF Elements
<1>4. ASSUME NoDuplicates(s) PROVE NoDuplicates(Tail(s)) /\ Head(s) \notin Elements(Tail(s))
  BY <1>1, <1>4 DEF NoDuplicates, Elements
<1> QED BY <1>1, <1>2, <1>3, <1>4

\* One list behind another.
LEMMA ConcatFacts ==
  ASSUME NEW S, NEW s \in Seq(S), NEW t \in Seq(S)
  PROVE  /\ s \o t \in Seq(S)
         /\ \A i \in 1..Len(s) : (s \o t)[i] = s[i]
         /\ \A i \in 1..Len(s \o t) : i \notin 1..Len(s) => (s \o t)[i] \in Elements(t)
         /\ Elements(s \o t) = Elements(s) \cup Elements(t)
         /\ Len(s \o t) = Len(s) + Len(t)
         /\ NoDuplicates(s) /\ NoDuplicates(t) /\ Elements(s) \cap Elements(t) = {} =>
              NoDuplicates(s \o t)
<1>1. /\ s \o t \in Seq(S) /\ Len(s \o t) = Len(s) + Len(t)
      /\ Len(s) \in Nat /\ Len(t) \in Nat
      /\ \A i \in 1..Len(s) : (s \o t)[i] = s[i]
      /\ \A i \in 1..Len(s \o t) : i \notin 1..Len(s) => (s \o t)[i] = t[i - Len(s)]
  OBVIOUS
<1>2. \A i \in 1..Len(s \o t) : i \notin 1..Len(s) => i - Len(s) \in 1..Len(t)
  BY <1>1
<1>3. \A i \in 1..Len(s \o t) : i \notin 1..Len(s) => (s \o t)[i] \in Elements(t)
  BY <1>1, <1>2 DEF Elements
<1>4. Elements(s) \cup Elements(t) \subseteq Elements(s \o t)
  <2>1. ASSUME NEW j \in 1..Len(t) PROVE t[j] \in Elements(s \o t)
    <3>1. /\ j + Len(s) \in 1..Len(s \o t) /\ j + Len(s) \notin 1..Len(s)
          /\ (j + Len(s)) - Len(s) = j
      BY <1>1
    <3>2. (s \o t)[j + Len(s)] = t[j]
      BY <1>1, <3>1
    <3> QED BY <3>1, <3>2 DEF Elements
  <2>2. ASSUME NEW j \in 1..Len(s) PROVE s[j] \in Elements(s \o t)
    <3>1. j \in 1..Len(s \o t) /\ (s \o t)[j] = s[j]
      BY <1>1
    <3> QED BY <3>1 DEF Elements
  <2> QED BY <2>1, <2>2 DEF Elements
<1>5. Elements(s \o t) \subseteq Elements(s) \cup Elements(t)
  <2> SUFFICES ASSUME NEW i \in 1..Len(s \o t)
               PROVE  (s \o t)[i] \in Elements(s) \cup Elements(t)
    BY DEF Elements
  <2>1. CASE i \in 1..Len(s)
    BY <1>1, <2>1 DEF Elements
  <2>2. CASE i \notin 1..Len(s)
    BY <1>3, <2>2
  <2> QED BY <2>1, <2>2
<1>6. ASSUME NoDuplicates(s), NoDuplicates(t), Elements(s) \cap Elements(t) = {}
      PROVE  NoDuplicates(s \o t)
  <2> SUFFICES ASSUME NEW i \in 1..Len(s \o t), NEW j \in 1..Len(s \o t),
                      (s \o t)[i] = (s \o t)[j]
               PROVE  i = j
    BY DEF NoDuplicates
  <2>1. CASE i \in 1..Len(s) /\ j \in 1..Len(s)
    BY <1>1, <1>6, <2>1 DEF NoDuplicates
  <2>2. CASE i \notin 1..Len(s) /\ j \notin 1..Len(s)
    <3>1. /\ i - Len(s) \in 1..Len(t) /\ j - Len(s) \in 1..Len(t)
          /\ t[i - Len(s)] = t[j - Len(s)]
      BY <1>1, <1>2, <2>2
    <3>2. i - Len(s) = j - Len(s)
      BY <3>1, <1>6 DEF NoDuplicates
    <3> QED BY <3>2, <1>1
  <2>3. CASE i \in 1..Len(s) /\ j \notin 1..Len(s)
    BY <1>1, <1>3, <1>6, <2>3 DEF Elements
  <2>4. CASE i \notin 1..Len(s) /\ j \in 1..Len(s)
    BY <1>1, <1>3, <1>6, <2>4 DEF Elements
  <2> QED BY <2>1, <2>2, <2>3, <2>4
<1> QED BY <1>1, <1>3, <1>4, <1>5, <1>6
-----------------------------------------------------------------------------
(* The inductive invariant *)

OrderTypeOK ==
  /\ joins \in [Projects -> SUBSET Networks]
  /\ stage \in {"none", "sorting", "sorted"} /\ progress \in BOOLEAN
  /\ pending \in Seq(Projects) /\ next \in Seq(Projects) /\ ordered \in Seq(Projects)

\* Each project is in exactly one of the three lists, once.
Partition ==
  /\ Elements(ordered) \cup Elements(next) \cup Elements(pending) = Projects
  /\ Elements(ordered) \cap Elements(next) = {}
  /\ Elements(ordered) \cap Elements(pending) = {}
  /\ Elements(next) \cap Elements(pending) = {}
  /\ NoDuplicates(ordered) /\ NoDuplicates(next) /\ NoDuplicates(pending)

\* What was ordered was ready.
OrderedReady ==
  \A i \in 1..Len(ordered) :
    joins[ordered[i]] \cap ALL_PROJECT_NETWORKS \subseteq DeclaredBefore(i)

\* In a pass without progress, what was put off is still not ready.
StillNotReady == ~progress => \A p \in Elements(next) : ~Ready(p)

OrderInv ==
  /\ OrderTypeOK
  /\ stage = "sorting" => Partition /\ OrderedReady /\ StillNotReady
  /\ stage = "sorted" => Complete /\ ProvidersFirst

\* A fresh call of the function.
LEMMA BeginPreserves ==
  ASSUME OrderInv, OrderBegin, UNCHANGED joins
  PROVE  OrderInv'
<1>1. Elements(<<>>) = {} /\ NoDuplicates(<<>>) /\ <<>> \in Seq(Projects) /\ Len(<<>>) = 0
  BY DEF Elements, NoDuplicates
<1>2. OrderTypeOK'
  BY <1>1, OrderAssumption DEF OrderInv, OrderTypeOK, OrderBegin
<1>3. Partition'
  BY <1>1, OrderAssumption DEF Partition, OrderBegin
<1>4. OrderedReady'
  BY <1>1 DEF OrderedReady, OrderBegin
<1>5. StillNotReady'
  BY <1>1 DEF StillNotReady, OrderBegin
<1> QED BY <1>2, <1>3, <1>4, <1>5 DEF OrderInv, OrderBegin

\* The networks declared by the projects of a list.
LEMMA DeclaredIsOrdered ==
  ASSUME ordered \in Seq(Projects)
  PROVE  UNION {Declares[ordered[j]] : j \in 1..Len(ordered)} = ORDERED_NETWORKS
  BY DEF ORDERED_NETWORKS, Elements

\* One project visited.
LEMMA VisitPreserves ==
  ASSUME OrderInv, Visit, UNCHANGED joins
  PROVE  OrderInv'
<1> DEFINE p == Head(pending)
<1> USE DEF OrderInv
<1>0. /\ stage = "sorting" /\ OrderTypeOK /\ Partition /\ OrderedReady /\ StillNotReady
      /\ pending # <<>> /\ pending' = Tail(pending) /\ stage' = "sorting"
  BY DEF Visit
<1>1. /\ p \in Projects /\ Tail(pending) \in Seq(Projects)
      /\ Elements(pending) = {p} \cup Elements(Tail(pending))
      /\ NoDuplicates(Tail(pending)) /\ p \notin Elements(Tail(pending))
  BY <1>0, TailFacts DEF OrderTypeOK, Partition
<1>2. CASE Ready(p)
  <2>1. ordered' = Append(ordered, p) /\ progress' = TRUE /\ next' = next
    BY <1>2 DEF Visit
  <2>2. /\ ordered' \in Seq(Projects) /\ Len(ordered') = Len(ordered) + 1
        /\ \A i \in 1..Len(ordered) : ordered'[i] = ordered[i]
        /\ ordered'[Len(ordered) + 1] = p
        /\ Elements(ordered') = Elements(ordered) \cup {p}
        /\ NoDuplicates(ordered')
    <3>1. p \notin Elements(ordered) /\ NoDuplicates(ordered) /\ ordered \in Seq(Projects)
      BY <1>0, <1>1 DEF Partition, OrderTypeOK
    <3> QED BY <1>1, <2>1, <3>1, AppendFacts
  <2>3. OrderTypeOK'
    BY <1>0, <1>1, <2>1, <2>2 DEF OrderTypeOK
  <2>4. Partition'
    BY <1>0, <1>1, <2>1, <2>2 DEF Partition
  <2>5. OrderedReady'
    <3> SUFFICES ASSUME NEW i \in 1..Len(ordered')
                 PROVE  joins[ordered'[i]] \cap ALL_PROJECT_NETWORKS \subseteq
                          UNION {Declares[ordered'[j]] : j \in 1..(i - 1)}
      BY DEF OrderedReady, DeclaredBefore
    <3>0. Len(ordered) \in Nat
      BY <1>0 DEF OrderTypeOK
    <3>1. \A j \in 1..(i - 1) : ordered'[j] = ordered[j]
      BY <2>2, <3>0
    <3>2. UNION {Declares[ordered'[j]] : j \in 1..(i - 1)} = DeclaredBefore(i)
      BY <3>1 DEF DeclaredBefore
    <3>3. CASE i \in 1..Len(ordered)
      BY <1>0, <2>2, <3>2, <3>3 DEF OrderedReady
    <3>4. CASE i = Len(ordered) + 1
      <4>1. DeclaredBefore(i) = ORDERED_NETWORKS
        BY <1>0, <3>0, <3>4, DeclaredIsOrdered DEF DeclaredBefore, OrderTypeOK
      <4>2. joins[p] \cap ALL_PROJECT_NETWORKS \subseteq ORDERED_NETWORKS
        BY <1>2 DEF Ready, network_satisfied
      <4> QED BY <2>2, <3>2, <3>4, <4>1, <4>2
    <3> QED BY <2>2, <3>0, <3>3, <3>4
  <2> QED BY <1>0, <2>1, <2>3, <2>4, <2>5 DEF StillNotReady
<1>3. CASE ~Ready(p)
  <2>1. next' = Append(next, p) /\ ordered' = ordered /\ progress' = progress
    BY <1>3 DEF Visit
  <2>2. /\ next' \in Seq(Projects) /\ Elements(next') = Elements(next) \cup {p}
        /\ NoDuplicates(next')
    <3>1. p \notin Elements(next) /\ NoDuplicates(next) /\ next \in Seq(Projects)
      BY <1>0, <1>1 DEF Partition, OrderTypeOK
    <3> QED BY <1>1, <2>1, <3>1, AppendFacts
  <2>3. OrderTypeOK'
    BY <1>0, <1>1, <2>1, <2>2 DEF OrderTypeOK
  <2>4. Partition'
    BY <1>0, <1>1, <2>1, <2>2 DEF Partition
  <2>5. OrderedReady'
    BY <1>0, <2>1 DEF OrderedReady, DeclaredBefore
  <2>6. StillNotReady'
    BY <1>0, <1>3, <2>1, <2>2 DEF StillNotReady, Ready, network_satisfied, ORDERED_NETWORKS
  <2> QED BY <1>0, <2>3, <2>4, <2>5, <2>6
<1> QED BY <1>2, <1>3

\* A further pass.
LEMMA NextPassPreserves ==
  ASSUME OrderInv, NextPass, UNCHANGED joins
  PROVE  OrderInv'
<1>1. Elements(<<>>) = {} /\ NoDuplicates(<<>>) /\ <<>> \in Seq(Projects)
  BY DEF Elements, NoDuplicates
<1>2. OrderTypeOK'
  BY <1>1 DEF OrderInv, OrderTypeOK, NextPass
<1>3. Partition'
  BY <1>1 DEF OrderInv, Partition, NextPass
<1>4. OrderedReady'
  BY DEF OrderInv, OrderedReady, DeclaredBefore, NextPass
<1>5. StillNotReady'
  BY <1>1 DEF StillNotReady, NextPass
<1> QED BY <1>2, <1>3, <1>4, <1>5 DEF OrderInv, NextPass

\* In a pass without progress, what was put off waits for itself.
LEMMA PutOffIsDeadlocked ==
  ASSUME OrderTypeOK, Partition, StillNotReady, pending = <<>>, ~progress
  PROVE  Deadlocked(Elements(next))
<1>1. Elements(pending) = {}
  BY DEF Elements
<1>2. Elements(ordered) \cup Elements(next) = Projects
  BY <1>1 DEF Partition
<1> SUFFICES ASSUME NEW p \in Elements(next)
             PROVE  \E net \in joins[p] \cap ALL_PROJECT_NETWORKS :
                      Declarers(net) \subseteq Elements(next)
  BY DEF Deadlocked
<1>3. PICK net \in joins[p] : net \notin ORDERED_NETWORKS /\ net \in ALL_PROJECT_NETWORKS
  BY DEF StillNotReady, Ready, network_satisfied
<1>4. Declarers(net) \subseteq Elements(next)
  BY <1>2, <1>3 DEF Declarers, ORDERED_NETWORKS
<1> QED BY <1>3, <1>4

\* The function returns: what is left goes last.
LEMMA OrderEndPreserves ==
  ASSUME OrderInv, OrderEnd, UNCHANGED joins
  PROVE  OrderInv'
<1>0. /\ OrderTypeOK /\ Partition /\ OrderedReady /\ StillNotReady
      /\ pending = <<>> /\ (next = <<>> \/ ~progress) /\ stage' = "sorted"
      /\ ordered' = ordered \o next /\ next' = <<>> /\ pending' = pending
      /\ progress' = progress /\ joins' = joins
  BY DEF OrderInv, OrderEnd
<1>1. Elements(pending) = {} /\ <<>> \in Seq(Projects)
  BY <1>0 DEF Elements
<1>2. /\ ordered' \in Seq(Projects) /\ NoDuplicates(ordered')
      /\ \A i \in 1..Len(ordered) : ordered'[i] = ordered[i]
      /\ \A i \in 1..Len(ordered') : i \notin 1..Len(ordered) => ordered'[i] \in Elements(next)
      /\ Elements(ordered') = Elements(ordered) \cup Elements(next)
  <2>1. /\ ordered \in Seq(Projects) /\ next \in Seq(Projects)
        /\ NoDuplicates(ordered) /\ NoDuplicates(next)
        /\ Elements(ordered) \cap Elements(next) = {}
    BY <1>0 DEF OrderTypeOK, Partition
  <2> QED BY <1>0, <2>1, ConcatFacts
<1>3. OrderTypeOK'
  BY <1>0, <1>1, <1>2 DEF OrderTypeOK
<1>4. Complete'
  BY <1>0, <1>1, <1>2 DEF Complete, Partition
<1>5. ProvidersFirst'
  <2> SUFFICES ASSUME NEW i \in 1..Len(ordered'),
                      ~\E S \in SUBSET Projects : ordered'[i] \in S /\ Deadlocked(S)
               PROVE  joins[ordered'[i]] \cap ALL_PROJECT_NETWORKS \subseteq
                        UNION {Declares[ordered'[j]] : j \in 1..(i - 1)}
    BY <1>0 DEF ProvidersFirst, DeclaredBefore, Unresolvable, Deadlocked
  <2>0. Len(ordered) \in Nat
    BY <1>0 DEF OrderTypeOK
  <2>1. CASE i \in 1..Len(ordered)
    <3>1. \A j \in 1..(i - 1) : ordered'[j] = ordered[j]
      BY <1>2, <2>0, <2>1
    <3>2. UNION {Declares[ordered'[j]] : j \in 1..(i - 1)} = DeclaredBefore(i)
      BY <3>1 DEF DeclaredBefore
    <3> QED BY <1>0, <1>2, <2>1, <3>2 DEF OrderedReady
  <2>2. CASE i \notin 1..Len(ordered)
    <3>1. ordered'[i] \in Elements(next)
      BY <1>2, <2>2
    <3>2. ~progress
      BY <1>0, <3>1 DEF Elements
    <3>3. Deadlocked(Elements(next))
      BY <1>0, <3>2, PutOffIsDeadlocked
    <3>4. Elements(next) \in SUBSET Projects
      BY <1>0, ElementsIn DEF OrderTypeOK
    <3> QED BY <3>1, <3>3, <3>4
  <2> QED BY <2>1, <2>2
<1> QED BY <1>0, <1>3, <1>4, <1>5 DEF OrderInv

\* The rest of the script leaves the lists alone, or abandons them.
LEMMA OthersPreserve ==
  ASSUME OrderInv, UNCHANGED <<joins, pending, next, ordered, progress>>,
         stage' \in {"none", stage}
  PROVE  OrderInv'
<1>1. OrderTypeOK'
  BY DEF OrderInv, OrderTypeOK
<1>2. /\ Partition => Partition'
      /\ OrderedReady => OrderedReady'
      /\ Complete => Complete'
  BY DEF Partition, OrderedReady, DeclaredBefore, Complete
<1>3. StillNotReady => StillNotReady'
  BY DEF StillNotReady, Ready, network_satisfied, ORDERED_NETWORKS
<1>4. ProvidersFirst => ProvidersFirst'
  BY DEF ProvidersFirst, DeclaredBefore, Unresolvable, Deadlocked
<1> QED BY <1>1, <1>2, <1>3, <1>4 DEF OrderInv
-----------------------------------------------------------------------------
\* A step of the script.
LEMMA OrderStep ==
  ASSUME OrderInv, [Next]_vars
  PROVE  OrderInv'
<1>1. CASE UNCHANGED vars
  BY <1>1, OthersPreserve DEF vars, orderVars
<1>2. ASSUME NEW command \in {"start", "stop", "pull"}, Begin(command) PROVE OrderInv'
  BY <1>2, BeginPreserves, OthersPreserve DEF Begin, orderVars
<1>3. CASE Clean
  BY <1>3, OthersPreserve DEF Clean, orderVars
<1>4. CASE Mark
  BY <1>4, BeginPreserves DEF Mark
<1>5. CASE Order
  BY <1>5, VisitPreserves, NextPassPreserves, OrderEndPreserves DEF Order
<1>6. ASSUME NEW loop, NEW after, Step(loop, after) PROVE OrderInv'
  BY <1>6, OthersPreserve DEF Step, orderVars
<1>7. CASE Create \/ CreateFailure \/ Start \/ Failure("start", "idle")
  BY <1>6, <1>7 DEF Create, CreateFailure, Start, Failure
<1>8. CASE Stop \/ Failure("stop", "down") \/ Down \/ DownFailure
  BY <1>6, <1>8 DEF Stop, Failure, Down, DownFailure
<1>9. CASE Pull \/ PullFailure
  BY <1>6, <1>9 DEF Pull, PullFailure
<1>10. CASE \/ ContainerdUp \/ OtherRuns \/ OtherEnds
             \/ \E p \in Projects : UpByHand(p)
  BY <1>10, OthersPreserve DEF ContainerdUp, OtherRuns, OtherEnds, UpByHand, orderVars
<1>11. CASE Interrupt \/ Reboot
  BY <1>11, OthersPreserve DEF Interrupt, Reboot
<1> QED BY <1>1, <1>2, <1>3, <1>4, <1>5, <1>7, <1>8, <1>9, <1>10, <1>11 DEF Next

\* The inductive invariant holds in every state of the script.
THEOREM OrderInvariant == Spec => []OrderInv
<1>1. Init => OrderInv
  <2> SUFFICES ASSUME Init PROVE OrderInv
    OBVIOUS
  <2>1. <<>> \in Seq(Projects)
    OBVIOUS
  <2> QED BY <2>1, ComposeAssumption DEF Init, OrderInv, OrderTypeOK
<1>2. OrderInv /\ [Next]_vars => OrderInv'
  BY OrderStep
<1> QED BY <1>1, <1>2, PTL DEF Spec

\* Whatever the projects declare and join, and whatever fails around it,
\* order_compose_projects returns each project once, with the providers of what
\* it joins before it unless a cycle makes that impossible.
THEOREM OrderIsCorrect == Spec => []OrderCorrect
<1>1. OrderInv => OrderCorrect
  BY DEF OrderInv, OrderCorrect
<1> QED BY <1>1, OrderInvariant, PTL
-----------------------------------------------------------------------------
(* The loops over that order *)

Loops == {"create", "start", "stop", "down"}

ScriptTypeOK ==
  /\ pc \in {"idle", "clean", "mark", "order", "pull"} \cup Loops
  /\ op \in {"none", "start", "stop", "pull"} /\ marker \in BOOLEAN /\ failed \in BOOLEAN
  /\ at \in 1..Len(Files)
  /\ ctr \in [Projects -> {"none", "created", "running", "orphan"}]
  /\ nets \subseteq ALL_PROJECT_NETWORKS

\* The lists have as many projects as there are files, and the loops run over the
\* finished one.
LengthOK ==
  /\ stage = "sorting" => Len(ordered) + Len(next) + Len(pending) = Len(Files)
  /\ stage = "sorted" => Len(ordered) = Len(Files)
  /\ pc \in Loops => stage = "sorted"

\* Without a command the script is in none of its loops.
IdleOK == op = "none" => pc = "idle"

\* Without failures, the projects behind the creating loop have their networks.
CreatedSoFar == pc = "create" /\ ~failed => DeclaredBefore(at) \subseteq nets

AllResolvable == \A p \in Projects : ~Unresolvable(p)

\* Without failures, nothing is left of the projects behind the stopping loop.
DownSoFar ==
  pc = "down" /\ ~failed =>
    \A j \in 1..(at - 1) :
      /\ ctr[Reversed(j)] = "none"
      /\ AllResolvable => Declares[Reversed(j)] \cap nets = {}

ScriptInv ==
  /\ OrderInv /\ ScriptTypeOK /\ LengthOK /\ IdleOK /\ CreatedSoFar /\ DownSoFar

\* There is a first file.
LEMMA FilesIs == Files \in Seq(Projects) /\ Len(Files) \in Nat /\ 1 \in 1..Len(Files)
BY OrderAssumption, ComposeAssumption

\* A turn of a loop ends with the next project, or with the next loop.
LEMMA StepIs ==
  ASSUME NEW loop, NEW after, Step(loop, after), at \in 1..Len(Files)
  PROVE  /\ pc = loop /\ UNCHANGED <<joins, stage, pending, next, ordered, progress, marker>>
         /\ \/ /\ at < Len(Files) /\ at' = at + 1 /\ pc' = pc /\ op' = op
            \/ /\ at = Len(Files) /\ at' = 1 /\ pc' = after
               /\ IF after = "idle" THEN op' = "none" ELSE op' = op
         /\ at' \in 1..Len(Files)
<1>1. pc = loop /\ UNCHANGED <<joins, stage, pending, next, ordered, progress, marker>>
  BY DEF Step, orderVars
<1>2. CASE at < Len(Files)
  BY <1>1, <1>2, FilesIs DEF Step, Advance
<1>3. CASE ~(at < Len(Files))
  <2>1. at = Len(Files)
    BY <1>3, FilesIs
  <2> QED BY <1>1, <1>3, <2>1, FilesIs DEF Step, Advance, Goto, Exit
<1> QED BY <1>1, <1>2, <1>3

\* The project of a turn.
LEMMA TurnIs ==
  ASSUME OrderInv, LengthOK, stage = "sorted", NEW i \in 1..Len(Files)
  PROVE  /\ ordered \in Seq(Projects) /\ Len(ordered) = Len(Files) /\ Len(Files) \in Nat
         /\ ordered[i] \in Projects /\ Reversed(i) \in Projects
         /\ Len(Files) + 1 - i \in 1..Len(Files)
         /\ Reversed(i) = ordered[Len(Files) + 1 - i]
<1>1. ordered \in Seq(Projects) /\ Len(ordered) = Len(Files) /\ Len(Files) \in Nat
  BY FilesIs DEF OrderInv, OrderTypeOK, LengthOK
<1>2. Len(Files) + 1 - i \in 1..Len(Files)
  BY <1>1
<1> QED BY <1>1, <1>2 DEF Reversed

\* At a turn of the creating loop, the networks joined are those of projects
\* before it.
LEMMA NeedsAreThere ==
  ASSUME ScriptInv, pc = "create", ~failed, ~Unresolvable(ordered[at])
  PROVE  Needs(ordered[at]) \subseteq nets
<1>1. stage = "sorted" /\ at \in 1..Len(ordered)
  BY DEF ScriptInv, LengthOK, Loops, ScriptTypeOK
<1>2. ProvidersFirst
  BY <1>1 DEF ScriptInv, OrderInv
<1>3. joins[ordered[at]] \cap ALL_PROJECT_NETWORKS \subseteq DeclaredBefore(at)
  BY <1>1, <1>2 DEF ProvidersFirst
<1> QED BY <1>3 DEF ScriptInv, CreatedSoFar, Needs

\* At a turn of the stopping loop, no container of another project is attached to
\* a network of this one.
LEMMA NobodyAttached ==
  ASSUME ScriptInv, pc = "down", ~failed, AllResolvable
  PROVE  Declares[Reversed(at)] \cap UsedByOthers(Reversed(at)) = {}
<1> DEFINE n == Len(Files)
           i == n + 1 - at
           p == Reversed(at)
<1>1. stage = "sorted" /\ at \in 1..n /\ OrderInv /\ LengthOK
  BY DEF ScriptInv, LengthOK, Loops, ScriptTypeOK
<1>2. /\ ordered \in Seq(Projects) /\ Len(ordered) = n /\ n \in Nat
      /\ i \in 1..n /\ p = ordered[i]
  BY <1>1, TurnIs
<1>3. Complete /\ ProvidersFirst
  BY <1>1 DEF OrderInv
<1> SUFFICES ASSUME NEW net \in Declares[p], net \in UsedByOthers(p)
             PROVE  FALSE
  OBVIOUS
<1>4. PICK q \in Projects \ {p} : Present(q) /\ net \in Needs(q)
  BY DEF UsedByOthers
<1>5. PICK k \in 1..n : q = ordered[k]
  BY <1>2, <1>3, <1>4 DEF Complete, Elements
<1>6. k <= i
  <2> SUFFICES ASSUME k > i PROVE FALSE
    BY <1>2, <1>5
  <2>1. n + 1 - k \in 1..(at - 1) /\ n + 1 - (n + 1 - k) = k /\ n + 1 - k \in 1..n
    BY <1>1, <1>2, <1>5
  <2>2. Reversed(n + 1 - k) = q
    BY <1>2, <1>5, <2>1 DEF Reversed
  <2> QED BY <1>4, <2>1, <2>2 DEF ScriptInv, DownSoFar, Present
<1>7. k < i
  BY <1>2, <1>4, <1>5, <1>6
<1>8. PICK m \in 1..(k - 1) : net \in Declares[ordered[m]]
  <2>1. Needs(q) \subseteq DeclaredBefore(k)
    BY <1>2, <1>3, <1>4, <1>5 DEF ProvidersFirst, AllResolvable, Needs
  <2> QED BY <1>4, <2>1 DEF DeclaredBefore
<1>9. m \in 1..n /\ m # i
  BY <1>2, <1>5, <1>7, <1>8
<1>10. ordered[m] # ordered[i]
  BY <1>2, <1>3, <1>9 DEF Complete, NoDuplicates
<1>11. ordered[m] \in Projects /\ p \in Projects
  BY <1>2, <1>9
<1> QED BY <1>2, <1>8, <1>10, <1>11, ComposeAssumption

\* At the first turn of a loop there is nothing behind it.
LEMMA FirstTurn ==
  ASSUME at' = 1 \/ pc' \notin {"create", "down"}
  PROVE  CreatedSoFar' /\ DownSoFar'
BY DEF CreatedSoFar, DownSoFar, DeclaredBefore

\* The steps that leave the order and its loops alone.
LEMMA LengthStays ==
  ASSUME LengthOK, UNCHANGED <<pending, next, ordered>>, stage' \in {"none", stage},
         pc' \in Loops => stage' = stage /\ pc \in Loops
  PROVE  LengthOK'
BY DEF LengthOK

\* The sorting starts with all files pending.
LEMMA LengthBegins ==
  ASSUME OrderBegin, pc' \notin Loops
  PROVE  LengthOK'
<1>1. stage' = "sorting" /\ ordered' = <<>> /\ next' = <<>> /\ pending' = Files
  BY DEF OrderBegin
<1>2. Len(<<>>) = 0
  OBVIOUS
<1>3. Len(ordered') + Len(next') + Len(pending') = Len(Files)
  BY <1>1, <1>2, FilesIs
<1> QED BY <1>1, <1>3 DEF LengthOK

\* The start of a command, the cleaning, and the ends of a command.
LEMMA OutsideSteps ==
  ASSUME ScriptInv, OrderInv',
         \/ \E command \in {"start", "stop", "pull"} : Begin(command)
         \/ Clean
         \/ Mark
         \/ Interrupt
         \/ Reboot
  PROVE  ScriptInv'
<1> USE DEF ScriptInv
<1>1. CreatedSoFar' /\ DownSoFar'
  <2>1. at' = 1
    BY DEF Begin, Clean, Mark, Interrupt, Reboot, Goto, Exit
  <2> QED BY <2>1, FirstTurn
<1>2. ASSUME NEW command \in {"start", "stop", "pull"}, Begin(command)
      PROVE  ScriptTypeOK' /\ LengthOK' /\ IdleOK'
  <2>1. /\ UNCHANGED <<joins, up, nets, ctr, marker>> /\ op' = command /\ failed' = FALSE
        /\ at' = 1 /\ pc' = (IF command = "start" THEN "clean" ELSE
                             IF command = "stop" THEN "order" ELSE "pull")
    BY <1>2 DEF Begin, Goto, engine
  <2>2. ScriptTypeOK'
    BY <2>1, FilesIs DEF ScriptTypeOK, ALL_PROJECT_NETWORKS
  <2>3. IdleOK'
    BY <2>1 DEF IdleOK
  <2>4. pc' \notin Loops
    BY <2>1 DEF Loops
  <2>5. OrderBegin \/ UNCHANGED orderVars
    BY <1>2 DEF Begin
  <2> QED BY <2>2, <2>3, <2>4, <2>5, LengthBegins, LengthStays DEF orderVars
<1>3. CASE Clean
  <2>1. /\ UNCHANGED <<joins, up, nets, marker, op, failed>> /\ UNCHANGED orderVars
        /\ at' = 1 /\ pc' = "mark" /\ pc = "clean"
    BY <1>3 DEF Clean, Goto
  <2>2. ctr' \in [Projects -> {"none", "created", "running", "orphan"}]
    BY <1>3 DEF Clean, ScriptTypeOK
  <2>3. ScriptTypeOK'
    BY <2>1, <2>2, FilesIs DEF ScriptTypeOK, ALL_PROJECT_NETWORKS
  <2>4. IdleOK'
    BY <2>1, <2>2 DEF IdleOK
  <2>5. LengthOK'
    BY <2>1, LengthStays DEF orderVars, Loops
  <2> QED BY <1>1, <2>3, <2>4, <2>5
<1>4. CASE Mark
  <2>1. /\ UNCHANGED <<joins, up, nets, ctr, op, failed>> /\ OrderBegin
        /\ at' = 1 /\ pc = "mark" /\ pc' = "order" /\ marker' = TRUE
    BY <1>4 DEF Mark, Goto, engine
  <2>2. ScriptTypeOK'
    BY <2>1, FilesIs DEF ScriptTypeOK, ALL_PROJECT_NETWORKS
  <2>3. IdleOK'
    BY <2>1 DEF IdleOK
  <2>4. LengthOK'
    BY <2>1, LengthBegins DEF Loops
  <2> QED BY <1>1, <2>2, <2>3, <2>4
<1>5. CASE Interrupt
  <2>1. /\ UNCHANGED <<joins, nets, ctr, marker, failed, pending, next, ordered>>
        /\ stage' = "none" /\ at' = 1 /\ pc' = "idle" /\ op' = "none"
    BY <1>5 DEF Interrupt, Exit, Goto, engine
  <2>2. ScriptTypeOK'
    BY <2>1, FilesIs DEF ScriptTypeOK, ALL_PROJECT_NETWORKS
  <2>3. IdleOK'
    BY <2>1 DEF IdleOK
  <2>4. LengthOK'
    BY <2>1, LengthStays DEF Loops
  <2> QED BY <1>1, <2>2, <2>3, <2>4
<1>6. CASE Reboot
  <2>1. /\ UNCHANGED <<joins, pending, next, ordered>> /\ stage' = "none"
        /\ at' = 1 /\ pc' = "idle" /\ op' = "none" /\ marker' = FALSE /\ failed' = FALSE
        /\ nets' \in {nets, {}}
    BY <1>6 DEF Reboot, Exit, Goto
  <2>2. ctr' \in [Projects -> {"none", "created", "running", "orphan"}]
    BY <1>6 DEF Reboot
  <2>3. ScriptTypeOK'
    BY <2>1, <2>2, FilesIs DEF ScriptTypeOK, ALL_PROJECT_NETWORKS
  <2>4. IdleOK'
    BY <2>1, <2>2 DEF IdleOK
  <2>5. LengthOK'
    BY <2>1, LengthStays DEF Loops
  <2> QED BY <1>1, <2>3, <2>4, <2>5
<1> QED BY <1>1, <1>2, <1>3, <1>4, <1>5, <1>6

\* The sorting.
LEMMA SortingSteps ==
  ASSUME ScriptInv, OrderInv', Order
  PROVE  ScriptInv'
<1> USE DEF ScriptInv
<1>1. UNCHANGED <<joins, nets, ctr, marker, op, failed>> /\ pc = "order"
  BY DEF Order, engine
<1>2. /\ ordered \in Seq(Projects) /\ next \in Seq(Projects) /\ pending \in Seq(Projects)
      /\ Len(ordered) \in Nat /\ Len(next) \in Nat /\ Len(pending) \in Nat
  BY DEF OrderInv, OrderTypeOK
<1>3. CASE (Visit \/ NextPass) /\ UNCHANGED <<pc, at>>
  <2>1. CreatedSoFar' /\ DownSoFar'
    BY <1>1, <1>3, FirstTurn
  <2>2. ScriptTypeOK'
    BY <1>1, <1>3 DEF ScriptTypeOK, ALL_PROJECT_NETWORKS
  <2>3. IdleOK'
    BY <1>1, <1>3 DEF IdleOK
  <2>4. stage = "sorting" /\ stage' = "sorting"
    BY <1>3 DEF Visit, NextPass
  <2>5. Len(ordered') + Len(next') + Len(pending') = Len(Files)
    <3>1. Len(ordered) + Len(next) + Len(pending) = Len(Files)
      BY <2>4 DEF LengthOK
    <3>2. CASE Visit
      <4>1. /\ Head(pending) \in Projects /\ Len(Tail(pending)) = Len(pending) - 1
            /\ pending' = Tail(pending)
        BY <1>2, <3>2, TailFacts DEF Visit
      <4>2. /\ Len(Append(ordered, Head(pending))) = Len(ordered) + 1
            /\ Len(Append(next, Head(pending))) = Len(next) + 1
        BY <1>2, <4>1
      <4>3. \/ ordered' = Append(ordered, Head(pending)) /\ next' = next
            \/ next' = Append(next, Head(pending)) /\ ordered' = ordered
        BY <3>2 DEF Visit
      <4>4. /\ Len(pending') = Len(pending) - 1
            /\ \/ Len(ordered') = Len(ordered) + 1 /\ Len(next') = Len(next)
               \/ Len(ordered') = Len(ordered) /\ Len(next') = Len(next) + 1
        BY <4>1, <4>2, <4>3
      <4> QED BY <1>2, <3>1, <4>4
    <3>3. CASE NextPass
      <4>1. pending' = next /\ next' = <<>> /\ ordered' = ordered /\ pending = <<>>
        BY <3>3 DEF NextPass
      <4>2. Len(<<>>) = 0
        OBVIOUS
      <4> QED BY <1>2, <3>1, <4>1, <4>2
    <3> QED BY <1>3, <3>2, <3>3
  <2>6. LengthOK'
    BY <1>1, <1>3, <2>4, <2>5 DEF LengthOK, Loops
  <2> QED BY <2>1, <2>2, <2>3, <2>6
<1>4. CASE OrderEnd /\ Goto(IF op = "start" THEN "create" ELSE "stop")
  <2>1. at' = 1 /\ pc' = IF op = "start" THEN "create" ELSE "stop"
    BY <1>4 DEF Goto
  <2>2. CreatedSoFar' /\ DownSoFar'
    BY <2>1, FirstTurn
  <2>3. ScriptTypeOK'
    BY <1>1, <2>1, FilesIs DEF ScriptTypeOK, ALL_PROJECT_NETWORKS, Loops
  <2>4. IdleOK'
    BY <1>1, <2>1 DEF IdleOK
  <2>5. /\ Len(ordered) + Len(next) + Len(pending) = Len(Files) /\ pending = <<>>
        /\ ordered' = ordered \o next /\ stage' = "sorted"
    BY <1>4 DEF OrderEnd, LengthOK
  <2>6. Len(<<>>) = 0 /\ Len(ordered \o next) = Len(ordered) + Len(next)
    BY <1>2
  <2>7. Len(ordered') = Len(Files)
    BY <1>2, <2>5, <2>6
  <2>8. LengthOK'
    BY <2>5, <2>7 DEF LengthOK
  <2> QED BY <2>2, <2>3, <2>4, <2>8
<1> QED BY <1>3, <1>4 DEF Order

\* The turns that leave the networks and the order of the loops alone.
LEMMA TurnKeeps ==
  ASSUME ScriptInv, NEW loop \in {"create", "start", "stop", "down", "pull"},
         NEW after \in {"start", "down", "idle"}, Step(loop, after),
         loop = "create" => after = "start", after = "start" => loop = "create",
         loop = "pull" => after = "idle",
         failed' \in BOOLEAN,
         ctr' \in [Projects -> {"none", "created", "running", "orphan"}],
         nets' \subseteq ALL_PROJECT_NETWORKS
  PROVE  ScriptTypeOK' /\ LengthOK' /\ IdleOK'
<1>1. at \in 1..Len(Files) /\ ScriptTypeOK /\ LengthOK /\ IdleOK
  BY DEF ScriptInv, ScriptTypeOK
<1>2. /\ pc = loop /\ UNCHANGED <<joins, stage, pending, next, ordered, progress, marker>>
      /\ pc' \in {loop, after} /\ op' \in {op, "none"} /\ at' \in 1..Len(Files)
      /\ \/ pc' = loop /\ op' = op
         \/ pc' = after /\ (after = "idle" \/ op' = op)
  BY <1>1, StepIs
<1>3. ScriptTypeOK'
  BY <1>1, <1>2 DEF ScriptTypeOK, Loops, ALL_PROJECT_NETWORKS
<1>4. LengthOK'
  <2>1. pc' \in Loops => pc \in Loops
    BY <1>2 DEF Loops
  <2> QED BY <1>1, <1>2, <2>1, LengthStays
<1>5. IdleOK'
  BY <1>1, <1>2 DEF IdleOK
<1> QED BY <1>3, <1>4, <1>5

\* One project created.
LEMMA CreateSteps ==
  ASSUME ScriptInv, OrderInv', Create \/ CreateFailure
  PROVE  ScriptInv'
<1> DEFINE p == ordered[at]
<1>1. /\ Step("create", "start") /\ at \in 1..Len(Files) /\ pc = "create" /\ stage = "sorted"
      /\ OrderInv /\ LengthOK /\ ScriptTypeOK
  BY DEF ScriptInv, ScriptTypeOK, LengthOK, Loops, Create, CreateFailure, Step
<1>2. /\ p \in Projects /\ Declares[p] \subseteq ALL_PROJECT_NETWORKS
      /\ nets \subseteq ALL_PROJECT_NETWORKS
  BY <1>1, TurnIs DEF ALL_PROJECT_NETWORKS, ScriptTypeOK
<1>3. /\ failed' \in BOOLEAN /\ nets' \subseteq ALL_PROJECT_NETWORKS
      /\ ctr' \in [Projects -> {"none", "created", "running", "orphan"}]
  BY <1>1, <1>2 DEF Create, CreateFailure, ScriptTypeOK
<1>4. ScriptTypeOK' /\ LengthOK' /\ IdleOK'
  BY <1>1, <1>3, TurnKeeps
<1>5. /\ \/ /\ at < Len(Files) /\ at' = at + 1 /\ pc' = pc
         \/ at' = 1
      /\ ordered' = ordered
  BY <1>1, StepIs
<1>6. CreatedSoFar' /\ DownSoFar'
  <2>1. CASE at' = 1
    BY <2>1, FirstTurn
  <2>2. CASE at' = at + 1 /\ pc' = "create" /\ failed'
    BY <2>2 DEF CreatedSoFar, DownSoFar
  <2>3. CASE at' = at + 1 /\ pc' = "create" /\ ~failed'
    <3>1. ~failed /\ nets' = nets \cup Declares[p]
      BY <2>3 DEF Create, CreateFailure
    <3>2. UNION {Declares[ordered[j]] : j \in 1..(at - 1)} \subseteq nets
      BY <1>1, <3>1 DEF ScriptInv, CreatedSoFar, DeclaredBefore
    <3>3. 1..((at + 1) - 1) = 1..(at - 1) \cup {at}
      BY <1>1, FilesIs
    <3>4. UNION {Declares[ordered[j]] : j \in 1..((at + 1) - 1)} \subseteq nets'
      BY <3>1, <3>2, <3>3
    <3> QED BY <1>5, <2>3, <3>4 DEF CreatedSoFar, DownSoFar, DeclaredBefore
  <2> QED BY <1>1, <1>5, <2>1, <2>2, <2>3
<1> QED BY <1>4, <1>6 DEF ScriptInv

\* The turns of the loops that start and stop containers, and of pull.
LEMMA RunSteps ==
  ASSUME ScriptInv, OrderInv',
         \/ Start \/ Failure("start", "idle")
         \/ Stop \/ Failure("stop", "down")
         \/ Pull \/ PullFailure
  PROVE  ScriptInv'
<1>1. /\ ScriptTypeOK /\ OrderInv /\ LengthOK /\ at \in 1..Len(Files)
      /\ ctr \in [Projects -> {"none", "created", "running", "orphan"}]
      /\ nets \subseteq ALL_PROJECT_NETWORKS /\ failed \in BOOLEAN
  BY DEF ScriptInv, ScriptTypeOK
<1>2. CASE Start \/ Failure("start", "idle")
  <2>1. Step("start", "idle") /\ nets' = nets /\ failed' \in BOOLEAN
    BY <1>1, <1>2 DEF Start, Failure
  <2>2. ctr' \in [Projects -> {"none", "created", "running", "orphan"}]
    BY <1>1, <1>2 DEF Start, Failure
  <2>3. ScriptTypeOK' /\ LengthOK' /\ IdleOK'
    BY <1>1, <2>1, <2>2, TurnKeeps
  <2>4. pc' \in {"start", "idle"}
    BY <1>1, <2>1, StepIs
  <2> QED BY <2>3, <2>4, FirstTurn DEF ScriptInv
<1>3. CASE Stop \/ Failure("stop", "down")
  <2>1. Step("stop", "down") /\ nets' = nets /\ failed' \in BOOLEAN
    BY <1>1, <1>3 DEF Stop, Failure
  <2>2. ctr' \in [Projects -> {"none", "created", "running", "orphan"}]
    BY <1>1, <1>3 DEF Stop, Failure
  <2>3. ScriptTypeOK' /\ LengthOK' /\ IdleOK'
    BY <1>1, <2>1, <2>2, TurnKeeps
  <2>4. pc' = "stop" \/ at' = 1
    BY <1>1, <2>1, StepIs
  <2> QED BY <2>3, <2>4, FirstTurn DEF ScriptInv
<1>4. CASE Pull \/ PullFailure
  <2>1. Step("pull", "idle") /\ failed' \in BOOLEAN
    BY <1>1, <1>4 DEF Pull, PullFailure
  <2>2. nets' \subseteq ALL_PROJECT_NETWORKS
    <3>1. Declares[Files[at]] \subseteq ALL_PROJECT_NETWORKS
      BY <1>1, FilesIs DEF ALL_PROJECT_NETWORKS
    <3> QED BY <1>1, <1>4, <3>1 DEF Pull, PullFailure
  <2>3. ctr' \in [Projects -> {"none", "created", "running", "orphan"}]
    BY <1>1, <1>4 DEF Pull, PullFailure
  <2>4. ScriptTypeOK' /\ LengthOK' /\ IdleOK'
    BY <1>1, <2>1, <2>2, <2>3, TurnKeeps
  <2>5. pc' \in {"pull", "idle"}
    BY <1>1, <2>1, StepIs
  <2> QED BY <2>4, <2>5, FirstTurn DEF ScriptInv
<1> QED BY <1>2, <1>3, <1>4

\* One project torn down.
LEMMA DownSteps ==
  ASSUME ScriptInv, OrderInv', Down \/ DownFailure
  PROVE  /\ ScriptInv'
         /\ Down /\ ~failed => ctr'[Reversed(at)] = "none"
         /\ Down /\ ~failed /\ AllResolvable => Declares[Reversed(at)] \cap nets' = {}
         /\ nets' \subseteq nets /\ \A q \in Projects : ctr'[q] \in {ctr[q], "none"}
<1> DEFINE p == Reversed(at)
<1>1. /\ Step("down", "idle") /\ at \in 1..Len(Files) /\ pc = "down" /\ stage = "sorted"
      /\ OrderInv /\ LengthOK /\ ScriptTypeOK
  BY DEF ScriptInv, ScriptTypeOK, LengthOK, Loops, Down, DownFailure, Step
<1>2. p \in Projects /\ nets \subseteq ALL_PROJECT_NETWORKS
  BY <1>1, TurnIs DEF ScriptTypeOK
<1>3. /\ failed' \in BOOLEAN /\ nets' \subseteq nets
      /\ ctr' \in [Projects -> {"none", "created", "running", "orphan"}]
      /\ \A q \in Projects : ctr'[q] \in {ctr[q], "none"}
  BY <1>1, <1>2 DEF Down, DownFailure, ScriptTypeOK
<1>4. ScriptTypeOK' /\ LengthOK' /\ IdleOK'
  <2>1. nets' \subseteq ALL_PROJECT_NETWORKS
    BY <1>2, <1>3
  <2> QED BY <1>1, <1>3, <2>1, TurnKeeps
<1>5. ASSUME Down, ~failed
      PROVE  /\ ctr'[p] = "none"
             /\ AllResolvable => Declares[p] \cap nets' = {}
  <2>1. ctr'[p] = "none" /\ failed' = failed
    BY <1>1, <1>2, <1>5 DEF Down, ScriptTypeOK
  <2>2. ASSUME AllResolvable PROVE Declares[p] \cap nets' = {}
    <3>1. Declares[p] \cap UsedByOthers(p) = {}
      BY <1>1, <1>5, <2>2, NobodyAttached
    <3>2. nets' = nets \ (Declares[p] \ UsedByOthers(p))
      BY <1>5 DEF Down
    <3> QED BY <3>1, <3>2
  <2> QED BY <2>1, <2>2
<1>6. /\ \/ /\ at < Len(Files) /\ at' = at + 1 /\ pc' = pc
         \/ at' = 1
      /\ ordered' = ordered /\ joins' = joins
  BY <1>1, StepIs
<1>7. CreatedSoFar' /\ DownSoFar'
  <2>1. CASE at' = 1
    BY <2>1, FirstTurn
  <2>2. CASE at' = at + 1 /\ pc' = "down" /\ failed'
    BY <2>2 DEF CreatedSoFar, DownSoFar
  <2>3. CASE at' = at + 1 /\ pc' = "down" /\ ~failed'
    <3>1. ~failed /\ Down
      BY <1>3, <2>3 DEF Down, DownFailure
    <3>2. 1..(at' - 1) = 1..(at - 1) \cup {at}
      BY <1>1, <2>3, FilesIs
    <3>3. AllResolvable' = AllResolvable
      BY <1>6 DEF AllResolvable, Unresolvable, Deadlocked
    <3>4. ASSUME NEW j \in 1..(at - 1) \cup {at}
          PROVE  /\ ctr'[Reversed(j)] = "none"
                 /\ AllResolvable => Declares[Reversed(j)] \cap nets' = {}
      <4>1. CASE j = at
        BY <1>5, <3>1, <4>1
      <4>2. CASE j \in 1..(at - 1)
        <5>1. /\ ctr[Reversed(j)] = "none"
              /\ AllResolvable => Declares[Reversed(j)] \cap nets = {}
          BY <1>1, <3>1, <4>2 DEF ScriptInv, DownSoFar
        <5>2. j \in 1..Len(Files)
          BY <1>1, <4>2, FilesIs
        <5>3. Reversed(j) \in Projects
          BY <1>1, <5>2, TurnIs
        <5> QED BY <1>3, <5>1, <5>3
      <4> QED BY <3>4, <4>1, <4>2
    <3>5. \A j \in 1..(at' - 1) :
            /\ ctr'[Reversed(j)] = "none"
            /\ AllResolvable' => Declares[Reversed(j)] \cap nets' = {}
      BY <3>2, <3>3, <3>4
    <3>6. \A j : Reversed(j)' = Reversed(j)
      BY <1>6 DEF Reversed
    <3> QED BY <2>3, <3>5, <3>6 DEF CreatedSoFar, DownSoFar
  <2> QED BY <1>1, <1>6, <2>1, <2>2, <2>3
<1> QED BY <1>3, <1>4, <1>5, <1>7 DEF ScriptInv

\* Before any command nothing has been done.
LEMMA ScriptInit ==
  ASSUME Init
  PROVE  ScriptInv
<1>1. OrderInv
  <2>1. <<>> \in Seq(Projects)
    OBVIOUS
  <2> QED BY <2>1, ComposeAssumption DEF Init, OrderInv, OrderTypeOK
<1>2. ScriptTypeOK
  BY FilesIs DEF Init, ScriptTypeOK
<1>3. LengthOK /\ IdleOK
  BY DEF Init, LengthOK, IdleOK, Loops
<1>4. CreatedSoFar /\ DownSoFar
  BY DEF Init, CreatedSoFar, DownSoFar
<1> QED BY <1>1, <1>2, <1>3, <1>4 DEF ScriptInv

\* Every step of the script and of the engine keeps the invariant.
LEMMA ScriptStep ==
  ASSUME ScriptInv, [Next]_vars
  PROVE  ScriptInv'
<1>1. OrderInv'
  BY OrderStep DEF ScriptInv
<1>2. CASE UNCHANGED vars \/ ContainerdUp \/ OtherRuns \/ OtherEnds
  <2>1. /\ UNCHANGED <<joins, stage, pending, next, ordered, progress>>
        /\ UNCHANGED <<nets, ctr, marker, op, pc, at, failed>>
    BY <1>2 DEF vars, orderVars, engine, script, ContainerdUp, OtherRuns, OtherEnds
  <2>2. ScriptTypeOK' /\ LengthOK' /\ IdleOK' /\ CreatedSoFar'
    BY <2>1 DEF ScriptInv, ScriptTypeOK, ALL_PROJECT_NETWORKS, LengthOK, IdleOK,
                CreatedSoFar, DeclaredBefore
  <2>3. AllResolvable' = AllResolvable /\ \A j : Reversed(j)' = Reversed(j)
    BY <2>1 DEF AllResolvable, Unresolvable, Deadlocked, Reversed
  <2>4. DownSoFar'
    BY <2>1, <2>3 DEF ScriptInv, DownSoFar
  <2> QED BY <1>1, <2>2, <2>4 DEF ScriptInv
<1>3. CASE \/ \E command \in {"start", "stop", "pull"} : Begin(command)
           \/ Clean
           \/ Mark
           \/ Interrupt
           \/ Reboot
  BY <1>1, <1>3, OutsideSteps
<1>4. CASE Order
  BY <1>1, <1>4, SortingSteps
<1>5. CASE Create \/ CreateFailure
  BY <1>1, <1>5, CreateSteps
<1>6. CASE \/ Start \/ Failure("start", "idle")
           \/ Stop \/ Failure("stop", "down")
           \/ Pull \/ PullFailure
  BY <1>1, <1>6, RunSteps
<1>7. CASE Down \/ DownFailure
  BY <1>1, <1>7, DownSteps
<1>8. CASE \E p \in Projects : UpByHand(p)
  <2>1. PICK p \in Projects : UpByHand(p)
    BY <1>8
  <2>2. /\ UNCHANGED <<joins, stage, pending, next, ordered, progress>>
        /\ UNCHANGED <<marker, op, pc, at, failed>> /\ op = "none"
        /\ nets' = nets \cup Declares[p] /\ ctr' = [ctr EXCEPT ![p] = "running"]
    BY <2>1 DEF UpByHand, orderVars, script
  <2>3. pc = "idle" /\ pc' = "idle"
    BY <2>2 DEF ScriptInv, IdleOK
  <2>4. Declares[p] \subseteq ALL_PROJECT_NETWORKS
    BY DEF ALL_PROJECT_NETWORKS
  <2>5. ScriptTypeOK'
    BY <2>2, <2>4 DEF ScriptInv, ScriptTypeOK, ALL_PROJECT_NETWORKS
  <2>6. LengthOK' /\ IdleOK' /\ CreatedSoFar' /\ DownSoFar'
    BY <2>2, <2>3 DEF ScriptInv, LengthOK, IdleOK, CreatedSoFar, DownSoFar, Loops
  <2> QED BY <1>1, <2>5, <2>6 DEF ScriptInv
<1> QED BY <1>2, <1>3, <1>4, <1>5, <1>6, <1>7, <1>8 DEF Next

\* What the script has done so far in its loops, in every state.
THEOREM ScriptInvariant == Spec => []ScriptInv
<1>1. Init => ScriptInv
  BY ScriptInit
<1>2. ScriptInv /\ [Next]_vars => ScriptInv'
  BY ScriptStep
<1> QED BY <1>1, <1>2, PTL DEF Spec

\* A start whose commands succeed never meets a missing network that some order
\* could have provided, after any earlier commands and boots.
THEOREM CreateFindsNetworks == Spec => []NetworksExistAtCreate
<1>1. ScriptInv => NetworksExistAtCreate
  BY NeedsAreThere DEF NetworksExistAtCreate
<1> QED BY <1>1, ScriptInvariant, PTL

\* A stop whose commands succeed takes no network away from the containers of
\* another project.
THEOREM StopTakesConsumersFirst == Spec => []ConsumersGoFirst
<1>1. ScriptInv => ConsumersGoFirst
  BY NobodyAttached DEF ConsumersGoFirst, AllResolvable
<1> QED BY <1>1, ScriptInvariant, PTL

\* A stop whose commands succeed leaves no container and no network behind, whatever
\* earlier commands that failed had left.
THEOREM StopIsComplete == Spec => StopLeavesNothing
<1>1. ASSUME ScriptInv, [Next]_vars, Down, at = Len(Files), ~failed, AllResolvable
      PROVE  nets' = {} /\ \A p \in Projects : ctr'[p] = "none"
  <2>1. OrderInv'
    BY <1>1, OrderStep DEF ScriptInv
  <2>2. /\ ctr'[Reversed(at)] = "none" /\ Declares[Reversed(at)] \cap nets' = {}
        /\ nets' \subseteq nets /\ \A q \in Projects : ctr'[q] \in {ctr[q], "none"}
    BY <1>1, <2>1, DownSteps
  <2>3. /\ pc = "down" /\ stage = "sorted" /\ OrderInv /\ LengthOK /\ at \in 1..Len(Files)
        /\ Len(Files) \in Nat /\ nets \subseteq ALL_PROJECT_NETWORKS
    BY <1>1, FilesIs DEF ScriptInv, ScriptTypeOK, LengthOK, Loops, Down, Step
  <2>4. ASSUME NEW p \in Projects
        PROVE  ctr'[p] = "none" /\ Declares[p] \cap nets' = {}
    <3>1. ordered \in Seq(Projects) /\ Len(ordered) = Len(Files)
      BY <2>3, TurnIs
    <3>2. PICK k \in 1..Len(Files) : p = ordered[k]
      BY <2>3, <3>1 DEF OrderInv, Complete, Elements
    <3> DEFINE j == Len(Files) + 1 - k
    <3>3. j \in 1..Len(Files) /\ Len(Files) + 1 - j = k
      BY <2>3, <3>2
    <3>4. Reversed(j) = p
      BY <3>1, <3>2, <3>3 DEF Reversed
    <3> HIDE DEF j
    <3>5. CASE j = at
      BY <2>2, <3>4, <3>5
    <3>6. CASE j \in 1..(at - 1)
      <4>1. ctr[p] = "none" /\ Declares[p] \cap nets = {}
        BY <1>1, <2>3, <3>4, <3>6 DEF ScriptInv, DownSoFar
      <4> QED BY <2>2, <4>1
    <3> QED BY <1>1, <2>3, <3>3, <3>5, <3>6
  <2>5. nets' \subseteq UNION {Declares[p] : p \in Projects}
    BY <2>2, <2>3 DEF ALL_PROJECT_NETWORKS
  <2> QED BY <2>4, <2>5
<1>2. ScriptInv /\ [Next]_vars =>
        [Down /\ at = Len(Files) /\ ~failed /\ (\A p \in Projects : ~Unresolvable(p)) =>
           nets' = {} /\ \A p \in Projects : ctr'[p] = "none"]_vars
  BY <1>1 DEF AllResolvable
<1> QED BY <1>2, ScriptInvariant, PTL DEF Spec, StopLeavesNothing

\* Past the first start of a boot, what runs goes on running until a stop, a failed
\* update or a reboot, and the script never ends a container of no project.
THEOREM RunningIsKept == Spec => RunningSurvives
<1>1. ASSUME ScriptInv, [Next]_vars, NEW p \in Projects, ctr[p] = "running", ctr'[p] # "running"
      PROVE  pc \in {"stop", "down"} \/ (pc = "pull" /\ failed') \/ ~marker'
  <2>1. ctr \in [Projects -> {"none", "created", "running", "orphan"}]
    BY <1>1 DEF ScriptInv, ScriptTypeOK
  <2>2. CASE UNCHANGED ctr
    BY <1>1, <2>2
  <2>3. CASE Clean
    BY <1>1, <2>3 DEF Clean
  <2>4. CASE Create \/ CreateFailure
    BY <1>1, <2>1, <2>4 DEF Create, CreateFailure
  <2>5. CASE Start \/ \E q \in Projects : UpByHand(q)
    BY <1>1, <2>1, <2>5 DEF Start, UpByHand
  <2>6. CASE Stop \/ PullFailure \/ Down \/ DownFailure
    BY <2>6 DEF Stop, PullFailure, Down, DownFailure, Step
  <2>7. CASE Reboot
    BY <2>7 DEF Reboot
  <2> QED BY <1>1, <2>2, <2>3, <2>4, <2>5, <2>6, <2>7
          DEF Next, vars, engine, Begin, Mark, Order, Failure, Pull, ContainerdUp, OtherRuns,
              OtherEnds, Interrupt
<1>2. ASSUME [Next]_vars, other = "running", other' # "running"
      PROVE  OtherEnds \/ ~marker'
  <2>1. CASE UNCHANGED other
    BY <1>2, <2>1
  <2>2. CASE Clean
    BY <1>2, <2>2 DEF Clean
  <2>3. CASE OtherRuns \/ OtherEnds \/ Reboot
    BY <1>2, <2>3 DEF OtherRuns, Reboot
  <2>4. CASE \/ Create \/ CreateFailure \/ Start \/ Failure("start", "idle")
             \/ Stop \/ Failure("stop", "down") \/ Down \/ DownFailure \/ Pull \/ PullFailure
    BY <2>1, <2>4 DEF Create, CreateFailure, Start, Failure, Stop, Down, DownFailure, Pull,
                      PullFailure, Step
  <2> QED BY <1>2, <2>1, <2>2, <2>3, <2>4
          DEF Next, vars, engine, Begin, Mark, Order, ContainerdUp, UpByHand, Interrupt
<1>3. ScriptInv /\ [Next]_vars =>
        [/\ \A p \in Projects : ctr[p] = "running" /\ ctr'[p] # "running" =>
              pc \in {"stop", "down"} \/ (pc = "pull" /\ failed') \/ ~marker'
         /\ other = "running" /\ other' # "running" => OtherEnds \/ ~marker']_vars
  BY <1>1, <1>2
<1> QED BY <1>3, ScriptInvariant, PTL DEF Spec, RunningSurvives
=============================================================================

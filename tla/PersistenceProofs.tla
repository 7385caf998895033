------------------------- MODULE PersistenceProofs -------------------------
(***************************************************************************)
(* What setup-persistence guarantees for any number of devices, whatever     *)
(* fails and wherever earlier boots were cut off.                            *)
(***************************************************************************)
EXTENDS Persistence, SequenceTheorems, WellFoundedInduction, TLAPS

(* Dataset names *)

Words == {"vault", "persistent", "data", "overlay", "swap", "oci", "containerd", "docker",
          "coolify", "compose", "logs", "volumes"}

\* A name is one to four words.
LEMMA TupleIs ==
  ASSUME NEW S, NEW a \in S, NEW b \in S, NEW c \in S, NEW d \in S
  PROVE  /\ <<a>> \in Seq(S) /\ Len(<<a>>) = 1
         /\ <<a, b>> \in Seq(S) /\ Len(<<a, b>>) = 2
         /\ <<a, b, c>> \in Seq(S) /\ Len(<<a, b, c>>) = 3
         /\ <<a, b, c, d>> \in Seq(S) /\ Len(<<a, b, c, d>>) = 4
OBVIOUS

\* A name without its last word.
LEMMA FrontIs ==
  ASSUME NEW S, NEW s \in Seq(S), NEW t \in Seq(S), Len(s) = Len(t) + 1,
         \A i \in 1..Len(t) : s[i] = t[i]
  PROVE  Front(s) = t
<1>1. Len(t) \in Nat /\ Len(s) - 1 = Len(t)
  OBVIOUS
<1>2. /\ SubSeq(s, 1, Len(t)) \in Seq(S) /\ Len(SubSeq(s, 1, Len(t))) = Len(t)
      /\ \A i \in 1..Len(t) : SubSeq(s, 1, Len(t))[i] = s[i]
  BY <1>1
<1>3. SubSeq(s, 1, Len(t)) = t
  BY <1>1, <1>2, SeqEqual
<1> QED BY <1>1, <1>3 DEF Front

\* A proper beginning of a name is one of the name without its last word.
LEMMA PrefixIs ==
  ASSUME NEW S, NEW m \in Seq(S), NEW n \in Seq(S), IsPrefix(m, n), m # n
  PROVE  IsPrefix(m, Front(n)) /\ Len(m) < Len(n)
<1>1. /\ Len(m) \in Nat /\ Len(n) \in Nat
      /\ SubSeq(m, 1, Len(m)) = m /\ SubSeq(n, 1, Len(n)) = n
  OBVIOUS
<1>2. Len(m) < Len(n)
  BY <1>1 DEF IsPrefix
<1>3. Front(n) \in Seq(S) /\ Len(Front(n)) = Len(n) - 1
  BY <1>1, <1>2 DEF Front
<1>4. SubSeq(Front(n), 1, Len(m)) = SubSeq(n, 1, Len(m))
  BY <1>1, <1>2, <1>3 DEF Front
<1> QED BY <1>1, <1>2, <1>3, <1>4 DEF IsPrefix

\* A dataset is held by itself.
LEMMA PrefixOfSelf ==
  ASSUME NEW S, NEW n \in Seq(S)
  PROVE  IsPrefix(n, n)
BY DEF IsPrefix

\* The datasets in the order they are created in: all different, each after the
\* one that holds it.
LEMMA OrderIs ==
  /\ Len(Order) = 13 /\ DOMAIN Order = 1..13
  /\ Datasets = {Order[i] : i \in 1..13}
  /\ Order[1] = Vault /\ Order[9] = DATA /\ Order[10] = OVERLAY /\ Order[13] = SWAP
  /\ \A i, j \in 1..13 : Order[i] = Order[j] => i = j
  /\ \A i \in 1..13 : Order[i] \in Seq(Words) /\ Len(Order[i]) \in Nat \ {0}
  /\ Len(Vault) = 1 /\ Len(SWAP) = 1
  /\ \A i \in 1..13 : Len(Order[i]) > 1 => \E j \in 1..(i - 1) : Front(Order[i]) = Order[j]
<1> USE DEF Vault, SWAP, DATA, OVERLAY
<1>1. Len(Order) = 13 /\ DOMAIN Order = 1..13
  BY DEF Order
<1>2. Datasets = {Order[i] : i \in 1..13}
  BY <1>1 DEF Datasets, ToSet
<1>3. Order[1] = Vault /\ Order[9] = DATA /\ Order[10] = OVERLAY /\ Order[13] = SWAP
  BY DEF Order
<1>4. \A i, j \in 1..13 : Order[i] = Order[j] => i = j
  BY DEF Order
<1>5. /\ Order[1] = <<"vault">> /\ Order[13] = <<"swap">>
      /\ Order[2] = <<"vault", "persistent">> /\ Order[4] = <<"vault", "oci">>
      /\ \A i \in {3, 8, 9, 10, 11, 12} :
           \E w \in Words : Order[i] = <<"vault", "persistent", w>>
      /\ \A i \in {5, 6} : \E w \in Words : Order[i] = <<"vault", "oci", w>>
      /\ Order[7] = <<"vault", "persistent", "oci", "coolify">>
  BY DEF Order, Words
<1>6. \A i \in 1..13 : Order[i] \in Seq(Words) /\ Len(Order[i]) \in Nat \ {0}
  <2>1. /\ "vault" \in Words /\ "persistent" \in Words /\ "oci" \in Words
        /\ "coolify" \in Words /\ "swap" \in Words
    BY DEF Words
  <2>2. \A i \in {1, 13, 2, 4, 7} : Order[i] \in Seq(Words) /\ Len(Order[i]) \in Nat \ {0}
    <3>1. \A w \in Words : <<w>> \in Seq(Words) /\ Len(<<w>>) = 1
      BY TupleIs
    <3>2. \A w, x \in Words : <<w, x>> \in Seq(Words) /\ Len(<<w, x>>) = 2
      BY TupleIs
    <3>3. \A w, x, y, z \in Words :
            <<w, x, y, z>> \in Seq(Words) /\ Len(<<w, x, y, z>>) = 4
      BY TupleIs
    <3>4. \A i \in {1, 13} : Order[i] \in Seq(Words) /\ Len(Order[i]) = 1
      BY <1>5, <2>1, <3>1
    <3>5. Order[2] \in Seq(Words) /\ Len(Order[2]) = 2
      BY <1>5, <2>1, <3>2
    <3>6. Order[4] \in Seq(Words) /\ Len(Order[4]) = 2
      BY <1>5, <2>1, <3>2
    <3>7. Order[7] \in Seq(Words) /\ Len(Order[7]) = 4
      BY <1>5, <2>1, <3>3
    <3>8. 1 \in Nat \ {0} /\ 2 \in Nat \ {0} /\ 4 \in Nat \ {0}
      OBVIOUS
    <3> QED BY <3>4, <3>5, <3>6, <3>7, <3>8, Zenon
  <2>3. \A i \in {3, 8, 9, 10, 11, 12, 5, 6} :
          Order[i] \in Seq(Words) /\ Len(Order[i]) \in Nat \ {0}
    <3> TAKE i \in {3, 8, 9, 10, 11, 12, 5, 6}
    <3>1. PICK w \in Words, x \in {"persistent", "oci"} : Order[i] = <<"vault", x, w>>
      BY <1>5
    <3>2. x \in Words
      BY <2>1, <3>1
    <3> QED BY <2>1, <3>1, <3>2, TupleIs
  <2>4. 1..13 = {1, 13, 2, 4, 7} \cup {3, 8, 9, 10, 11, 12, 5, 6}
    OBVIOUS
  <2> QED BY <2>2, <2>3, <2>4
<1>7. ASSUME NEW i \in 1..13, NEW j \in 1..13, Len(Order[i]) = Len(Order[j]) + 1,
             \A k \in 1..Len(Order[j]) : Order[i][k] = Order[j][k]
      PROVE  Front(Order[i]) = Order[j]
  BY <1>6, <1>7, FrontIs
<1>8. /\ Front(Order[2]) = Order[1] /\ Front(Order[3]) = Order[2] /\ Front(Order[4]) = Order[1]
      /\ Front(Order[5]) = Order[4] /\ Front(Order[6]) = Order[4] /\ Front(Order[7]) = Order[3]
  BY <1>7 DEF Order
<1>9. /\ Front(Order[8]) = Order[2] /\ Front(Order[9]) = Order[2] /\ Front(Order[10]) = Order[2]
      /\ Front(Order[11]) = Order[2] /\ Front(Order[12]) = Order[2]
  BY <1>7 DEF Order
<1>10. Len(Order[1]) = 1 /\ Len(Order[13]) = 1 /\ Len(Vault) = 1 /\ Len(SWAP) = 1
  BY <1>3
<1>11. ASSUME NEW i \in 1..13, Len(Order[i]) > 1
       PROVE  \E j \in 1..(i - 1) : Front(Order[i]) = Order[j]
  <2>1. i # 1 /\ i # 13
    <3>1. ~(1 > 1)
      OBVIOUS
    <3> QED BY <1>10, <1>11, <3>1
  <2>2. i \in {2, 3, 4, 5, 6, 7, 8, 9, 10, 11, 12}
    BY <2>1
  <2> QED BY <1>8, <1>9, <2>2
<1> QED BY <1>1, <1>2, <1>3, <1>4, <1>6, <1>10, <1>11
-----------------------------------------------------------------------------
(* The size of the swap volume *)

\* A size rounded up to a multiple of h.
LEMMA Rounding ==
  ASSUME NEW a \in Nat, NEW h \in Nat \ {0}
  PROVE  LET q == (a + h - 1) \div h
         IN  q \in Nat /\ a <= q * h /\ q * h < a + h /\ (q * h) % h = 0
<1> DEFINE q == (a + h - 1) \div h
<1>1. q \in Nat /\ a <= q * h /\ q * h < a + h
  OBVIOUS
<1> HIDE DEF q
<1>2. (q * h) % h = 0
  BY <1>1
<1> QED BY <1>1, <1>2 DEF q

\* The swap volume fits, has at most eight gigabytes and, below that, at least a tenth
\* of what is available, for every size of the pool.
LEMMA SwapSize ==
  ASSUME NEW z \in Free
  PROVE  LET size == calculate_swap_size(z)
         IN  /\ 0 < size /\ size <= z /\ size <= EightGb
             /\ size < EightGb => size >= z \div 10
             /\ size % HalfGigabyte = 0 \/ z < HalfGigabyte
<1> DEFINE h == HalfGigabyte
           tenth == z \div 10
           q == (tenth + h - 1) \div h
           r == q * h
           size == calculate_swap_size(z)
<1>1. z \in Nat /\ z >= 10 /\ h \in Nat \ {0} /\ EightGb \in Nat \ {0} /\ EightGb % h = 0
  BY PersistenceAssumption
<1>2. tenth \in Nat /\ tenth >= 1 /\ tenth <= z /\ 10 * tenth <= z
  BY <1>1
<1> HIDE DEF tenth
<1>9. q \in Nat /\ tenth <= r /\ r < tenth + h /\ r % h = 0
  BY <1>1, <1>2, Rounding
<1>5. size = (IF (IF r > EightGb THEN EightGb ELSE r) > z
              THEN tenth ELSE IF r > EightGb THEN EightGb ELSE r)
  BY DEF calculate_swap_size, tenth
<1> HIDE DEF q
<1>3. r \in Nat /\ tenth <= r /\ r < tenth + h /\ r % h = 0
  BY <1>1, <1>9
<1>4. ASSUME tenth <= h PROVE r <= h
  <2>1. q < 2
    BY <1>1, <1>2, <1>4, <1>9
  <2>2. q = 0 \/ q = 1
    BY <1>9, <2>1
  <2> QED BY <1>1, <2>2
<1> HIDE DEF r, size
<1>6. 0 < size /\ size <= z /\ size <= EightGb
  BY <1>1, <1>2, <1>3, <1>5
<1>7. size < EightGb => size >= tenth
  BY <1>1, <1>2, <1>3, <1>5
<1>8. size % h = 0 \/ z < h
  <2>1. CASE (IF r > EightGb THEN EightGb ELSE r) > z
    <3>1. r > z
      BY <1>1, <1>3, <2>1
    <3>2. tenth <= h
      BY <1>1, <1>2, <1>3, <3>1
    <3> QED BY <1>1, <1>3, <1>4, <3>1, <3>2
  <2>2. CASE ~((IF r > EightGb THEN EightGb ELSE r) > z)
    BY <1>1, <1>3, <1>5, <2>2
  <2> QED BY <2>1, <2>2
<1> QED BY <1>6, <1>7, <1>8 DEF size, tenth
-----------------------------------------------------------------------------
(* The inductive invariant *)

Steps == {"id", "find", "magic", "create", "list", "datasets", "mkswap", "swapon", "version",
          "tmpfs", "temporary", "overlay", "missing", "done", "exit"}

DiskOK ==
  /\ media \in [Devs -> {"blank", "magic", "pool"}]
  /\ made \in [Devs -> SUBSET Datasets] /\ key \in [Devs -> Ids \cup {None}]
  /\ signed \in [Devs -> BOOLEAN] /\ machine \in Ids \cup {None}

\* A dataset has the ones that hold it, and a vault has a key.
Rooted(M) == \A k \in M : \A n \in Datasets : IsPrefix(n, k) => n \in M

VaultOK == \A d \in Devs : Rooted(made[d]) /\ (Vault \in made[d] => key[d] # None)

BootTypeOK ==
  /\ pc \in Steps /\ online \in Devs \cup {None} /\ magic \in Devs \cup {None}
  /\ listing \subseteq Datasets /\ mounted \subseteq Tracked /\ next \in Nat \ {0}
  /\ partition \in BOOLEAN /\ unlocked \in BOOLEAN /\ fault \in BOOLEAN
  /\ dir \in BOOLEAN /\ swapping \in BOOLEAN

\* Which device the script works on.
DeviceOK ==
  /\ pc \notin {"id", "exit"} => machine # None
  /\ online = None => ~unlocked /\ ~partition
  /\ online # None => /\ media[online] = "pool" /\ (unlocked => key[online] = machine)
                      /\ ~unlocked /\ ~fault => key[online] # machine
  /\ pc \in {"id", "find"} => online = None
  /\ pc \in {"magic", "create", "tmpfs"} => ~partition /\ (online # None => fault)
  /\ pc \in {"list", "datasets", "mkswap", "swapon", "version"} => partition
  /\ pc \in {"magic", "create"} /\ online = None => fault \/ ~\E d \in Devs : PoolsOn = {d}
  /\ pc = "create" => magic \in Devs /\ media[magic] = "magic"

\* The positions in Order that the loop has dealt with.
Passed == IF pc = "mkswap" THEN 1..next ELSE 1..(next - 1)

\* How far the datasets are.
DatasetsOK ==
  /\ pc \in {"datasets", "mkswap"} =>
       /\ Passed \subseteq 1..13 /\ \A i \in Passed : Order[i] \in made[online]
       /\ listing \subseteq made[online]
       /\ ~fault => made[online] \subseteq listing \cup {Order[i] : i \in Passed}
  /\ partition /\ pc \in {"swapon", "version", "temporary", "overlay", "missing", "done"} =>
       made[online] = Datasets
  /\ partition /\ unlocked /\ pc # "exit" => Tracked \cap made[online] \subseteq mounted
  /\ pc = "mkswap" => \E z \in Free : volume = <<z, calculate_swap_size(z)>>

\* What is mounted at the end.
MountsOK ==
  /\ pc \notin {"version", "temporary", "overlay", "missing", "done", "exit"} => ~dir
  /\ pc = "version" => (dir => swapping) /\ (~dir /\ ~fault => ~signed[online])
  /\ partition /\ pc \in {"temporary", "overlay", "missing", "done"} => swapping
  /\ partition \/ pc \in {"id", "find", "magic", "create"} => "/vol" \notin tmpfs
  /\ pc \notin {"overlay", "missing", "done", "exit"} => overlays = {} /\ kept = {}
  /\ pc = "overlay" => next \in 1..4 /\ overlays = {Merged[i] : i \in 1..(next - 1)}
  /\ pc \in {"missing", "done"} => overlays = {Merged[i] : i \in 1..3}
  /\ pc \in {"overlay", "missing", "done"} /\ OVERLAY \in mounted => kept = overlays

PersistenceInv ==
  /\ DiskOK /\ VaultOK /\ BootTypeOK /\ DeviceOK /\ DatasetsOK /\ MountsOK
  /\ InterruptedSetupRecovers

\* The datasets of the script, by their place in its order.
LEMMA DatasetsAre ==
  /\ Datasets = {Order[i] : i \in 1..13} /\ Len(Order) = 13
  /\ Vault \in Datasets /\ DATA \in Datasets /\ OVERLAY \in Datasets /\ SWAP \in Datasets
<1>1. /\ Datasets = {Order[i] : i \in 1..13} /\ Len(Order) = 13
      /\ Order[1] = Vault /\ Order[9] = DATA /\ Order[10] = OVERLAY /\ Order[13] = SWAP
  BY OrderIs
<1>2. 1 \in 1..13 /\ 9 \in 1..13 /\ 10 \in 1..13 /\ 13 \in 1..13
  OBVIOUS
<1> QED BY <1>1, <1>2

\* None is neither a device nor a machine ID.
LEMMA NoneIs == None \notin Devs /\ None \notin Ids
BY PersistenceAssumption

\* The directories with an overlay.
LEMMA MergedIs ==
  /\ Len(Merged) = 3 /\ ToSet(Merged) = {Merged[i] : i \in 1..3}
  /\ "/vol" \notin Temporary /\ "exit" \in Steps
BY DEF Merged, ToSet, Temporary, Steps

\* The steps that only move on, or give up.
LEMMA MoveSteps ==
  ASSUME PersistenceInv,
         \/ GetMachineId \/ ImportFails \/ AllDatasets \/ WriteVersionFile \/ SwapOnFails
         \/ overlayFails \/ AllOverlays \/ CreateMissing \/ MakeSwapFails
  PROVE  PersistenceInv'
<1> USE DEF PersistenceInv
<1>1. /\ UNCHANGED <<media, made, key, signed, machine, online, partition, magic, unlocked>>
      /\ UNCHANGED <<mounted, listing, next, dir, volume, swapping, tmpfs, overlays, kept>>
  BY DEF GetMachineId, ImportFails, AllDatasets, WriteVersionFile, SwapOnFails, overlayFails,
         AllOverlays, CreateMissing, MakeSwapFails, Rest, disk, results
<1>2. DiskOK' /\ VaultOK' /\ PoolsOn' = PoolsOn
  BY <1>1 DEF DiskOK, VaultOK, PoolsOn
<1>3. CASE GetMachineId
  <2>1. pc = "id" /\ IF machine = None THEN pc' = "exit" ELSE pc' = "find"
    BY <1>3 DEF GetMachineId, Exit
  <2>2. fault' = fault \/ fault' = (fault \/ FALSE)
    BY <1>3 DEF GetMachineId, Exit
  <2>3. fault' \in BOOLEAN
    BY <2>2 DEF BootTypeOK
  <2>4. BootTypeOK'
    BY <1>1, <2>1, <2>3 DEF BootTypeOK, Steps
  <2>5. DeviceOK' /\ DatasetsOK' /\ MountsOK' /\ InterruptedSetupRecovers'
    BY <1>1, <2>1 DEF DeviceOK, DatasetsOK, MountsOK, InterruptedSetupRecovers
  <2> QED BY <1>2, <2>4, <2>5
<1>4. CASE ImportFails
  <2>1. PICK late \in BOOLEAN : /\ late \/ ~\E d \in Devs : PoolsOn = {d}
                                /\ fault' = (fault \/ late)
    BY <1>4 DEF ImportFails
  <2>2. /\ pc = "find" /\ pc' = "magic" /\ fault' \in BOOLEAN
        /\ fault' \/ ~\E d \in Devs : PoolsOn = {d}
    BY <1>4, <2>1 DEF ImportFails
  <2>3. BootTypeOK'
    BY <1>1, <2>2 DEF BootTypeOK, Steps
  <2>4. DeviceOK'
    BY <1>1, <1>2, <2>2 DEF DeviceOK
  <2>5. DatasetsOK' /\ MountsOK' /\ InterruptedSetupRecovers'
    BY <1>1, <2>2 DEF DatasetsOK, MountsOK, InterruptedSetupRecovers, DeviceOK
  <2> QED BY <1>2, <2>3, <2>4, <2>5
<1>5. CASE AllDatasets
  <2>1. pc = "datasets" /\ next > 13 /\ pc' = "swapon" /\ fault' = fault
    BY <1>5, OrderIs DEF AllDatasets
  <2>2. made[online] = Datasets
    <3>1. partition /\ online \in Devs
      BY <2>1 DEF DeviceOK, BootTypeOK
    <3>2. 1..13 \subseteq Passed
      BY <2>1 DEF Passed, BootTypeOK
    <3>3. \A i \in 1..13 : Order[i] \in made[online]
      BY <2>1, <3>2 DEF DatasetsOK
    <3>4. made[online] \subseteq Datasets
      BY <3>1 DEF DiskOK
    <3> QED BY <3>3, <3>4, DatasetsAre
  <2>3. BootTypeOK'
    BY <1>1, <2>1 DEF BootTypeOK, Steps
  <2>4. DeviceOK'
    BY <1>1, <1>2, <2>1 DEF DeviceOK
  <2>5. DatasetsOK' /\ MountsOK' /\ InterruptedSetupRecovers'
    BY <1>1, <2>1, <2>2 DEF DatasetsOK, MountsOK, InterruptedSetupRecovers
  <2> QED BY <1>2, <2>3, <2>4, <2>5
<1>6. CASE SwapOnFails
  <2>1. /\ pc = "swapon" /\ pc' = "version"
        /\ fault' = (fault \/ (SWAP \in made[online] /\ signed[online]))
    BY <1>6 DEF SwapOnFails
  <2>2. fault' \in BOOLEAN /\ (fault => fault')
    BY <2>1 DEF BootTypeOK
  <2>3. ~fault' => ~signed[online]
    <3>1. SWAP \in made[online]
      BY <2>1, DatasetsAre DEF DatasetsOK, DeviceOK
    <3>2. CASE signed[online]
      <4>1. fault' = TRUE
        BY <2>1, <3>1, <3>2, Zenon
      <4> QED BY <4>1
    <3> QED BY <3>2
  <2>4. BootTypeOK'
    BY <1>1, <2>1, <2>2 DEF BootTypeOK, Steps
  <2>5. DeviceOK'
    BY <1>1, <1>2, <2>1, <2>2 DEF DeviceOK
  <2>6. DatasetsOK' /\ MountsOK' /\ InterruptedSetupRecovers'
    BY <1>1, <2>1, <2>2, <2>3 DEF DatasetsOK, MountsOK, InterruptedSetupRecovers
  <2> QED BY <1>2, <2>4, <2>5, <2>6
<1>7. CASE WriteVersionFile
  <2>1. pc = "version" /\ pc' = IF dir THEN "temporary" ELSE "exit"
    BY <1>7 DEF WriteVersionFile, Exit
  <2>2. fault' = fault
    <3>1. CASE dir
      BY <1>7, <3>1 DEF WriteVersionFile
    <3>2. CASE ~dir
      <4>1. fault' = (fault \/ FALSE)
        BY <1>7, <3>2 DEF WriteVersionFile, Exit
      <4>2. fault \in BOOLEAN
        BY DEF BootTypeOK
      <4> QED BY <4>1, <4>2, Zenon
    <3> QED BY <3>1, <3>2
  <2>3. BootTypeOK'
    BY <1>1, <2>1, <2>2 DEF BootTypeOK, Steps
  <2>4. DeviceOK'
    BY <1>1, <1>2, <2>1, <2>2 DEF DeviceOK
  <2>5. SWAP \in made[online]
    BY <2>1, DatasetsAre DEF DatasetsOK, DeviceOK
  <2>6. DatasetsOK' /\ MountsOK' /\ InterruptedSetupRecovers'
    BY <1>1, <2>1, <2>2, <2>5 DEF DatasetsOK, MountsOK, InterruptedSetupRecovers
  <2> QED BY <1>2, <2>3, <2>4, <2>6
<1>8. CASE AllOverlays
  <2>1. pc = "overlay" /\ next > 3 /\ pc' = "missing" /\ fault' = fault
    BY <1>8, MergedIs DEF AllOverlays
  <2>2. next = 4 /\ 1..(next - 1) = 1..3
    BY <2>1 DEF MountsOK
  <2>3. BootTypeOK'
    BY <1>1, <2>1 DEF BootTypeOK, Steps
  <2>4. DeviceOK'
    BY <1>1, <1>2, <2>1 DEF DeviceOK
  <2>5. DatasetsOK' /\ MountsOK' /\ InterruptedSetupRecovers'
    BY <1>1, <2>1, <2>2 DEF DatasetsOK, MountsOK, InterruptedSetupRecovers
  <2> QED BY <1>2, <2>3, <2>4, <2>5
<1>9. CASE \/ overlayFails
           \/ MakeSwapFails
           \/ CreateMissing
  <2>1. \/ pc' = "exit" /\ fault' = TRUE
        \/ pc = "missing" /\ pc' = "done" /\ fault' = fault
    <3>1. (fault \/ TRUE) = TRUE
      OBVIOUS
    <3> QED BY <1>9, <3>1 DEF overlayFails, MakeSwapFails, CreateMissing, Exit
  <2>2. BootTypeOK'
    BY <1>1, <2>1 DEF BootTypeOK, Steps
  <2>3. DeviceOK'
    BY <1>1, <1>2, <2>1 DEF DeviceOK
  <2>4. DatasetsOK' /\ MountsOK' /\ InterruptedSetupRecovers'
    BY <1>1, <2>1 DEF DatasetsOK, MountsOK, InterruptedSetupRecovers
  <2> QED BY <1>2, <2>2, <2>3, <2>4
<1> QED BY <1>3, <1>4, <1>5, <1>6, <1>7, <1>8, <1>9

\* A set of numbers has a smallest one.
LEMMA MinIs ==
  ASSUME NEW I, I \subseteq Nat, I # {}
  PROVE  Min(I) \in I
<1> DEFINE R == OpToRel(<, Nat)
<1>1. IsWellFoundedOn(R, Nat)
  BY NatLessThanWellFounded
<1>2. ASSUME NEW a \in Nat, NEW b \in Nat, a < b PROVE <<a, b>> \in R
  BY <1>2 DEF OpToRel
<1> HIDE DEF R
<1>3. PICK x \in I : \A y \in I : <<y, x>> \notin R
  BY <1>1, WFMin
<1>4. \A y \in I : x <= y
  <2> TAKE y \in I
  <2>1. x \in Nat /\ y \in Nat
    OBVIOUS
  <2>2. ~(y < x)
    BY <1>2, <1>3, <2>1
  <2> QED BY <2>1, <2>2
<1> QED BY <1>4 DEF Min

\* The device to be formatted begins with the magic header.
LEMMA FirstMagicIs ==
  ASSUME NEW unread, FirstMagic(unread) # None
  PROVE  FirstMagic(unread) \in Devs /\ media[FirstMagic(unread)] = "magic"
<1> DEFINE headed == {i \in DOMAIN Drives : media[Drives[i]] = "magic" /\ Drives[i] \notin unread}
<1>1. headed \subseteq Nat
  BY PersistenceAssumption
<1>2. CASE headed = {}
  BY <1>2 DEF FirstMagic
<1>3. CASE headed # {}
  <2>1. Min(headed) \in headed
    BY <1>1, <1>3, MinIs
  <2>2. FirstMagic(unread) = Drives[Min(headed)]
    BY <1>3 DEF FirstMagic
  <2> QED BY <2>1, <2>2 DEF Devs, ToSet
<1> QED BY <1>2, <1>3

\* No partition was found: what happens to the devices.
LEMMA MagicSteps ==
  ASSUME PersistenceInv, FindMagic \/ CreatePool \/ CreatePoolFails
  PROVE  PersistenceInv'
<1> USE DEF PersistenceInv
<1>1. CASE FindMagic
  <2>1. /\ UNCHANGED <<media, made, key, signed, machine, online, partition, unlocked>>
        /\ UNCHANGED <<mounted, listing, next, dir, volume, swapping, tmpfs, overlays, kept>>
        /\ pc = "magic" /\ pc' = IF magic' = None THEN "tmpfs" ELSE "create"
    BY <1>1 DEF FindMagic, disk, results
  <2>2. DiskOK' /\ VaultOK' /\ PoolsOn' = PoolsOn
    BY <2>1 DEF DiskOK, VaultOK, PoolsOn
  <2>3. PICK unread \in SUBSET Devs : /\ magic' = FirstMagic(unread)
                                      /\ fault' = (fault \/ unread # {})
    BY <1>1 DEF FindMagic
  <2>4. magic' # None => magic' \in Devs /\ media[magic'] = "magic"
    BY <2>3, FirstMagicIs
  <2>5. fault' \in BOOLEAN /\ (fault => fault')
    BY <2>3
  <2>6. BootTypeOK'
    BY <2>1, <2>4, <2>5 DEF BootTypeOK, Steps
  <2>7. DeviceOK'
    BY <2>1, <2>2, <2>4, <2>5 DEF DeviceOK
  <2>8. DatasetsOK' /\ MountsOK' /\ InterruptedSetupRecovers'
    BY <2>1 DEF DatasetsOK, MountsOK, InterruptedSetupRecovers, DeviceOK
  <2> QED BY <2>2, <2>6, <2>7, <2>8
<1>2. CASE CreatePool
  <2>1. /\ UNCHANGED <<machine, magic, unlocked, fault>>
        /\ UNCHANGED <<mounted, listing, next, dir, volume, swapping, tmpfs, overlays, kept>>
        /\ online' = magic /\ partition' = TRUE /\ pc = "create" /\ pc' = "list"
        /\ media' = [media EXCEPT ![magic] = "pool"] /\ made' = [made EXCEPT ![magic] = {}]
        /\ key' = [key EXCEPT ![magic] = None] /\ signed' = [signed EXCEPT ![magic] = FALSE]
        /\ online = None
    BY <1>2 DEF CreatePool, results
  <2>2. magic \in Devs /\ machine # None /\ ~unlocked
    BY <2>1 DEF DeviceOK
  <2>3. DiskOK' /\ made'[magic] = {} /\ key'[magic] = None /\ media'[magic] = "pool"
    BY <2>1, <2>2 DEF DiskOK
  <2>4. VaultOK'
    <3>1. ASSUME NEW d \in Devs PROVE Rooted(made'[d]) /\ (Vault \in made'[d] => key'[d] # None)
      <4>1. CASE d = magic
        BY <2>3, <4>1 DEF Rooted
      <4>2. CASE d # magic
        <5>1. made'[d] = made[d] /\ key'[d] = key[d]
          BY <2>1, <4>2 DEF DiskOK
        <5> QED BY <5>1 DEF VaultOK
      <4> QED BY <4>1, <4>2
    <3> QED BY <3>1 DEF VaultOK
  <2>5. BootTypeOK'
    BY <2>1, <2>2 DEF BootTypeOK, Steps
  <2>6. DeviceOK'
    BY <2>1, <2>2, <2>3, NoneIs DEF DeviceOK
  <2>7. DatasetsOK'
    BY <2>1, <2>2, <2>3 DEF DatasetsOK
  <2>8. "/vol" \notin tmpfs
    BY <2>1 DEF MountsOK
  <2>9. MountsOK' /\ InterruptedSetupRecovers'
    BY <2>1, <2>8 DEF MountsOK, InterruptedSetupRecovers
  <2> QED BY <2>3, <2>4, <2>5, <2>6, <2>7, <2>9
<1>3. CASE CreatePoolFails
  <2>1. /\ UNCHANGED <<made, key, signed, machine, online, partition, magic, unlocked>>
        /\ UNCHANGED <<mounted, listing, next, dir, volume, swapping, tmpfs, overlays, kept>>
        /\ pc = "create" /\ pc' = "exit" /\ fault' = (fault \/ online = None)
        /\ media' = media \/ (online = None /\ media' = [media EXCEPT ![magic] = "blank"])
    BY <1>3 DEF CreatePoolFails, Exit, Rest, results
  <2>2. magic \in Devs /\ media[magic] = "magic"
    BY <2>1 DEF DeviceOK
  <2>3. fault' = TRUE
    BY <2>1 DEF DeviceOK, BootTypeOK
  <2>4. DiskOK' /\ (online # None => media'[online] = "pool")
    BY <2>1, <2>2 DEF DiskOK, DeviceOK
  <2>5. VaultOK' /\ BootTypeOK'
    BY <2>1, <2>3 DEF VaultOK, BootTypeOK, Steps
  <2>6. DeviceOK'
    BY <2>1, <2>3, <2>4 DEF DeviceOK
  <2>7. DatasetsOK' /\ MountsOK' /\ InterruptedSetupRecovers'
    BY <2>1, <2>3 DEF DatasetsOK, MountsOK, InterruptedSetupRecovers, DeviceOK
  <2> QED BY <2>4, <2>5, <2>6, <2>7
<1> QED BY <1>1, <1>2, <1>3

\* The pool is imported, with or without its datasets mounted.
LEMMA ImportSteps ==
  ASSUME PersistenceInv, NEW d \in Devs, ImportPool(d) \/ MountFails(d)
  PROVE  PersistenceInv'
<1> USE DEF PersistenceInv
<1>1. /\ UNCHANGED <<media, made, key, signed, machine, magic>>
      /\ UNCHANGED <<listing, next, dir, volume, swapping, tmpfs, overlays, kept>>
      /\ pc = "find" /\ PoolsOn = {d} /\ online' = d
  BY DEF ImportPool, MountFails, disk, results
<1>2. unlocked' \in BOOLEAN /\ (unlocked' => key[d] = machine)
  <2>1. unlocked' \in {FALSE, key[d] = machine}
    BY DEF ImportPool, MountFails, LoadKey
  <2> QED BY <2>1
<1>3. DiskOK' /\ VaultOK' /\ media[d] = "pool" /\ d # None
  BY <1>1, NoneIs DEF DiskOK, VaultOK, PoolsOn
<1>4. CASE ImportPool(d)
  <2>1. /\ mounted' = (IF unlocked' THEN Tracked \cap made[d] ELSE {})
        /\ partition' = TRUE /\ pc' = "list"
    BY <1>4 DEF ImportPool
  <2>6. fault' \in BOOLEAN /\ (fault => fault') /\ (~unlocked' /\ ~fault' => key[d] # machine)
    <3>1. fault' = (fault \/ unlocked' # (key[d] = machine))
      BY <1>4 DEF ImportPool, LoadKey
    <3> QED BY <1>2, <3>1
  <2>2. BootTypeOK'
    BY <1>1, <1>2, <2>1, <2>6 DEF BootTypeOK, Steps
  <2>3. DeviceOK'
    BY <1>1, <1>2, <1>3, <2>1, <2>6 DEF DeviceOK
  <2>4. DatasetsOK'
    BY <1>1, <2>1 DEF DatasetsOK
  <2>5. MountsOK' /\ InterruptedSetupRecovers'
    BY <1>1, <1>4, <2>1 DEF MountsOK, InterruptedSetupRecovers
  <2> QED BY <1>3, <2>2, <2>3, <2>4, <2>5
<1>5. CASE MountFails(d)
  <2>1. /\ mounted' \subseteq Tracked /\ partition' = partition /\ pc' = "magic" /\ fault' = TRUE
    BY <1>5 DEF MountFails
  <2>2. partition = FALSE
    BY <1>1 DEF DeviceOK, BootTypeOK
  <2>3. BootTypeOK'
    BY <1>1, <1>2, <2>1 DEF BootTypeOK, Steps
  <2>4. DeviceOK'
    BY <1>1, <1>2, <1>3, <2>1, <2>2 DEF DeviceOK
  <2>5. DatasetsOK' /\ MountsOK' /\ InterruptedSetupRecovers'
    BY <1>1, <2>1, <2>2 DEF DatasetsOK, MountsOK, InterruptedSetupRecovers
  <2> QED BY <1>3, <2>3, <2>4, <2>5
<1> QED BY <1>4, <1>5

\* A boot begins, on the media as they are left.
LEMMA BootSteps ==
  ASSUME PersistenceInv,
         \/ Reboot
         \/ \E d \in Devs : MarkDevice(d)
         \/ \E id \in Ids \cup {None} : SetMachine(id)
  PROVE  PersistenceInv'
<1> USE DEF PersistenceInv
<1>1. FreshBoot /\ UNCHANGED <<made, key, signed>>
  BY DEF Reboot, MarkDevice, SetMachine, disk
<1>2. DiskOK'
  <2>1. media' = media \/ \E d \in Devs : media' = [media EXCEPT ![d] = "magic"]
    BY DEF Reboot, MarkDevice, SetMachine, disk
  <2>2. machine' = machine \/ machine' \in Ids \cup {None}
    BY DEF Reboot, MarkDevice, SetMachine, disk
  <2> QED BY <1>1, <2>1, <2>2 DEF DiskOK
<1>3. VaultOK'
  BY <1>1 DEF VaultOK
<1>4. BootTypeOK'
  <2>1. /\ pc' = "id" /\ online' = None /\ magic' = None /\ listing' = {} /\ mounted' = {}
        /\ next' = 1
    BY <1>1 DEF FreshBoot
  <2>2. /\ partition' = FALSE /\ unlocked' = FALSE /\ fault' = FALSE /\ dir' = FALSE
        /\ swapping' = FALSE
    BY <1>1 DEF FreshBoot
  <2>3. /\ partition' \in BOOLEAN /\ unlocked' \in BOOLEAN /\ fault' \in BOOLEAN
        /\ dir' \in BOOLEAN /\ swapping' \in BOOLEAN
    BY <2>2
  <2>4. pc' \in Steps /\ next' \in Nat \ {0}
    BY <2>1 DEF Steps
  <2> QED BY <2>1, <2>3, <2>4, Zenon DEF BootTypeOK
<1>5. DeviceOK' /\ DatasetsOK' /\ MountsOK' /\ InterruptedSetupRecovers'
  BY <1>1 DEF FreshBoot, DeviceOK, DatasetsOK, MountsOK, InterruptedSetupRecovers
<1> QED BY <1>2, <1>3, <1>4, <1>5

\* A dataset added below the one that holds it.
LEMMA RootedStays ==
  ASSUME NEW M, M \subseteq Datasets, Rooted(M), NEW n \in Datasets, Len(n) > 1 => Front(n) \in M
  PROVE  Rooted(M \cup {n})
<1> SUFFICES ASSUME NEW m \in Datasets, IsPrefix(m, n), m # n
             PROVE  m \in M
  BY DEF Rooted
<1>1. m \in Seq(Words) /\ n \in Seq(Words) /\ Len(m) \in Nat \ {0} /\ Len(n) \in Nat \ {0}
  BY OrderIs
<1>2. IsPrefix(m, Front(n)) /\ Len(m) < Len(n)
  BY <1>1, PrefixIs
<1>3. Len(n) > 1
  BY <1>1, <1>2
<1> QED BY <1>2, <1>3 DEF Rooted

\* What is tracked is in the vault.
LEMMA TrackedIs == /\ \A n \in Tracked : n \in Datasets /\ n # Vault /\ IsPrefix(Vault, n)
                   /\ SWAP # Vault /\ Vault \notin Tracked /\ Len(Vault) = 1
<1>1. DATA # Vault /\ OVERLAY # Vault /\ SWAP # Vault /\ Len(Vault) = 1
  BY DEF DATA, OVERLAY, SWAP, Vault
<1>2. ASSUME NEW n \in Seq(Words), Len(n) = 3, n[1] = "vault" PROVE IsPrefix(Vault, n)
  <2>1. Vault \in Seq(Words) /\ Len(Vault) = 1 /\ Vault[1] = "vault"
    BY DEF Vault, Words
  <2>2. /\ SubSeq(Vault, 1, 1) \in Seq(Words) /\ Len(SubSeq(Vault, 1, 1)) = 1
        /\ SubSeq(n, 1, 1) \in Seq(Words) /\ Len(SubSeq(n, 1, 1)) = 1
        /\ SubSeq(Vault, 1, 1)[1] = "vault" /\ SubSeq(n, 1, 1)[1] = "vault"
    BY <1>2, <2>1
  <2>3. \A i \in 1..1 : SubSeq(Vault, 1, 1)[i] = SubSeq(n, 1, 1)[i]
    BY <2>2
  <2>4. SubSeq(Vault, 1, 1) = SubSeq(n, 1, 1)
    BY <2>2, <2>3, SeqEqual
  <2> QED BY <1>2, <2>1, <2>4 DEF IsPrefix
<1>3. /\ DATA \in Seq(Words) /\ Len(DATA) = 3 /\ DATA[1] = "vault"
      /\ OVERLAY \in Seq(Words) /\ Len(OVERLAY) = 3 /\ OVERLAY[1] = "vault"
  BY DEF DATA, OVERLAY, Words
<1> QED BY <1>1, <1>2, <1>3, DatasetsAre DEF Tracked

\* The loop over the datasets.
LEMMA LoopSteps ==
  ASSUME PersistenceInv, ListDatasets \/ SkipDataset \/ MakeSwap
  PROVE  PersistenceInv'
<1> USE DEF PersistenceInv
<1>1. /\ UNCHANGED <<media, made, key, machine, online, partition, magic, unlocked>>
      /\ UNCHANGED <<mounted, dir, swapping, tmpfs, overlays, kept>>
      /\ pc' = "datasets" /\ pc \in {"list", "datasets", "mkswap"} /\ PoolsOn' = PoolsOn
  BY DEF ListDatasets, SkipDataset, MakeSwap, disk, results, PoolsOn
<1>2. partition = TRUE /\ online \in Devs /\ Rooted(made[online]) /\ made[online] \subseteq Datasets
  BY <1>1 DEF DeviceOK, BootTypeOK, DiskOK, VaultOK
<1>3. CASE ListDatasets
  <2>1. pc = "list" /\ next' = 1 /\ signed' = signed
    BY <1>3 DEF ListDatasets, disk
  <2>2. PICK failed \in BOOLEAN : /\ listing' = IF failed THEN {} ELSE made[online]
                                  /\ fault' = (fault \/ failed)
    BY <1>3 DEF ListDatasets
  <2>3. /\ fault' \in BOOLEAN /\ (fault => fault')
        /\ (~fault' => listing' = made[online]) /\ listing' \subseteq made[online]
    BY <2>2
  <2>4. DiskOK' /\ VaultOK'
    BY <1>1, <2>1 DEF DiskOK, VaultOK
  <2>5. BootTypeOK'
    BY <1>1, <1>2, <2>1, <2>3 DEF BootTypeOK, Steps
  <2>6. DeviceOK'
    BY <1>1, <2>3 DEF DeviceOK
  <2>7. DatasetsOK'
    <3>1. Passed' = {}
      BY <1>1, <2>1 DEF Passed
    <3> QED BY <1>1, <1>2, <2>1, <2>3, <3>1 DEF DatasetsOK
  <2>8. MountsOK' /\ InterruptedSetupRecovers'
    BY <1>1, <2>1 DEF MountsOK, InterruptedSetupRecovers
  <2> QED BY <2>4, <2>5, <2>6, <2>7, <2>8
<1>4. CASE SkipDataset \/ MakeSwap
  <2>1. listing' = listing /\ fault' = fault /\ next' = next + 1 /\ pc \in {"datasets", "mkswap"}
    BY <1>4 DEF SkipDataset, MakeSwap
  <2>2. next \in Nat \ {0} /\ Passed' = 1..next /\ Passed' \subseteq 1..13
        /\ \A i \in Passed' : Order[i] \in made[online]
    <3>0. next \in Nat \ {0}
      BY DEF BootTypeOK
    <3>1. Passed' = 1..next
      BY <1>1, <2>1, <3>0 DEF Passed
    <3>2. CASE MakeSwap
      <4>1. Passed = 1..next
        BY <3>2 DEF MakeSwap, Passed
      <4> QED BY <2>1, <3>0, <3>1, <4>1 DEF DatasetsOK
    <3>3. CASE SkipDataset
      <4>1. pc = "datasets" /\ next <= 13 /\ Known(Order[next])
        BY <3>3, DatasetsAre DEF SkipDataset
      <4>2. next \in 1..13
        BY <3>0, <4>1
      <4>3. Order[next] \in made[online]
        BY <1>2, <4>1, <4>2, DatasetsAre DEF Known, DatasetsOK, Rooted
      <4>4. Passed = 1..(next - 1) /\ 1..next = 1..(next - 1) \cup {next}
        BY <3>0, <4>1 DEF Passed
      <4> QED BY <3>0, <3>1, <4>1, <4>2, <4>3, <4>4 DEF DatasetsOK
    <3> QED BY <1>4, <3>2, <3>3
  <2>3. signed' \in [Devs -> BOOLEAN]
    BY <1>2, <1>4 DEF SkipDataset, MakeSwap, disk, DiskOK
  <2>4. DiskOK' /\ VaultOK'
    BY <1>1, <2>3 DEF DiskOK, VaultOK
  <2>5. BootTypeOK'
    BY <1>1, <2>1, <2>2 DEF BootTypeOK, Steps
  <2>6. DeviceOK'
    BY <1>1, <2>1 DEF DeviceOK
  <2>7. DatasetsOK'
    <3>1. Passed \subseteq Passed'
      BY <2>1, <2>2 DEF Passed
    <3> QED BY <1>1, <1>2, <2>1, <2>2, <3>1 DEF DatasetsOK
  <2>8. MountsOK' /\ InterruptedSetupRecovers'
    BY <1>1, <2>1 DEF MountsOK, InterruptedSetupRecovers
  <2> QED BY <2>4, <2>5, <2>6, <2>7, <2>8
<1> QED BY <1>3, <1>4

\* A dataset is created, which is never one of another vault.
LEMMA CreateStep ==
  ASSUME PersistenceInv, CreateDataset
  PROVE  PersistenceInv'
<1> USE DEF PersistenceInv
<1> DEFINE n == Order[next]
<1>1. /\ UNCHANGED <<media, signed, machine, online, partition, magic, listing>>
      /\ UNCHANGED <<dir, swapping, tmpfs, overlays, kept, fault>>
      /\ pc = "datasets" /\ next <= 13 /\ CanCreate(n)
      /\ made' = [made EXCEPT ![online] = @ \cup {n}]
      /\ key' = [key EXCEPT ![online] = IF n = Vault THEN machine ELSE @]
      /\ mounted' = mounted \cup ({n} \cap Tracked)
  BY DatasetsAre DEF CreateDataset
<1>2. unlocked' = (unlocked \/ n = Vault)
  BY DEF CreateDataset
<1>3. /\ n = SWAP => /\ pc' = "mkswap" /\ next' = next
                     /\ \E z \in Free : volume' = <<z, calculate_swap_size(z)>>
      /\ n # SWAP => pc' = "datasets" /\ next' = next + 1
  BY DEF CreateDataset
<1>4. /\ next \in 1..13 /\ n \in Datasets /\ online \in Devs /\ partition = TRUE
      /\ machine # None /\ machine \in Ids \cup {None} /\ made[online] \subseteq Datasets
      /\ unlocked \in BOOLEAN
  <2>1. next \in 1..13
    BY <1>1 DEF BootTypeOK
  <2>2. online \in Devs /\ partition = TRUE /\ machine # None
    BY <1>1 DEF DeviceOK, BootTypeOK
  <2> QED BY <2>1, <2>2, DatasetsAre DEF DiskOK, BootTypeOK
<1> HIDE DEF n
<1>5. /\ made'[online] = made[online] \cup {n}
      /\ key'[online] = (IF n = Vault THEN machine ELSE key[online])
      /\ \A d \in Devs \ {online} : made'[d] = made[d] /\ key'[d] = key[d]
  BY <1>1, <1>4 DEF DiskOK
<1>6. DiskOK'
  BY <1>1, <1>4 DEF DiskOK
<1>7. VaultOK'
  <2>1. Rooted(made'[online])
    <3>1. Len(n) > 1 => Front(n) \in made[online]
      BY <1>1 DEF CanCreate
    <3> QED BY <1>4, <1>5, <3>1, RootedStays DEF VaultOK
  <2>2. Vault \in made'[online] => key'[online] # None
    BY <1>4, <1>5 DEF VaultOK
  <2>3. \A d \in Devs : Rooted(made'[d]) /\ (Vault \in made'[d] => key'[d] # None)
    BY <1>5, <2>1, <2>2 DEF VaultOK
  <2> QED BY <2>3 DEF VaultOK
<1>8. unlocked' \in BOOLEAN /\ (unlocked' <=> unlocked \/ n = Vault)
  BY <1>2
<1>9. BootTypeOK'
  BY <1>1, <1>3, <1>4, <1>8 DEF BootTypeOK, Steps
<1>10. DeviceOK'
  <2>1. (unlocked' => key'[online] = machine) /\ (~unlocked' /\ ~fault => key'[online] # machine)
    BY <1>1, <1>4, <1>5, <1>8, NoneIs DEF DeviceOK
  <2>2. pc' \in {"datasets", "mkswap"} /\ online # None
    BY <1>3, <1>4, NoneIs
  <2> QED BY <1>1, <1>4, <2>1, <2>2 DEF DeviceOK
<1>11. DatasetsOK'
  <2>1. Passed' = 1..next /\ Passed = 1..(next - 1) /\ 1..next = 1..(next - 1) \cup {next}
        /\ Passed' \subseteq 1..13
    BY <1>1, <1>3, <1>4 DEF Passed
  <2>2. \A i \in Passed' : Order[i] \in made'[online]
    BY <1>1, <1>5, <2>1 DEF DatasetsOK, n
  <2>3. /\ listing \subseteq made'[online]
        /\ ~fault => made'[online] \subseteq listing \cup {Order[i] : i \in Passed'}
    BY <1>1, <1>5, <2>1 DEF DatasetsOK, n
  <2>4. unlocked' => Tracked \cap made'[online] \subseteq mounted'
    <3>1. CASE unlocked
      <4>1. Tracked \cap made[online] \subseteq mounted
        BY <1>1, <1>4, <3>1 DEF DatasetsOK
      <4> QED BY <1>1, <1>5, <4>1
    <3>2. CASE n = Vault
      <4>1. Vault \notin made[online] /\ Rooted(made[online])
        BY <1>1, <1>4, <3>2 DEF CanCreate, VaultOK
      <4>2. Tracked \cap made[online] = {}
        BY <4>1, TrackedIs, DatasetsAre DEF Rooted
      <4> QED BY <1>5, <3>2, <4>2, TrackedIs
    <3> QED BY <1>8, <3>1, <3>2
  <2>5. pc' \in {"datasets", "mkswap"}
        /\ (pc' = "mkswap" => \E z \in Free : volume' = <<z, calculate_swap_size(z)>>)
    BY <1>3
  <2> QED BY <1>1, <2>1, <2>2, <2>3, <2>4, <2>5 DEF DatasetsOK
<1>12. MountsOK' /\ InterruptedSetupRecovers'
  BY <1>1, <1>3 DEF MountsOK, InterruptedSetupRecovers
<1> QED BY <1>6, <1>7, <1>9, <1>10, <1>11, <1>12

\* It cannot be created: by accident, or because the vault is that of another machine.
LEMMA CreateFailsStep ==
  ASSUME PersistenceInv, CreateDatasetFails
  PROVE  PersistenceInv'
<1> USE DEF PersistenceInv
<1> DEFINE n == Order[next]
<1>1. /\ UNCHANGED <<media, key, signed, machine, online, partition, magic, unlocked>>
      /\ UNCHANGED <<mounted, listing, next, dir, volume, swapping, tmpfs, overlays, kept>>
      /\ pc = "datasets" /\ pc' = "exit" /\ next <= 13 /\ ~Known(n)
      /\ \/ made' = made
         \/ /\ CanCreate(n) /\ n \notin Bare
            /\ made' = [made EXCEPT ![online] = @ \cup {n}]
  BY DatasetsAre DEF CreateDatasetFails, Exit, Rest, results
<1>2. fault' = (fault \/ CanCreate(n))
  BY DEF CreateDatasetFails, Exit
<1>3. /\ next \in 1..13 /\ n \in Datasets /\ online \in Devs /\ partition = TRUE
      /\ made[online] \subseteq Datasets /\ machine # None
  <2>1. next \in 1..13
    BY <1>1 DEF BootTypeOK
  <2>2. online \in Devs /\ partition = TRUE /\ machine # None
    BY <1>1 DEF DeviceOK, BootTypeOK
  <2> QED BY <2>1, <2>2, DatasetsAre DEF DiskOK
<1> HIDE DEF n
<1>4. fault' \in BOOLEAN /\ (~fault' => ~fault /\ ~CanCreate(n))
  BY <1>2 DEF BootTypeOK
<1>5. DiskOK'
  BY <1>1, <1>3 DEF DiskOK
<1>6. VaultOK'
  <2>1. CASE made' = made
    BY <1>1, <2>1 DEF VaultOK
  <2>2. CASE CanCreate(n) /\ n \notin Bare /\ made' = [made EXCEPT ![online] = @ \cup {n}]
    <3>1. /\ made'[online] = made[online] \cup {n} /\ n # Vault
          /\ \A d \in Devs \ {online} : made'[d] = made[d]
      BY <1>3, <2>2 DEF DiskOK, Bare
    <3>2. Len(n) > 1 => Front(n) \in made[online]
      BY <2>2 DEF CanCreate
    <3>3. Rooted(made'[online])
      BY <1>3, <3>1, <3>2, RootedStays DEF VaultOK
    <3>4. \A d \in Devs : Rooted(made'[d]) /\ (Vault \in made'[d] => key'[d] # None)
      BY <1>1, <3>1, <3>3 DEF VaultOK
    <3> QED BY <3>4 DEF VaultOK
  <2> QED BY <1>1, <2>1, <2>2
<1>7. BootTypeOK'
  BY <1>1, <1>4 DEF BootTypeOK, Steps
<1>8. DeviceOK'
  BY <1>1, <1>4 DEF DeviceOK
<1>9. DatasetsOK' /\ MountsOK'
  BY <1>1 DEF DatasetsOK, MountsOK
<1>10. InterruptedSetupRecovers'
  <2> SUFFICES ASSUME ~fault' PROVE key[online] \notin {machine, None}
    BY <1>1 DEF InterruptedSetupRecovers
  <2>1. ~fault /\ ~CanCreate(n)
    BY <1>4
  <2>2. Passed = 1..(next - 1) /\ Passed \subseteq 1..13
    BY <1>1, <1>3 DEF Passed
  <2>3. n \notin made[online]
    <3>1. n \notin listing
      <4>1. n \in Seq(Words)
        BY <1>3, OrderIs DEF n
      <4> QED BY <1>1, <4>1, PrefixOfSelf DEF Known
    <3>2. \A i \in 1..13 : Order[i] = Order[next] => i = next
      BY <1>3, OrderIs
    <3>3. \A i \in Passed : Order[i] # n
      BY <1>3, <2>2, <3>2 DEF n
    <3> QED BY <1>1, <2>1, <3>1, <3>3 DEF DatasetsOK
  <2>4. Len(n) > 1 /\ ~(Front(n) \in made[online] /\ unlocked)
    BY <2>1, <2>3 DEF CanCreate
  <2>5. PICK j \in 1..(next - 1) : Front(n) = Order[j]
    BY <1>3, <2>4, OrderIs DEF n
  <2>6. Front(n) \in made[online]
    BY <1>1, <2>2, <2>5 DEF DatasetsOK
  <2>7. key[online] # machine
    BY <1>3, <2>1, <2>4, <2>6, NoneIs DEF DeviceOK
  <2>8. Vault \in made[online]
    <3>1. 1 \in Passed
      BY <1>3, <2>2, <2>5
    <3>2. Order[1] = Vault
      BY OrderIs
    <3> QED BY <1>1, <3>1, <3>2 DEF DatasetsOK
  <2> QED BY <1>3, <2>7, <2>8 DEF VaultOK
<1> QED BY <1>5, <1>6, <1>7, <1>8, <1>9, <1>10

\* Swap, the temporary file systems and the overlays.
LEMMA MountSteps ==
  ASSUME PersistenceInv, SwapOn \/ MountTmpfs \/ CreateTemporary \/ overlay
  PROVE  PersistenceInv'
<1> USE DEF PersistenceInv
<1>1. /\ UNCHANGED <<media, made, key, signed, machine, online, partition, magic, unlocked>>
      /\ UNCHANGED <<mounted, listing, volume>> /\ PoolsOn' = PoolsOn
  BY DEF SwapOn, MountTmpfs, CreateTemporary, overlay, disk, results, PoolsOn
<1>2. DiskOK' /\ VaultOK'
  BY <1>1 DEF DiskOK, VaultOK
<1>3. CASE SwapOn
  <2>1. /\ UNCHANGED <<next, tmpfs, overlays, kept, fault>> /\ pc = "swapon" /\ pc' = "version"
        /\ swapping' = TRUE /\ dir' = TRUE
    BY <1>3 DEF SwapOn
  <2>2. BootTypeOK'
    BY <1>1, <2>1 DEF BootTypeOK, Steps
  <2>3. DeviceOK' /\ DatasetsOK' /\ MountsOK' /\ InterruptedSetupRecovers'
    BY <1>1, <2>1 DEF DeviceOK, DatasetsOK, MountsOK, InterruptedSetupRecovers
  <2> QED BY <1>2, <2>2, <2>3
<1>4. CASE MountTmpfs
  <2>1. /\ UNCHANGED <<next, swapping, overlays, kept>> /\ pc = "tmpfs" /\ pc' = "temporary"
        /\ dir' = TRUE
    BY <1>4 DEF MountTmpfs
  <2>2. partition = FALSE
    BY <2>1 DEF DeviceOK, BootTypeOK
  <2>3. fault' \in BOOLEAN /\ (fault => fault')
    <3>1. PICK f \in BOOLEAN : fault' = (fault \/ f)
      BY <1>4 DEF MountTmpfs
    <3> QED BY <3>1
  <2>4. BootTypeOK'
    BY <1>1, <2>1, <2>3 DEF BootTypeOK, Steps
  <2>5. DeviceOK' /\ DatasetsOK' /\ MountsOK' /\ InterruptedSetupRecovers'
    BY <1>1, <2>1, <2>2, <2>3 DEF DeviceOK, DatasetsOK, MountsOK, InterruptedSetupRecovers
  <2> QED BY <1>2, <2>4, <2>5
<1>5. CASE CreateTemporary
  <2>1. /\ UNCHANGED <<dir, swapping, overlays, kept, fault>> /\ pc = "temporary"
        /\ pc' = "overlay" /\ next' = 1 /\ tmpfs' = tmpfs \cup Temporary
    BY <1>5 DEF CreateTemporary
  <2>2. overlays = {} /\ kept = {} /\ 1..(1 - 1) = {} /\ 1 \in 1..4
    BY <2>1 DEF MountsOK
  <2>3. BootTypeOK'
    BY <1>1, <2>1 DEF BootTypeOK, Steps
  <2>4. MountsOK'
    BY <1>1, <2>1, <2>2, MergedIs DEF MountsOK
  <2>5. DeviceOK' /\ DatasetsOK' /\ InterruptedSetupRecovers'
    BY <1>1, <2>1 DEF DeviceOK, DatasetsOK, InterruptedSetupRecovers
  <2> QED BY <1>2, <2>3, <2>4, <2>5
<1>6. CASE overlay
  <2> DEFINE src == Merged[next]
  <2>1. /\ UNCHANGED <<pc, dir, swapping, fault>> /\ pc = "overlay" /\ next <= 3
        /\ next' = next + 1 /\ overlays' = overlays \cup {src}
        /\ kept' = (IF OVERLAY \in mounted THEN kept \cup {src} ELSE kept)
        /\ tmpfs' \subseteq tmpfs
    BY <1>6, MergedIs DEF overlay
  <2>2. /\ next \in 1..3 /\ next' \in 1..4 /\ next' \in Nat \ {0}
        /\ 1..(next' - 1) = 1..(next - 1) \cup {next}
    BY <2>1 DEF MountsOK
  <2>3. overlays' = {Merged[i] : i \in 1..(next' - 1)}
    BY <2>1, <2>2 DEF MountsOK
  <2>4. BootTypeOK'
    BY <1>1, <2>1, <2>2 DEF BootTypeOK
  <2> HIDE DEF src
  <2>5. MountsOK'
    BY <1>1, <2>1, <2>2, <2>3 DEF MountsOK
  <2>6. DeviceOK' /\ DatasetsOK' /\ InterruptedSetupRecovers'
    BY <1>1, <2>1 DEF DeviceOK, DatasetsOK, InterruptedSetupRecovers
  <2> QED BY <1>2, <2>4, <2>5, <2>6
<1> QED BY <1>3, <1>4, <1>5, <1>6

\* The first boot.
LEMMA PersistenceInit ==
  ASSUME Init
  PROVE  PersistenceInv
<1>1. DiskOK
  BY DEF Init, DiskOK
<1>2. VaultOK
  BY DEF Init, VaultOK, Rooted
<1>3. BootTypeOK
  <2>1. /\ partition \in BOOLEAN /\ unlocked \in BOOLEAN /\ fault \in BOOLEAN
        /\ dir \in BOOLEAN /\ swapping \in BOOLEAN
    BY DEF Init
  <2>2. /\ pc = "id" /\ online = None /\ magic = None /\ listing = {} /\ mounted = {} /\ next = 1
    BY DEF Init
  <2>3. pc \in Steps /\ next \in Nat \ {0}
    BY <2>2 DEF Steps
  <2> QED BY <2>1, <2>2, <2>3, Zenon DEF BootTypeOK
<1>4. DeviceOK /\ DatasetsOK /\ MountsOK /\ InterruptedSetupRecovers
  BY DEF Init, DeviceOK, DatasetsOK, MountsOK, InterruptedSetupRecovers
<1> QED BY <1>1, <1>2, <1>3, <1>4 DEF PersistenceInv

\* Every step of a boot, and every cut, keeps the invariant.
LEMMA PersistenceStep ==
  ASSUME PersistenceInv, [Next]_vars
  PROVE  PersistenceInv'
<1>1. CASE UNCHANGED vars
  <2>1. /\ UNCHANGED <<media, made, key, signed, machine>>
        /\ UNCHANGED <<pc, online, partition, magic, unlocked, mounted, listing, next, fault>>
        /\ UNCHANGED <<dir, volume, swapping, tmpfs, overlays, kept>>
    BY <1>1 DEF vars, disk, boot, results
  <2>2. DiskOK' /\ VaultOK' /\ BootTypeOK'
    BY <2>1 DEF PersistenceInv, DiskOK, VaultOK, BootTypeOK
  <2>3. DeviceOK' /\ DatasetsOK' /\ MountsOK' /\ InterruptedSetupRecovers'
    BY <2>1 DEF PersistenceInv, DeviceOK, PoolsOn, DatasetsOK, Passed, MountsOK,
                InterruptedSetupRecovers
  <2> QED BY <2>2, <2>3 DEF PersistenceInv
<1>2. CASE \/ GetMachineId \/ ImportFails \/ AllDatasets \/ WriteVersionFile \/ SwapOnFails
           \/ overlayFails \/ AllOverlays \/ CreateMissing \/ MakeSwapFails
  BY <1>2, MoveSteps
<1>3. CASE FindMagic \/ CreatePool \/ CreatePoolFails
  BY <1>3, MagicSteps
<1>4. CASE \E d \in Devs : ImportPool(d) \/ MountFails(d)
  BY <1>4, ImportSteps
<1>5. CASE ListDatasets \/ SkipDataset \/ MakeSwap
  BY <1>5, LoopSteps
<1>6. CASE CreateDataset \/ CreateDatasetFails
  BY <1>6, CreateStep, CreateFailsStep
<1>7. CASE SwapOn \/ MountTmpfs \/ CreateTemporary \/ overlay
  BY <1>7, MountSteps
<1>8. CASE \/ Reboot
           \/ \E d \in Devs : MarkDevice(d)
           \/ \E id \in Ids \cup {None} : SetMachine(id)
  BY <1>8, BootSteps
<1> QED BY <1>1, <1>2, <1>3, <1>4, <1>5, <1>6, <1>7, <1>8 DEF Next, Script

\* Where every boot stands, whatever failed in it and wherever the earlier ones
\* were cut off.
THEOREM PersistenceInvariant == Spec => []PersistenceInv
<1>1. Init => PersistenceInv
  BY PersistenceInit
<1>2. PersistenceInv /\ [Next]_vars => PersistenceInv'
  BY PersistenceStep
<1> QED BY <1>1, <1>2, PTL DEF Spec

\* A boot without failing commands ends early only for want of a machine ID, with
\* the vault of another ID, or with a swap volume left without a signature.
THEOREM SetupRecovers == Spec => []InterruptedSetupRecovers
<1>1. PersistenceInv => InterruptedSetupRecovers
  BY DEF PersistenceInv
<1> QED BY <1>1, PersistenceInvariant, PTL

\* A boot that ends without a warning has everything on the pool, unless the vault is
\* locked, which takes another ID or a command that failed.
THEOREM QuietIsPersistent == Spec => []QuietMeansPersistent
<1>1. ASSUME PersistenceInv, pc = "done", partition
      PROVE  /\ made[online] = Datasets /\ swapping
             /\ "/vol" \notin tmpfs /\ overlays = ToSet(Merged)
             /\ unlocked => DATA \in mounted /\ kept = overlays
             /\ unlocked \/ fault \/ key[online] # machine
  <2>1. made[online] = Datasets /\ swapping /\ "/vol" \notin tmpfs
    BY <1>1 DEF PersistenceInv, DatasetsOK, MountsOK
  <2>2. unlocked \/ fault \/ key[online] # machine
    BY <1>1 DEF PersistenceInv, DeviceOK
  <2>3. unlocked => Tracked \subseteq mounted
    BY <1>1, <2>1, DatasetsAre DEF PersistenceInv, DatasetsOK, Tracked
  <2>4. overlays = {Merged[i] : i \in 1..3} /\ (unlocked => kept = overlays)
    BY <1>1, <2>3 DEF PersistenceInv, MountsOK, Tracked
  <2> QED BY <2>1, <2>2, <2>3, <2>4, MergedIs DEF Tracked
<1>2. PersistenceInv => QuietMeansPersistent
  BY <1>1 DEF QuietMeansPersistent
<1> QED BY <1>2, PersistenceInvariant, PTL

\* The size of the swap volume is sound for every size of the pool.
THEOREM SwapIsSound == Spec => []SwapSizeSound
<1>1. ASSUME PersistenceInv, pc = "mkswap" PROVE SwapSizeSound
  <2>1. PICK z \in Free : volume = <<z, calculate_swap_size(z)>>
    BY <1>1 DEF PersistenceInv, DatasetsOK
  <2>2. volume[1] = z /\ volume[2] = calculate_swap_size(z)
    BY <2>1
  <2>3. LET size == calculate_swap_size(z)
        IN  /\ 0 < size /\ size <= z /\ size <= EightGb
            /\ size < EightGb => size >= z \div 10
            /\ size % HalfGigabyte = 0 \/ z < HalfGigabyte
    BY SwapSize
  <2> QED BY <2>2, <2>3, Zenon DEF SwapSizeSound
<1>2. PersistenceInv => SwapSizeSound
  BY <1>1 DEF SwapSizeSound
<1> QED BY <1>2, PersistenceInvariant, PTL

\* No boot takes away a pool, a dataset, the key of a vault or a swap signature.
THEOREM PoolsAreKept == Spec => PoolsSurvive
<1>1. ASSUME PersistenceInv, [Next]_vars, NEW d \in PoolsOn
      PROVE  /\ media'[d] = "pool" /\ made[d] \subseteq made'[d]
             /\ Vault \in made[d] => key'[d] = key[d]
             /\ signed[d] => signed'[d]
  <2>1. d \in Devs /\ media[d] = "pool" /\ DiskOK /\ online \in Devs \cup {None}
    BY <1>1 DEF PoolsOn, PersistenceInv, BootTypeOK
  <2>2. CASE UNCHANGED <<media, made, key, signed>>
    BY <2>1, <2>2
  <2>3. CASE CreatePool \/ CreatePoolFails
    <3>1. magic \in Devs /\ media[magic] = "magic"
      BY <1>1, <2>3 DEF PersistenceInv, DeviceOK, CreatePool, CreatePoolFails
    <3>2. d # magic
      BY <2>1, <3>1
    <3> QED BY <2>1, <2>3, <3>1, <3>2 DEF CreatePool, CreatePoolFails, DiskOK
  <2>4. CASE CreateDataset \/ CreateDatasetFails
    <3>1. online \in Devs
      BY <1>1, <2>4 DEF PersistenceInv, DeviceOK, BootTypeOK, CreateDataset, CreateDatasetFails
    <3>2. UNCHANGED <<media, signed>>
      BY <2>4 DEF CreateDataset, CreateDatasetFails
    <3>3. made[d] \subseteq made'[d]
      BY <2>1, <2>4, <3>1 DEF CreateDataset, CreateDatasetFails, DiskOK
    <3>4. Vault \in made[d] => key'[d] = key[d]
      BY <2>1, <2>4, <3>1 DEF CreateDataset, CreateDatasetFails, CanCreate, DiskOK
    <3> QED BY <2>1, <3>2, <3>3, <3>4
  <2>5. CASE MakeSwap
    BY <2>1, <2>5 DEF MakeSwap, DiskOK
  <2>6. CASE \E e \in Devs : MarkDevice(e)
    BY <2>1, <2>6 DEF MarkDevice, DiskOK
  <2>7. CASE \/ GetMachineId \/ ImportFails \/ AllDatasets \/ WriteVersionFile \/ SwapOnFails
             \/ overlayFails \/ AllOverlays \/ CreateMissing \/ MakeSwapFails
    BY <2>2, <2>7 DEF GetMachineId, ImportFails, AllDatasets, WriteVersionFile, SwapOnFails,
                      overlayFails, AllOverlays, CreateMissing, MakeSwapFails, disk
  <2>8. CASE \/ FindMagic \/ ListDatasets \/ SkipDataset \/ SwapOn \/ MountTmpfs
             \/ CreateTemporary \/ overlay
    BY <2>2, <2>8 DEF FindMagic, ListDatasets, SkipDataset, SwapOn, MountTmpfs,
                      CreateTemporary, overlay, disk
  <2>9. CASE \/ \E e \in Devs : ImportPool(e) \/ MountFails(e)
             \/ Reboot
             \/ \E id \in Ids \cup {None} : SetMachine(id)
             \/ UNCHANGED vars
    BY <2>2, <2>9 DEF ImportPool, MountFails, Reboot, SetMachine, vars, disk
  <2> QED BY <1>1, <2>3, <2>4, <2>5, <2>6, <2>7, <2>8, <2>9 DEF Next, Script
<1>2. PersistenceInv /\ [Next]_vars =>
        [\A d \in PoolsOn :
           /\ media'[d] = "pool" /\ made[d] \subseteq made'[d]
           /\ Vault \in made[d] => key'[d] = key[d]
           /\ signed[d] => signed'[d]]_vars
  BY <1>1
<1> QED BY <1>2, PersistenceInvariant, PTL DEF Spec, PoolsSurvive

\* Beside a pool no second one is created, unless a command failed.
THEOREM NoSecondPool == Spec => SecondPoolOnlyByAccident
<1>1. ASSUME PersistenceInv, [Next]_vars, NEW d \in Devs, PoolsOn = {d}, ~fault
      PROVE  PoolsOn' = {d}
  <2>1. DiskOK
    BY <1>1 DEF PersistenceInv
  <2>2. CASE media' = media
    BY <1>1, <2>2 DEF PoolsOn
  <2>3. CASE CreatePool
    BY <1>1, <2>3 DEF CreatePool, PersistenceInv, DeviceOK
  <2>4. CASE CreatePoolFails
    <3>1. magic \in Devs /\ media[magic] = "magic"
      BY <1>1, <2>4 DEF PersistenceInv, DeviceOK, CreatePoolFails
    <3>2. media' = media \/ media' = [media EXCEPT ![magic] = "blank"]
      BY <2>4 DEF CreatePoolFails
    <3>3. \A e \in Devs : media'[e] = "pool" <=> media[e] = "pool"
      BY <2>1, <3>1, <3>2 DEF DiskOK
    <3> QED BY <1>1, <3>3 DEF PoolsOn
  <2>5. ASSUME NEW x \in Devs, MarkDevice(x) PROVE PoolsOn' = {d}
    <3>1. \A e \in Devs : media'[e] = "pool" <=> media[e] = "pool"
      BY <2>1, <2>5 DEF MarkDevice, DiskOK
    <3> QED BY <1>1, <3>1 DEF PoolsOn
  <2>6. CASE \/ GetMachineId \/ ImportFails \/ AllDatasets \/ WriteVersionFile \/ SwapOnFails
             \/ overlayFails \/ AllOverlays \/ CreateMissing \/ MakeSwapFails
             \/ FindMagic \/ ListDatasets \/ SkipDataset \/ SwapOn \/ MountTmpfs
             \/ CreateTemporary \/ overlay \/ CreateDataset \/ CreateDatasetFails \/ MakeSwap
    BY <2>2, <2>6 DEF GetMachineId, ImportFails, AllDatasets, WriteVersionFile, SwapOnFails,
                      overlayFails, AllOverlays, CreateMissing, MakeSwapFails, FindMagic,
                      ListDatasets, SkipDataset, SwapOn, MountTmpfs, CreateTemporary, overlay,
                      CreateDataset, CreateDatasetFails, MakeSwap, disk
  <2>7. CASE \/ \E e \in Devs : ImportPool(e) \/ MountFails(e)
             \/ Reboot
             \/ \E id \in Ids \cup {None} : SetMachine(id)
             \/ UNCHANGED vars
    BY <2>2, <2>7 DEF ImportPool, MountFails, Reboot, SetMachine, vars, disk
  <2> QED BY <1>1, <2>3, <2>4, <2>5, <2>6, <2>7 DEF Next, Script
<1>2. PersistenceInv /\ [Next]_vars =>
        [\A d \in Devs : PoolsOn = {d} => PoolsOn' = {d} \/ fault]_vars
  BY <1>1
<1> QED BY <1>2, PersistenceInvariant, PTL DEF Spec, SecondPoolOnlyByAccident
=============================================================================

--------------------------- MODULE AutoSendProofs ---------------------------
(***************************************************************************)
(* The scan loses no answer, and the automatic sender sends only what is   *)
(* enabled, only to whom the user allowed, and frees the list of servers   *)
(* only once its readers have ended: for any number of interfaces, threads *)
(* and servers.  The filters are loops over a list to which a cancelled    *)
(* thread may still append: the invariant says of each what the entries it *)
(* has passed are like.                                                    *)
(***************************************************************************)
EXTENDS AutoSend, FiniteSetTheorems, SequenceTheorems, WellFoundedInduction, TLAPS

Elements(q) == {q[i] : i \in DOMAIN q}

\* Until the threads are cancelled, one that is about to store is the only one
\* and stores at the end of the list.  Threads run on interfaces the caller has
\* looked at.
Mutex ==
    /\ HolderReleases
    /\ \A i \in Interfaces : worker[i] = "store" /\ ~Late => locked = i /\ slot[i] = Len(list) + 1
    /\ \A i \in Interfaces : worker[i] \in {"lock", "store"} => hold[i] \in Addresses
    /\ \A i \in Interfaces : worker[i] # "none" => i \in 1 .. visited

\* Where the loops are.
InLoop ==
    /\ phase \in {"own", "allowed"} => turn >= 1
    /\ phase = "twice" => turn >= 2

\* All that was heard in time is in the list until the caller selects from it.
Kept ==
    /\ ~Late => heard \subseteq Found
    /\ phase \in {"own", "twice", "returned"} => heard \ addr_lst \subseteq Found

NotOwn(a)  == a \in addr_lst => a \in late
Allowed(a) == setup.allowed # {} => a \in setup.allowed \cup late

\* What the loops have passed, and what they leave.
Filtered ==
    /\ phase = "own" => \A j \in DOMAIN list : j < turn => NotOwn(list[j])
    /\ phase \in {"twice", "returned", "allowed", "selected"} => \A a \in Found : NotOwn(a)
    /\ phase = "allowed" => \A j \in DOMAIN list : j < turn => Allowed(list[j])
    /\ phase = "selected" /\ (Len(list) < FilterMax \/ stage \in {"create", "join", "wild"})
         => \A a \in Found : Allowed(a)

\* Who is in the array of threads, and has received something.
Reached ==
    /\ stage \in {"create", "join", "wild"} => phase = "selected"
    /\ \A j \in DOMAIN threads : NotOwn(threads[j].server) /\ Allowed(threads[j].server)
    /\ \A a \in sent : NotOwn(a) /\ Allowed(a)
    /\ stage # "over" \/ threads # <<>> \/ sent # {} => Wanted

\* What has been created and waited for.
Joining ==
    /\ stage = "scan" => threads = <<>> /\ sent = {}
    /\ stage \in {"scan", "create"} => joined = 0
    /\ stage \in {"create", "join"} => Len(threads) <= Len(list)
    /\ stage = "join" /\ late = {} => Len(threads) = Len(list)
    /\ \A j \in 1 .. joined : threads[j].at \in {"none", "ended"}
    /\ JoinedBeforeFreed

IInv == SendTypeOK /\ Mutex /\ InLoop /\ Kept /\ Filtered /\ Reached /\ Joining
-----------------------------------------------------------------------------
(* Numbers and lists *)

Less == {p \in Nat \X Nat : p[1] < p[2]}

\* Every set of numbers that is not empty has a least one.
LEMMA LeastNumber ==
  ASSUME NEW T \in SUBSET Nat, T # {}
  PROVE  \E x \in T : \A y \in T : x <= y
<1>1. IsWellFoundedOn(Less, Nat)
  BY NatLessThanWellFounded DEF OpToRel, Less
<1>2. PICK x \in T : \A y \in T : ~(<<y, x>> \in Less)
  BY <1>1, WFMin
<1>3. ASSUME NEW y \in T PROVE x <= y
  <2>1. <<y, x>> \in Nat \X Nat /\ <<y, x>> \notin Less
    BY <1>2
  <2>2. ~(<<y, x>>[1] < <<y, x>>[2])
    BY <2>1 DEF Less
  <2> QED
    BY <2>2
<1> QED
  BY <1>3

\* A set that holds 0 and with every number the next one holds them all.
LEMMA SetInduction ==
  ASSUME NEW T, 0 \in T, \A n \in Nat : n \in T => n + 1 \in T
  PROVE  \A n \in Nat : n \in T
<1> SUFFICES ASSUME NEW m \in Nat, m \notin T PROVE FALSE
  OBVIOUS
<1> DEFINE B == {n \in Nat : n \notin T}
<1>1. PICK x \in B : \A y \in B : x <= y
  <2>1. B \in SUBSET Nat /\ B # {}
    OBVIOUS
  <2> QED
    BY <2>1, LeastNumber
<1>2. x # 0 /\ x - 1 \in Nat
  BY <1>1
<1>3. x - 1 \in T
  BY <1>1, <1>2
<1>4. x \in T
  BY <1>2, <1>3
<1> QED
  BY <1>1, <1>4

\* A list is one of whatever holds its entries.
LEMMA ListOf ==
  ASSUME NEW S, NEW T, NEW q \in Seq(S), Elements(q) \subseteq T
  PROVE  q \in Seq(T)
<1>1. q \in [1 .. Len(q) -> S] /\ Len(q) \in Nat /\ DOMAIN q = 1 .. Len(q)
  BY LenProperties
<1>2. q \in [1 .. Len(q) -> T]
  BY <1>1 DEF Elements
<1> QED
  BY <1>1, <1>2, SeqDef

\* A function on the first numbers is a list.
LEMMA FunctionIsList ==
  ASSUME NEW S, NEW n \in Nat, NEW q \in [1 .. n -> S]
  PROVE  q \in Seq(S) /\ Len(q) = n /\ DOMAIN q = 1 .. n
<1>1. q \in Seq(S)
  BY SeqDef
<1> QED
  BY <1>1, LenProperties

\* What is in a list with one more entry.
LEMMA ElementsOfAppend ==
  ASSUME NEW S, NEW q \in Seq(S), NEW m \in S
  PROVE  /\ Append(q, m) \in Seq(S) /\ Elements(Append(q, m)) = Elements(q) \cup {m}
         /\ Len(Append(q, m)) = Len(q) + 1
         /\ \A i \in 1 .. Len(q) : Append(q, m)[i] = q[i]
         /\ Append(q, m)[Len(q) + 1] = m
<1>1. /\ Append(q, m) \in Seq(S)
      /\ Len(Append(q, m)) = Len(q) + 1
      /\ \A i \in 1 .. Len(q) : Append(q, m)[i] = q[i]
      /\ Append(q, m)[Len(q) + 1] = m
  BY AppendProperties
<1>2. DOMAIN q = 1 .. Len(q) /\ DOMAIN Append(q, m) = 1 .. Len(q) + 1 /\ Len(q) \in Nat
  BY <1>1, LenProperties
<1> QED
  BY <1>1, <1>2 DEF Elements

-----------------------------------------------------------------------------
(* The filters *)

\* The last entry takes the place of the one that is removed.
LEMMA Removed ==
  ASSUME NEW S, NEW q \in Seq(S), NEW i \in 1 .. Len(q)
  PROVE  /\ RemoveAt(q, i) \in Seq(S) /\ Len(RemoveAt(q, i)) = Len(q) - 1
         /\ Elements(RemoveAt(q, i)) \subseteq Elements(q)
         /\ Elements(q) \subseteq Elements(RemoveAt(q, i)) \cup {q[i]}
         /\ \A j \in 1 .. i - 1 : RemoveAt(q, i)[j] = q[j]
<1> DEFINE r == RemoveAt(q, i)
           n == Len(q)
<1>1. q \in [1 .. n -> S] /\ n \in Nat \ {0} /\ DOMAIN q = 1 .. n
  BY LenProperties
<1>2. r = [j \in 1 .. n - 1 |-> IF j = i THEN q[n] ELSE q[j]]
  BY DEF RemoveAt
<1> HIDE DEF r, n
<1>3. r \in [1 .. n - 1 -> S] /\ n - 1 \in Nat
  BY <1>1, <1>2
<1>4. r \in Seq(S) /\ Len(r) = n - 1 /\ DOMAIN r = 1 .. n - 1
  BY <1>3, FunctionIsList
<1>5. Elements(r) \subseteq Elements(q)
  BY <1>1, <1>2, <1>4 DEF Elements
<1>6. ASSUME NEW k \in 1 .. n, q[k] # q[i] PROVE q[k] \in Elements(r)
  <2>1. CASE k = n
    <3>1. i \in 1 .. n - 1 /\ r[i] = q[n]
      BY <1>1, <1>2, <1>6, <2>1 DEF n
    <3> QED
      BY <1>4, <2>1, <3>1 DEF Elements
  <2>2. CASE k # n
    <3>1. k \in 1 .. n - 1 /\ k # i
      BY <1>1, <1>6, <2>2
    <3>2. r[k] = q[k]
      BY <1>2, <3>1
    <3> QED
      BY <1>4, <3>1, <3>2 DEF Elements
  <2> QED
    BY <2>1, <2>2
<1>7. Elements(q) \subseteq Elements(r) \cup {q[i]}
  BY <1>1, <1>6 DEF Elements
<1>8. \A j \in 1 .. i - 1 : r[j] = q[j]
  BY <1>1, <1>2 DEF n
<1> QED
  BY <1>4, <1>5, <1>7, <1>8 DEF r, n

\* What has been sorted is the same entries.
LEMMA SortedLeaves ==
  ASSUME NEW q \in Seq(Nat)
  PROVE  /\ Sorted(q) \in Seq(Nat)
         /\ Elements(Sorted(q)) = Elements(q)
         /\ Len(Sorted(q)) = Len(q)
<1> DEFINE N == Len(q)
           D == DOMAIN q
           Below(a) == {i \in D : q[i] < a}
           UpTo(a) == {i \in D : q[i] <= a}
           At(k, a) == Cardinality(Below(a)) < k /\ k <= Cardinality(UpTo(a))
           place(k) == CHOOSE a \in {q[i] : i \in D} : At(k, a)
           s == [k \in 1 .. N |-> place(k)]
<1>1. N \in Nat /\ D = 1 .. N /\ \A i \in D : q[i] \in Nat
  BY LenProperties
<1>2. Sorted(q) = s
  BY DEF Sorted
<1> HIDE DEF N, D
<1>3. IsFiniteSet(D) /\ Cardinality(D) = N
  BY <1>1, FS_Interval
<1>4. \A a : /\ IsFiniteSet(Below(a)) /\ IsFiniteSet(UpTo(a))
             /\ Cardinality(Below(a)) \in Nat /\ Cardinality(UpTo(a)) \in 0 .. N
  <2> SUFFICES ASSUME NEW a
               PROVE  /\ IsFiniteSet(Below(a)) /\ IsFiniteSet(UpTo(a))
                      /\ Cardinality(Below(a)) \in Nat /\ Cardinality(UpTo(a)) \in 0 .. N
    OBVIOUS
  <2>1. Below(a) \in SUBSET D /\ UpTo(a) \in SUBSET D
    OBVIOUS
  <2> HIDE DEF Below, UpTo
  <2>2. /\ IsFiniteSet(Below(a)) /\ IsFiniteSet(UpTo(a))
        /\ Cardinality(UpTo(a)) <= N
    BY <1>3, <2>1, FS_Subset
  <2>3. Cardinality(Below(a)) \in Nat /\ Cardinality(UpTo(a)) \in Nat
    BY <2>2, FS_CardinalityType
  <2> QED
    BY <1>1, <2>2, <2>3
<1>5. \E m \in Nat : \A i \in D : q[i] <= m
  <2> DEFINE Bound(n) == \E m \in Nat : \A i \in D : i <= n => q[i] <= m
             T == {n \in Nat : Bound(n)}
  <2>1. 0 \in T
    BY <1>1
  <2>2. ASSUME NEW n \in Nat, n \in T PROVE n + 1 \in T
    <3>1. PICK m \in Nat : \A i \in D : i <= n => q[i] <= m
      BY <2>2
    <3>2. CASE n + 1 \in D
      <4>1. m + q[n + 1] \in Nat /\ m <= m + q[n + 1] /\ q[n + 1] <= m + q[n + 1]
        BY <1>1, <3>2
      <4>2. \A i \in D : i <= n + 1 => q[i] <= m + q[n + 1]
        BY <1>1, <3>1, <4>1
      <4> QED
        BY <4>1, <4>2
    <3>3. CASE n + 1 \notin D
      <4>1. \A i \in D : i <= n + 1 => i <= n
        BY <1>1, <3>3
      <4> QED
        BY <3>1, <4>1
    <3> QED
      BY <3>2, <3>3
  <2> HIDE DEF T
  <2>3. N \in T
    BY <1>1, <2>1, <2>2, SetInduction
  <2> QED
    BY <1>1, <2>3 DEF T
<1>6. \A k \in 1 .. N : \E a \in {q[i] : i \in D} : At(k, a)
  <2> SUFFICES ASSUME NEW k \in 1 .. N PROVE \E a \in {q[i] : i \in D} : At(k, a)
    OBVIOUS
  <2> DEFINE T == {a \in Nat : k <= Cardinality(UpTo(a))}
  <2>1. T # {}
    <3>1. PICK m \in Nat : \A i \in D : q[i] <= m
      BY <1>5
    <3>2. UpTo(m) = D
      BY <3>1
    <3>3. k <= Cardinality(UpTo(m))
      <4> HIDE DEF UpTo
      <4> QED
        BY <1>1, <1>3, <3>2
    <3> QED
      BY <3>1, <3>3
  <2>2. PICK a \in T : \A b \in T : a <= b
    <3>1. T \in SUBSET Nat
      OBVIOUS
    <3> HIDE DEF T
    <3> QED
      BY <2>1, <3>1, LeastNumber
  <2>3. a \in Nat /\ k <= Cardinality(UpTo(a))
    OBVIOUS
  <2>4. Cardinality(Below(a)) < k
    <3>1. CASE a = 0
      <4>1. Below(a) = {}
        BY <1>1, <3>1
      <4> HIDE DEF Below
      <4> QED
        BY <1>1, <4>1, FS_EmptySet
    <3>2. CASE a # 0
      <4>1. a - 1 \in Nat /\ ~(a <= a - 1)
        BY <2>3, <3>2
      <4>2. ~(k <= Cardinality(UpTo(a - 1)))
        BY <2>2, <4>1
      <4>3. Below(a) = UpTo(a - 1)
        BY <1>1, <2>3, <4>1
      <4> HIDE DEF Below, UpTo
      <4>4. Cardinality(UpTo(a - 1)) \in Nat
        BY <1>1, <1>4
      <4> QED
        BY <1>1, <4>2, <4>3, <4>4
    <3> QED
      BY <3>1, <3>2
  <2>5. Below(a) # UpTo(a)
    <3> HIDE DEF Below, UpTo
    <3>1. Cardinality(Below(a)) \in Nat /\ Cardinality(UpTo(a)) \in Nat
      BY <1>1, <1>4
    <3> QED
      BY <2>3, <2>4, <3>1
  <2>6. PICK i \in D : q[i] <= a /\ ~(q[i] < a)
    BY <1>1, <2>3, <2>5
  <2>7. q[i] = a
    BY <1>1, <2>3, <2>6
  <2> QED
    BY <2>3, <2>4, <2>7
<1>7. \A k \in 1 .. N : place(k) \in {q[i] : i \in D} /\ At(k, place(k))
  <2> HIDE DEF At
  <2> QED
    BY <1>6
<1> HIDE DEF place
<1>8. s \in [1 .. N -> Nat]
  BY <1>1, <1>7
<1>9. s \in Seq(Nat) /\ Len(s) = N /\ DOMAIN s = 1 .. N
  BY <1>1, <1>8, FunctionIsList
<1>10. Elements(s) \subseteq Elements(q)
  BY <1>7, <1>9 DEF Elements, D
<1>11. ASSUME NEW i \in D PROVE q[i] \in Elements(s)
  <2> DEFINE a == q[i]
             k == Cardinality(UpTo(a))
             v == place(k)
  <2>1. a \in Nat
    BY <1>1
  <2>2. k \in 1 .. N
    <3>1. i \in UpTo(a)
      BY <2>1
    <3>2. IsFiniteSet(UpTo(a)) /\ k \in 0 .. N
      BY <1>4
    <3>3. UpTo(a) # {}
      BY <3>1
    <3>4. k # 0
      <4> HIDE DEF UpTo
      <4> QED
        BY <3>2, <3>3, FS_EmptySet
    <3> QED
      BY <1>1, <3>2, <3>4
  <2>3. v \in Nat /\ Cardinality(Below(v)) < k /\ k <= Cardinality(UpTo(v))
    BY <1>1, <1>7, <2>2
  <2> HIDE DEF v
  <2>4. ~(v < a)
    <3> SUFFICES ASSUME v < a PROVE FALSE
      OBVIOUS
    <3>1. UpTo(v) \subseteq UpTo(a) /\ i \in UpTo(a) /\ i \notin UpTo(v)
      BY <1>1, <2>1, <2>3
    <3>2. UpTo(v) \in SUBSET UpTo(a) /\ UpTo(v) # UpTo(a)
      BY <3>1
    <3> HIDE DEF UpTo, Below, a
    <3>3. IsFiniteSet(UpTo(a)) /\ Cardinality(UpTo(v)) \in Nat /\ Cardinality(UpTo(a)) \in Nat
      BY <1>1, <1>4
    <3>4. Cardinality(UpTo(v)) < Cardinality(UpTo(a))
      BY <3>2, <3>3, FS_Subset
    <3> QED
      BY <2>3, <3>3, <3>4
  <2>5. ~(a < v)
    <3> SUFFICES ASSUME a < v PROVE FALSE
      OBVIOUS
    <3>1. UpTo(a) \in SUBSET Below(v)
      BY <1>1, <2>1, <2>3
    <3> HIDE DEF UpTo, Below, a
    <3>2. IsFiniteSet(Below(v)) /\ Cardinality(Below(v)) \in Nat /\ k \in Nat
      BY <1>1, <1>4
    <3>3. k <= Cardinality(Below(v))
      BY <3>1, <3>2, FS_Subset
    <3> HIDE DEF k
    <3> QED
      BY <2>3, <3>2, <3>3
  <2> HIDE DEF k
  <2>6. v = a
    BY <2>1, <2>3, <2>4, <2>5
  <2>7. s[k] = v
    BY <2>2 DEF v
  <2> QED
    BY <1>9, <2>2, <2>6, <2>7 DEF Elements
<1>12. Elements(q) = {q[i] : i \in D}
  BY DEF Elements, D
<1>13. Elements(s) = Elements(q)
  <2> HIDE DEF s
  <2> QED
    BY <1>10, <1>11, <1>12
<1> QED
  BY <1>2, <1>9, <1>13 DEF N

\* What is stored at the end is appended.
LEMMA StoredAppends ==
  ASSUME NEW S, list \in Seq(S), NEW a \in S
  PROVE  Stored(Len(list) + 1, a) = Append(list, a)
<1> DEFINE n == Len(list)
<1>1. list \in [1 .. n -> S] /\ n \in Nat
  BY LenProperties
<1>2. Stored(n + 1, a) = [j \in 1 .. n + 1 |-> IF j = n + 1 THEN a ELSE list[j]]
  BY <1>1 DEF Stored
<1>3. /\ Append(list, a) \in Seq(S) /\ Len(Append(list, a)) = n + 1
      /\ \A j \in 1 .. n : Append(list, a)[j] = list[j]
      /\ Append(list, a)[n + 1] = a
  BY AppendProperties
<1>4. Append(list, a) \in [1 .. n + 1 -> S]
  BY <1>3, LenProperties
<1> HIDE DEF n
<1>5. Stored(n + 1, a) \in [1 .. n + 1 -> S]
  BY <1>1, <1>2
<1>6. \A j \in 1 .. n + 1 : Stored(n + 1, a)[j] = Append(list, a)[j]
  BY <1>1, <1>2, <1>3
<1>7. Stored(n + 1, a) = Append(list, a)
  <2>1. Stored(n + 1, a) = [j \in 1 .. n + 1 |-> Stored(n + 1, a)[j]]
    BY <1>5
  <2>2. Append(list, a) = [j \in 1 .. n + 1 |-> Append(list, a)[j]]
    BY <1>4
  <2> QED
    BY <1>6, <2>1, <2>2, Zenon
<1> QED
  BY <1>7 DEF n

-----------------------------------------------------------------------------
(* The scan and the sender *)
\* What is assumed of the constants.
LEMMA Constants ==
  MaxThreads \in Nat \ {0} /\ FilterMax \in Nat /\ SendMax \in Nat /\ SendMax < FilterMax
  /\ MaxInterfaces \in Nat
BY MaxThreadsAssumption, MaximaAssumption, SendMaxAssumption

\* Addresses are numbers other than 0, and interfaces are numbered.
LEMMA Situation ==
  ASSUME setup \in Setups
  PROVE  /\ Up \subseteq Interfaces /\ Up = 1 .. Len(setup.reach) /\ Len(setup.reach) \in Nat
         /\ \A i \in Up : setup.reach[i] \subseteq Addresses
         /\ Addresses \subseteq Nat \ {0}
<1>1. setup.reach \in Seq(SUBSET (Nat \ {0})) /\ Len(setup.reach) <= MaxInterfaces
  BY SetupsAssumption
<1>2. Len(setup.reach) \in Nat /\ Up = 1 .. Len(setup.reach)
      /\ setup.reach \in [1 .. Len(setup.reach) -> SUBSET (Nat \ {0})]
  BY <1>1, LenProperties DEF Up
<1>3. Up \subseteq Interfaces
  BY <1>1, <1>2, Constants DEF Interfaces
<1>4. \A i \in Up : setup.reach[i] \subseteq Nat \ {0}
  BY <1>2
<1>5. Addresses \subseteq Nat \ {0}
  <2> SUFFICES ASSUME NEW a \in Addresses PROVE a \in Nat \ {0}
    OBVIOUS
  <2>1. \E r \in {setup.reach[i] : i \in Up} : a \in r
    BY Zenon DEF Addresses
  <2> QED
    BY <1>4, <2>1
<1>6. \A i \in Up : setup.reach[i] \subseteq Addresses
  BY Zenon DEF Addresses
<1> QED
  BY <1>2, <1>3, <1>5, <1>6

\* The variables have their types at the start.
LEMMA SendTypeOKInit ==
  ASSUME SendInit
  PROVE  SendTypeOK
<1>1. setup \in Setups /\ Up \subseteq Interfaces /\ Len(setup.reach) \in Nat
  BY Situation DEF SendInit, Init
<1>2. <<>> \in Seq(Addresses) /\ <<>> \in Seq([server : Addresses, at : {"none", "new", "open", "hung", "ended"}])
      /\ Len(<<>>) = 0
  BY EmptySeq
<1>3. TypeOK
  <2> USE DEF SendInit, Init
  <2>1. /\ worker \in [Interfaces -> {"none", "new", "send", "read", "lock", "store", "stuck", "ended"}]
        /\ inbox \in [Interfaces -> SUBSET Addresses] /\ \A i \in Up : inbox[i] \subseteq setup.reach[i]
    BY <1>1
  <2>2. /\ hold \in [Interfaces -> Addresses \cup {0}] /\ slot \in [Interfaces -> Nat]
        /\ visited \in 0 .. Len(setup.reach)
    BY <1>1
  <2>3. locked \in Interfaces \cup {0} /\ list \in Seq(Addresses) /\ turn \in Nat
    BY <1>2
  <2> QED
    BY <1>1, <2>1, <2>2, <2>3 DEF TypeOK
<1> QED
  BY <1>1, <1>2, <1>3 DEF SendInit, SendTypeOK

\* The invariant holds at the start.
LEMMA IInvInit ==
  ASSUME SendInit
  PROVE  IInv
<1>1. SendTypeOK
  BY SendTypeOKInit
<1>2. Mutex
  BY DEF SendInit, Init, Mutex, HolderReleases
<1>3. InLoop /\ Kept
  BY DEF SendInit, Init, InLoop, Kept, Late
<1>4. Filtered /\ Reached
  BY DEF SendInit, Init, Filtered, Reached
<1>5. Joining
  BY LenProperties DEF SendInit, Init, Joining, JoinedBeforeFreed
<1> QED
  BY <1>1, <1>2, <1>3, <1>4, <1>5 DEF IInv

\* The situation does not change.
LEMMA SetupKept ==
  ASSUME [SendNext]_allVars
  PROVE  setup' = setup /\ Up' = Up /\ Addresses' = Addresses
<1>1. CASE \E i \in Interfaces : Worker(i)
  BY <1>1 DEF Worker, OpenSocket, Broadcast, ReceiveAnswer, Lock, LockDead, Store, StoreLate,
         EndThread, Elsewhere, Up, Addresses
<1>2. CASE Caller
  BY <1>2 DEF Caller, StartThread, AllStarted, WaitOver, GraceOver, StopThread, AllStopped, Waiting,
         OwnTurn, OwnOver, TwiceTurn, TwiceOver, Select, AllowedTurn, AllowedOver, Turn, Filtering,
         Up, Addresses
<1>3. CASE Scanned \/ UNCHANGED vars
  BY <1>3 DEF Scanned, vars, Up, Addresses
<1> QED
  BY <1>1, <1>2, <1>3
     DEF SendNext, Sender, ScanStep, Create, CreateOver, Join, JoinOver, ScanThread, SendThread,
         Connect, Transfer, allVars

\* What a thread of the scan does to the list.
LEMMA ThreadAppends ==
  ASSUME SendTypeOK, Mutex, NEW i \in Interfaces, Worker(i)
  PROVE  /\ UNCHANGED <<setup, phase, visited, turn>>
         /\ late \subseteq late' /\ late' \subseteq late \cup Addresses
         /\ \/ UNCHANGED <<list, heard>>
            \/ /\ list' = Append(list, hold[i]) /\ hold[i] \in Addresses
               /\ Late => hold[i] \in late' /\ UNCHANGED heard
               /\ ~Late => heard' = heard \cup {hold[i]}
<1>1. list \in Seq(Addresses)
  BY DEF SendTypeOK, TypeOK
<1>2. worker[i] \in {"lock", "store"} => hold[i] \in Addresses
  BY DEF Mutex
<1>3. CASE Store(i)
  <2>1. ~Late /\ worker[i] = "store" /\ list' = Stored(slot[i], hold[i])
    BY <1>3 DEF Store, To
  <2>2. hold[i] \in Addresses /\ slot[i] = Len(list) + 1
    BY <2>1 DEF Mutex
  <2>3. Stored(Len(list) + 1, hold[i]) = Append(list, hold[i])
    BY <1>1, <2>2, StoredAppends
  <2> QED
    BY <1>3, <2>1, <2>2, <2>3 DEF Store
<1>4. CASE StoreLate(i)
  BY <1>2, <1>4 DEF StoreLate, To
<1>5. CASE LockDead(i)
  BY <1>2, <1>5 DEF LockDead, To
<1>6. CASE OpenSocket(i) \/ Broadcast(i) \/ ReceiveAnswer(i) \/ Lock(i) \/ EndThread(i)
  BY <1>6 DEF OpenSocket, Broadcast, ReceiveAnswer, Lock, EndThread, Elsewhere
<1> QED
  BY <1>3, <1>4, <1>5, <1>6 DEF Worker

\* What a turn of a loop does to the list, and where it is afterwards.
LEMMA TurnRemoves ==
  ASSUME SendTypeOK, turn >= 1, turn <= Len(list), list' = RemoveAt(list, turn)
  PROVE  /\ list' \in Seq(Addresses) /\ Len(list') = Len(list) - 1
         /\ Elements(list') \subseteq Elements(list)
         /\ Elements(list) \subseteq Elements(list') \cup {list[turn]}
         /\ \A j \in 1 .. turn - 1 : list'[j] = list[j]
<1>1. list \in Seq(Addresses) /\ turn \in Nat
  BY DEF SendTypeOK, TypeOK
<1>2. turn \in 1 .. Len(list)
  BY <1>1, LenProperties
<1>3. /\ RemoveAt(list, turn) \in Seq(Addresses) /\ Len(RemoveAt(list, turn)) = Len(list) - 1
      /\ Elements(RemoveAt(list, turn)) \subseteq Elements(list)
      /\ Elements(list) \subseteq Elements(RemoveAt(list, turn)) \cup {list[turn]}
      /\ \A j \in 1 .. turn - 1 : RemoveAt(list, turn)[j] = list[j]
  BY <1>1, <1>2, Removed
<1> QED
  BY <1>3

\* The list has the same entries once it is sorted.
LEMMA SortKeeps ==
  ASSUME SendTypeOK
  PROVE  Sorted(list) \in Seq(Addresses) /\ Elements(Sorted(list)) = Elements(list)
         /\ Len(Sorted(list)) = Len(list)
<1>1. Addresses \subseteq Nat /\ list \in Seq(Addresses)
  BY Situation DEF SendTypeOK, TypeOK
<1>2. list \in [1 .. Len(list) -> Addresses] /\ DOMAIN list = 1 .. Len(list)
  BY <1>1, LenProperties
<1>3. Elements(list) \subseteq Addresses /\ Elements(list) \subseteq Nat
  BY <1>1, <1>2 DEF Elements
<1>4. list \in Seq(Nat)
  BY <1>1, <1>3, ListOf
<1>5. Sorted(list) \in Seq(Nat) /\ Elements(Sorted(list)) = Elements(list)
      /\ Len(Sorted(list)) = Len(list)
  BY <1>4, SortedLeaves
<1>6. Sorted(list) \in Seq(Addresses)
  BY <1>3, <1>5, ListOf
<1> QED
  BY <1>5, <1>6

\* The kinds of steps.
LEMMA Steps ==
  ASSUME [SendNext]_allVars
  PROVE  \/ \E i \in Interfaces : Worker(i) /\ UNCHANGED sendVars
         \/ stage = "scan" /\ Caller /\ UNCHANGED sendVars
         \/ Scanned
         \/ UNCHANGED vars /\ (Create \/ CreateOver \/ Join \/ JoinOver)
         \/ UNCHANGED vars /\ \E j \in DOMAIN threads : Connect(j) \/ Transfer(j)
         \/ UNCHANGED allVars
BY DEF SendNext, Sender, ScanStep, ScanThread, SendThread, Create, CreateOver, Join, JoinOver,
       Connect, Transfer

\* The list keeps its type.
LEMMA ListType ==
  ASSUME SendTypeOK, Mutex, InLoop, [SendNext]_allVars
  PROVE  list' \in Seq(Addresses)
<1>1. list \in Seq(Addresses) /\ <<>> \in Seq(Addresses)
  BY EmptySeq DEF SendTypeOK, TypeOK
<1>2. CASE \E i \in Interfaces : Worker(i)
  <2>1. PICK i \in Interfaces : Worker(i)
    BY <1>2
  <2>2. UNCHANGED list \/ (list' = Append(list, hold[i]) /\ hold[i] \in Addresses)
    BY <2>1, ThreadAppends
  <2> QED
    BY <1>1, <2>2, AppendProperties
<1>3. CASE Caller
  <2>1. CASE OwnTurn \/ TwiceTurn \/ AllowedTurn
    <3>1. turn >= 1 /\ turn <= Len(list) /\ (UNCHANGED list \/ list' = RemoveAt(list, turn))
      BY <2>1 DEF OwnTurn, TwiceTurn, AllowedTurn, Turn, InLoop, SendTypeOK, TypeOK
    <3> QED
      BY <1>1, <3>1, TurnRemoves
  <2>2. CASE OwnOver
    BY <2>2, SortKeeps DEF OwnOver
  <2>3. CASE UNCHANGED list
    BY <1>1, <2>3
  <2> QED
    BY <1>3, <2>1, <2>2, <2>3
       DEF Caller, StartThread, AllStarted, WaitOver, GraceOver, StopThread, AllStopped, Waiting,
           TwiceOver, Select, AllowedOver
<1>4. CASE Scanned \/ UNCHANGED vars
  BY <1>1, <1>4 DEF Scanned, BeginAgain, vars
<1> QED
  BY <1>2, <1>3, <1>4, Steps DEF allVars

\* The variables of the scan keep their types.
LEMMA TypeOKStep ==
  ASSUME SendTypeOK, Mutex, InLoop, [SendNext]_allVars
  PROVE  TypeOK'
<1>1. setup' = setup /\ Up' = Up /\ Addresses' = Addresses
  BY SetupKept
<1>2. /\ Up \subseteq Interfaces /\ Up = 1 .. Len(setup.reach) /\ Len(setup.reach) \in Nat
      /\ \A i \in Up : setup.reach[i] \subseteq Addresses
      /\ Len(list) \in Nat
  BY Situation, LenProperties DEF SendTypeOK, TypeOK
<1>3. list' \in Seq(Addresses)
  BY ListType
<1> USE DEF SendTypeOK, TypeOK
<1>4. CASE \E i \in Interfaces : Worker(i)
  <2> SUFFICES ASSUME NEW i \in Interfaces, Worker(i) PROVE TypeOK'
    BY <1>4
  <2>1. worker[i] # "none" => i \in Up
    BY <1>2 DEF Mutex
  <2>2. worker[i] \in {"lock", "store"} => hold[i] \in Addresses
    BY DEF Mutex
  <2>3. CASE OpenSocket(i)
    <3>1. worker' \in [Interfaces -> {"none", "new", "send", "read", "lock", "store", "stuck", "ended"}]
          /\ sock' \subseteq Interfaces
      BY <2>3 DEF OpenSocket, To
    <3> QED
      BY <1>1, <2>3, <3>1 DEF OpenSocket, Elsewhere
  <2>4. CASE Broadcast(i)
    <3>1. worker' \in [Interfaces -> {"none", "new", "send", "read", "lock", "store", "stuck", "ended"}]
          /\ i \in Up
      BY <2>1, <2>4 DEF Broadcast, To
    <3>2. inbox' \in [Interfaces -> SUBSET Addresses] /\ \A k \in Up : inbox'[k] \subseteq setup.reach[k]
      BY <1>2, <2>4, <3>1 DEF Broadcast
    <3> QED
      BY <1>1, <2>4, <3>1, <3>2 DEF Broadcast, Elsewhere
  <2>5. CASE ReceiveAnswer(i)
    <3>1. PICK a \in inbox[i] : hold' = [hold EXCEPT ![i] = a] /\ inbox' = [inbox EXCEPT ![i] = @ \ {a}]
      BY <2>5 DEF ReceiveAnswer
    <3>2. worker' \in [Interfaces -> {"none", "new", "send", "read", "lock", "store", "stuck", "ended"}]
      BY <2>5 DEF ReceiveAnswer, To
    <3>3. hold' \in [Interfaces -> Addresses \cup {0}] /\ inbox' \in [Interfaces -> SUBSET Addresses]
          /\ \A k \in Up : inbox'[k] \subseteq setup.reach[k]
      BY <1>2, <3>1
    <3> QED
      BY <1>1, <2>5, <3>2, <3>3 DEF ReceiveAnswer, Elsewhere
  <2>6. CASE Lock(i)
    <3>1. worker' \in [Interfaces -> {"none", "new", "send", "read", "lock", "store", "stuck", "ended"}]
      BY <2>6 DEF Lock, To
    <3>2. slot' \in [Interfaces -> Nat] /\ locked' \in Interfaces
      BY <1>2, <2>6 DEF Lock
    <3> QED
      BY <1>1, <2>6, <3>1, <3>2 DEF Lock
  <2>7. CASE LockDead(i)
    <3>1. worker' \in [Interfaces -> {"none", "new", "send", "read", "lock", "store", "stuck", "ended"}]
      BY <2>7 DEF LockDead, To
    <3>2. hold' \in [Interfaces -> Addresses \cup {0}] /\ slot' \in [Interfaces -> Nat]
      BY <1>2, <2>7 DEF LockDead
    <3>3. late' \subseteq Addresses
      BY <2>2, <2>7 DEF LockDead, To
    <3>4. UNCHANGED <<setup, phase, visited, cancel, sock, inbox, locked, list, turn, heard, corrupt>>
      BY <2>7 DEF LockDead
    <3> QED
      BY <1>1, <3>1, <3>2, <3>3, <3>4
  <2>8. CASE Store(i) \/ StoreLate(i)
    <3>1. worker' \in [Interfaces -> {"none", "new", "send", "read", "lock", "store", "stuck", "ended"}]
          /\ hold[i] \in Addresses
      BY <2>2, <2>8 DEF Store, StoreLate, To
    <3>2. Unlock(i)
      BY <2>8 DEF Store, StoreLate
    <3>3. hold' \in [Interfaces -> Addresses \cup {0}] /\ slot' \in [Interfaces -> Nat]
      BY <3>2 DEF Unlock
    <3>4. locked' \in Interfaces \cup {0}
      BY <3>2 DEF Unlock
    <3>5. heard' \cup late' \subseteq Addresses /\ corrupt' \in BOOLEAN
      BY <2>8, <3>1 DEF Store, StoreLate
    <3>6. UNCHANGED <<setup, phase, visited, cancel, sock, inbox, turn>>
      BY <2>8 DEF Store, StoreLate
    <3> QED
      BY <1>1, <1>3, <3>1, <3>3, <3>4, <3>5, <3>6
  <2>9. CASE EndThread(i)
    BY <1>1, <2>9 DEF EndThread, To, Elsewhere
  <2> QED
    BY <2>3, <2>4, <2>5, <2>6, <2>7, <2>8, <2>9 DEF Worker
<1>5. CASE Caller
  <2>1. CASE StartThread
    <3>1. visited' \in 0 .. Len(setup.reach)
      BY <1>2, <2>1 DEF StartThread
    <3>2. worker' \in [Interfaces -> {"none", "new", "send", "read", "lock", "store", "stuck", "ended"}]
      BY <1>2, <2>1 DEF StartThread
    <3> QED
      BY <1>1, <2>1, <3>1, <3>2 DEF StartThread
  <2>2. CASE AllStarted \/ WaitOver \/ GraceOver \/ AllStopped
    BY <1>1, <2>2 DEF AllStarted, WaitOver, GraceOver, AllStopped, Enter, Waiting, threadVars
  <2>3. CASE StopThread
    BY <1>1, <2>3 DEF StopThread, Started
  <2>4. CASE OwnTurn \/ TwiceTurn \/ AllowedTurn
    BY <1>1, <1>3, <2>4 DEF OwnTurn, TwiceTurn, AllowedTurn, Turn, Filtering, threadVars
  <2>5. CASE OwnOver \/ TwiceOver \/ Select \/ AllowedOver
    BY <1>1, <1>3, <2>5 DEF OwnOver, TwiceOver, Select, AllowedOver, Enter, Filtering, threadVars
  <2> QED
    BY <1>5, <2>1, <2>2, <2>3, <2>4, <2>5 DEF Caller
<1>6. CASE BeginAgain /\ UNCHANGED setup /\ corrupt' \in BOOLEAN
  <2> USE DEF BeginAgain
  <2>1. /\ worker' \in [Interfaces -> {"none", "new", "send", "read", "lock", "store", "stuck", "ended"}]
        /\ inbox' \in [Interfaces -> SUBSET Addresses] /\ \A i \in Up : inbox'[i] \subseteq setup.reach[i]
    BY <1>2, <1>6
  <2>2. /\ hold' \in [Interfaces -> Addresses \cup {0}] /\ slot' \in [Interfaces -> Nat]
        /\ visited' \in 0 .. Len(setup.reach)
    BY <1>2, <1>6
  <2> QED
    BY <1>1, <1>3, <1>6, <2>1, <2>2
<1>7. CASE UNCHANGED vars
  BY <1>1, <1>7 DEF vars, threadVars
<1>8. Scanned => UNCHANGED vars \/ (BeginAgain /\ UNCHANGED setup /\ corrupt' \in BOOLEAN)
  BY DEF Scanned
<1> QED
  BY <1>4, <1>5, <1>6, <1>7, <1>8, Steps DEF allVars

Thread == [server : Addresses, at : {"none", "new", "open", "hung", "ended"}]

\* What is appended to the array of threads.
LEMMA ThreadCreated ==
  ASSUME SendTypeOK, Create
  PROVE  /\ threads' \in Seq(Thread) /\ Len(threads') = Len(threads) + 1
         /\ \A k \in 1 .. Len(threads) : threads'[k] = threads[k]
         /\ threads'[Len(threads) + 1].server \in Found
<1>1. PICK at \in {"none", "new"} :
         threads' = Append(threads, [server |-> list[Len(threads) + 1], at |-> at])
  BY DEF Create
<1> DEFINE a == list[Len(threads) + 1]
<1>2. list \in [1 .. Len(list) -> Addresses] /\ DOMAIN list = 1 .. Len(list)
      /\ Len(list) \in Nat /\ Len(threads) \in Nat
  BY LenProperties DEF SendTypeOK, TypeOK
<1>3. Len(threads) + 1 \in DOMAIN list
  BY <1>2 DEF Create
<1>4. a \in Addresses /\ a \in Found
  BY <1>2, <1>3 DEF Found
<1> HIDE DEF a
<1>5. threads \in Seq(Thread) /\ [server |-> a, at |-> at] \in Thread
  BY <1>4 DEF SendTypeOK, Thread
<1>6. threads' = Append(threads, [server |-> a, at |-> at])
  BY <1>1 DEF a
<1>7. /\ threads' \in Seq(Thread) /\ Len(threads') = Len(threads) + 1
      /\ \A k \in 1 .. Len(threads) : threads'[k] = threads[k]
      /\ threads'[Len(threads) + 1] = [server |-> a, at |-> at]
  BY <1>5, <1>6, AppendProperties
<1> QED
  BY <1>4, <1>7

\* A thread that sends changes only its own entry, which had not ended.
LEMMA ThreadMoves ==
  ASSUME SendTypeOK, NEW j \in DOMAIN threads, Connect(j) \/ Transfer(j)
  PROVE  /\ threads' \in Seq(Thread)
         /\ DOMAIN threads' = DOMAIN threads /\ Len(threads') = Len(threads)
         /\ \A k \in DOMAIN threads : threads'[k].server = threads[k].server
         /\ \A k \in DOMAIN threads : threads[k].at \in {"none", "ended"} => threads'[k] = threads[k]
         /\ threads[j].at \notin {"none", "ended"} /\ threads[j].server \in Addresses
         /\ sent \subseteq sent' /\ sent' \subseteq sent \cup {threads[j].server}
         /\ UNCHANGED <<vars, stage, attempt, joined>>
<1>1. threads \in [1 .. Len(threads) -> Thread] /\ DOMAIN threads = 1 .. Len(threads)
      /\ Len(threads) \in Nat
  BY LenProperties DEF SendTypeOK, Thread
<1>2. PICK at \in {"open", "hung", "ended"} : threads' = [threads EXCEPT ![j].at = at]
  BY DEF Connect, Transfer, Go
<1>3. threads[j].at \notin {"none", "ended"} /\ threads[j].server \in Addresses
  BY <1>1 DEF Connect, Transfer, Go, Thread
<1>4. threads' \in [1 .. Len(threads) -> Thread]
  BY <1>1, <1>2 DEF Thread
<1>5. /\ \A k \in DOMAIN threads : threads'[k].server = threads[k].server
      /\ \A k \in DOMAIN threads : k # j => threads'[k] = threads[k]
  BY <1>1, <1>2 DEF Thread
<1>6. threads' \in Seq(Thread) /\ Len(threads') = Len(threads) /\ DOMAIN threads' = DOMAIN threads
  BY <1>1, <1>4, FunctionIsList
<1>7. sent \subseteq sent' /\ sent' \subseteq sent \cup {threads[j].server}
  BY DEF Connect, Transfer
<1>8. UNCHANGED <<vars, stage, attempt, joined>>
  BY DEF Connect, Transfer
<1> QED
  BY <1>3, <1>5, <1>6, <1>7, <1>8

\* The variables keep their types.
LEMMA SendTypeOKStep ==
  ASSUME SendTypeOK, Mutex, InLoop, [SendNext]_allVars
  PROVE  SendTypeOK'
<1>1. TypeOK' /\ Addresses' = Addresses
  BY TypeOKStep, SetupKept
<1>2. /\ stage' \in {"scan", "create", "join", "over", "wild"} /\ attempt' \in 1 .. 2
      /\ threads' \in Seq(Thread) /\ joined' \in 0 .. Len(threads') /\ sent' \subseteq Addresses
  <2>1. /\ stage \in {"scan", "create", "join", "over", "wild"} /\ attempt \in 1 .. 2
        /\ threads \in Seq(Thread) /\ joined \in 0 .. Len(threads) /\ sent \subseteq Addresses
        /\ Len(threads) \in Nat
    BY LenProperties DEF SendTypeOK, Thread
  <2>2. CASE UNCHANGED sendVars
    BY <2>1, <2>2 DEF sendVars
  <2>3. CASE Scanned \/ CreateOver \/ JoinOver
    <3>1. UNCHANGED <<threads, joined, sent>>
      BY <2>3 DEF Scanned, CreateOver, JoinOver
    <3>2. stage' \in {"scan", "create", "join", "over"} /\ attempt' \in {attempt, 2}
      BY <2>3 DEF Scanned, CreateOver, JoinOver
    <3> QED
      BY <2>1, <3>1, <3>2
  <2>4. CASE Create
    <3>1. threads' \in Seq(Thread) /\ Len(threads') = Len(threads) + 1
      BY <2>4, ThreadCreated
    <3> QED
      BY <2>1, <2>4, <3>1 DEF Create
  <2>5. CASE Join
    BY <2>1, <2>5 DEF Join
  <2>6. CASE \E j \in DOMAIN threads : Connect(j) \/ Transfer(j)
    <3>1. PICK j \in DOMAIN threads : Connect(j) \/ Transfer(j)
      BY <2>6
    <3>2. /\ threads' \in Seq(Thread) /\ Len(threads') = Len(threads)
          /\ threads[j].server \in Addresses /\ sent' \subseteq sent \cup {threads[j].server}
          /\ UNCHANGED <<stage, attempt, joined>>
      BY <3>1, ThreadMoves
    <3> QED
      BY <2>1, <3>2
  <2>7. \/ UNCHANGED sendVars \/ Scanned \/ Create \/ CreateOver \/ Join \/ JoinOver
        \/ \E j \in DOMAIN threads : Connect(j) \/ Transfer(j)
    BY Steps DEF allVars
  <2> QED
    BY <2>2, <2>3, <2>4, <2>5, <2>6, <2>7
<1> QED
  BY <1>1, <1>2 DEF SendTypeOK, Thread

\* No two threads are about to store until they are cancelled, and the list does
\* not grow under one that is.
LEMMA MutexStep ==
  ASSUME SendTypeOK, Mutex, [SendNext]_allVars
  PROVE  Mutex'
<1>1. Up' = Up /\ Addresses' = Addresses
  BY SetupKept
<1>2. /\ worker \in [Interfaces -> {"none", "new", "send", "read", "lock", "store", "stuck", "ended"}]
      /\ hold \in [Interfaces -> Addresses \cup {0}] /\ slot \in [Interfaces -> Nat]
      /\ \A i \in Up : inbox[i] \subseteq setup.reach[i] /\ setup.reach[i] \subseteq Addresses
      /\ Len(list) \in Nat /\ locked \in Interfaces \cup {0} /\ 0 \notin Interfaces
      /\ Up = 1 .. Len(setup.reach) /\ Up \subseteq Interfaces
      /\ visited \in 0 .. Len(setup.reach) /\ Len(setup.reach) \in Nat
  BY Situation, LenProperties DEF SendTypeOK, TypeOK, Interfaces
<1> USE DEF Mutex, HolderReleases
<1>3. CASE \E i \in Interfaces : Worker(i)
  <2> SUFFICES ASSUME NEW i \in Interfaces, Worker(i) PROVE Mutex'
    BY <1>3
  <2>1. CASE OpenSocket(i)
    BY <1>1, <1>2, <2>1 DEF OpenSocket, To, Elsewhere, Late
  <2>2. CASE Broadcast(i)
    BY <1>1, <1>2, <2>2 DEF Broadcast, To, Elsewhere, Late
  <2>3. CASE ReceiveAnswer(i)
    <3>1. PICK a \in inbox[i] : hold' = [hold EXCEPT ![i] = a]
      BY <2>3 DEF ReceiveAnswer
    <3>2. i \in 1 .. visited /\ i \in Up /\ a \in Addresses
      BY <1>2, <2>3, <3>1 DEF ReceiveAnswer, To
    <3> QED
      BY <1>1, <1>2, <2>3, <3>1, <3>2 DEF ReceiveAnswer, To, Elsewhere, Late
  <2>4. CASE Lock(i)
    <3>1. i # 0 /\ ~Late
      BY <1>2, <2>4 DEF Lock
    <3>2. \A k \in Interfaces : worker[k] # "store"
      BY <1>2, <2>4, <3>1 DEF Lock
    <3> QED
      BY <1>1, <1>2, <2>4, <3>1, <3>2 DEF Lock, To
  <2>5. CASE LockDead(i)
    <3>1. Late' /\ hold[i] \in Addresses /\ worker[i] = "lock" /\ UNCHANGED locked
      BY <2>5 DEF LockDead, To, Late
    <3>2. PICK at \in {"read", "stuck", "store"} : worker' = [worker EXCEPT ![i] = at]
      BY <2>5 DEF LockDead, To
    <3>3. locked # 0 => worker'[locked] = "store"
      BY <1>2, <3>1, <3>2
    <3>4. hold' = hold \/ (hold' = [hold EXCEPT ![i] = 0] /\ at = "read")
      BY <1>2, <2>5, <3>2 DEF LockDead, To
    <3>5. \A k \in Interfaces : worker'[k] \in {"lock", "store"} => hold'[k] \in Addresses
      BY <1>2, <3>1, <3>2, <3>4
    <3>6. \A k \in Interfaces : worker'[k] # "none" => k \in 1 .. visited'
      BY <1>2, <2>5, <3>1, <3>2 DEF LockDead
    <3> QED
      BY <1>1, <3>1, <3>3, <3>5, <3>6
  <2>6. CASE Store(i) \/ StoreLate(i)
    <3>1. worker[i] = "store" /\ worker' = [worker EXCEPT ![i] = "read"] /\ Late' = Late
      BY <2>6 DEF Store, StoreLate, To, Late
    <3>2. Unlock(i)
      BY <2>6 DEF Store, StoreLate
    <3>3. locked' # 0 => worker'[locked'] = "store"
      BY <1>2, <3>1, <3>2 DEF Unlock
    <3>4. \A k \in Interfaces : worker'[k] = "store" => Late'
      BY <1>2, <3>1
    <3>5. \A k \in Interfaces : worker'[k] \in {"lock", "store"} => hold'[k] \in Addresses
      BY <1>2, <3>1, <3>2 DEF Unlock
    <3>6. \A k \in Interfaces : worker'[k] # "none" => k \in 1 .. visited'
      BY <1>2, <2>6, <3>1 DEF Store, StoreLate
    <3> QED
      BY <1>1, <3>3, <3>4, <3>5, <3>6
  <2>7. CASE EndThread(i)
    BY <1>1, <1>2, <2>7 DEF EndThread, To, Elsewhere, Late
  <2> QED
    BY <2>1, <2>2, <2>3, <2>4, <2>5, <2>6, <2>7 DEF Worker
<1>4. CASE Caller
  <2>1. CASE StartThread
    <3>1. visited + 1 \in Interfaces /\ visited + 1 \in Up /\ ~Late /\ ~Late'
          /\ UNCHANGED <<hold, slot, locked, list>>
      BY <1>2, <2>1 DEF StartThread, Late
    <3>2. PICK at \in {"none", "new"} : worker' = [worker EXCEPT ![visited + 1] = at]
      BY <2>1 DEF StartThread
    <3>3. worker[visited + 1] = "none" /\ visited' = visited + 1
      BY <1>2, <2>1, <3>1 DEF StartThread
    <3>4. locked # 0 => locked # visited + 1
      BY <1>2, <3>1, <3>3
    <3>5. \A k \in Interfaces : worker'[k] # "none" => k \in 1 .. visited'
      BY <1>2, <3>1, <3>2, <3>3
    <3>6. locked' # 0 => worker'[locked'] = "store"
      BY <1>2, <3>1, <3>2, <3>4
    <3>7. \A k \in Interfaces : worker'[k] \in {"lock", "store"} => worker[k] = worker'[k]
      BY <1>2, <3>1, <3>2
    <3> QED
      BY <1>1, <1>2, <3>1, <3>5, <3>6, <3>7
  <2>2. CASE ~Late'
    <3>1. ~Late /\ UNCHANGED <<hold, slot, locked, list>> /\ (StartThread \/ UNCHANGED <<worker, visited>>)
      BY <1>4, <2>2
         DEF Caller, StartThread, AllStarted, WaitOver, GraceOver, StopThread, AllStopped, Waiting,
             OwnTurn, OwnOver, TwiceTurn, TwiceOver, Select, AllowedTurn, AllowedOver, Turn,
             Filtering, Enter, Late, threadVars
    <3> QED
      BY <1>1, <2>1, <2>2, <3>1
  <2>3. CASE Late' /\ UNCHANGED <<worker, hold, slot, locked, visited>>
    BY <1>1, <2>3
  <2> QED
    BY <1>4, <2>1, <2>2, <2>3
       DEF Caller, AllStarted, WaitOver, GraceOver, StopThread, AllStopped, Waiting,
           OwnTurn, OwnOver, TwiceTurn, TwiceOver, Select, AllowedTurn, AllowedOver, Turn,
           Filtering, threadVars
<1>5. CASE BeginAgain
  BY <1>1, <1>5 DEF BeginAgain
<1>6. CASE UNCHANGED vars
  <2>1. UNCHANGED <<phase, worker, hold, slot, locked, list, visited>>
    BY <1>6 DEF vars, threadVars
  <2> QED
    BY <1>1, <2>1 DEF Late
<1> QED
  BY <1>3, <1>4, <1>5, <1>6, Steps DEF allVars, Scanned

\* The loops begin where they should.
LEMMA InLoopStep ==
  ASSUME SendTypeOK, Mutex, InLoop, [SendNext]_allVars
  PROVE  InLoop'
<1> USE DEF InLoop
<1>1. CASE \E i \in Interfaces : Worker(i)
  <2>1. UNCHANGED <<phase, turn>>
    BY <1>1, ThreadAppends
  <2> QED
    BY <2>1
<1>2. CASE Caller
  <2>1. turn \in Nat
    BY DEF SendTypeOK, TypeOK
  <2> QED
    BY <1>2, <2>1
       DEF Caller, StartThread, AllStarted, WaitOver, GraceOver, StopThread, AllStopped,
           OwnTurn, OwnOver, TwiceTurn, TwiceOver, Select, AllowedTurn, AllowedOver, Turn, Enter
<1>3. CASE BeginAgain
  BY <1>3 DEF BeginAgain
<1>4. CASE UNCHANGED vars
  BY <1>4 DEF vars
<1> QED
  BY <1>1, <1>2, <1>3, <1>4, Steps DEF allVars, Scanned

\* What Append does to the entries of the list.
LEMMA ListAppended ==
  ASSUME SendTypeOK, NEW a \in Addresses, list' = Append(list, a)
  PROVE  /\ Len(list') = Len(list) + 1 /\ Found' = Found \cup {a}
         /\ \A j \in DOMAIN list : j \in DOMAIN list' /\ list'[j] = list[j]
         /\ \A j \in DOMAIN list' : j \in DOMAIN list \/ list'[j] = a
<1>1. list \in Seq(Addresses)
  BY DEF SendTypeOK, TypeOK
<1>2. /\ Append(list, a) \in Seq(Addresses) /\ Len(Append(list, a)) = Len(list) + 1
      /\ Elements(Append(list, a)) = Elements(list) \cup {a}
      /\ \A i \in 1 .. Len(list) : Append(list, a)[i] = list[i]
      /\ Append(list, a)[Len(list) + 1] = a
  BY <1>1, ElementsOfAppend
<1>3. DOMAIN list = 1 .. Len(list) /\ Len(list) \in Nat
      /\ DOMAIN list' = 1 .. Len(list) + 1
  BY <1>1, <1>2, LenProperties
<1>4. Found = Elements(list) /\ Found' = Elements(list')
  BY DEF Found, Elements
<1> QED
  BY <1>2, <1>3, <1>4

\* What a turn leaves in the list.
LEMMA TurnLeaves ==
  ASSUME SendTypeOK, turn >= 1, turn <= Len(list), list' = RemoveAt(list, turn)
  PROVE  /\ Found' \subseteq Found /\ Found \subseteq Found' \cup {list[turn]}
         /\ \A j \in DOMAIN list' : j < turn => j \in DOMAIN list /\ list'[j] = list[j]
         /\ \A j \in DOMAIN list : j < turn => list[j] \in Found'
<1>1. /\ list' \in Seq(Addresses) /\ Len(list') = Len(list) - 1
      /\ Elements(list') \subseteq Elements(list)
      /\ Elements(list) \subseteq Elements(list') \cup {list[turn]}
      /\ \A j \in 1 .. turn - 1 : list'[j] = list[j]
  BY TurnRemoves
<1>2. DOMAIN list = 1 .. Len(list) /\ Len(list) \in Nat /\ turn \in Nat
      /\ DOMAIN list' = 1 .. Len(list) - 1
  BY <1>1, LenProperties DEF SendTypeOK, TypeOK
<1>3. Found = Elements(list) /\ Found' = Elements(list')
  BY DEF Found, Elements
<1>4. \A j \in DOMAIN list' : j < turn => j \in DOMAIN list /\ list'[j] = list[j]
  BY <1>1, <1>2
<1>5. \A j \in DOMAIN list : j < turn => j \in DOMAIN list' /\ list'[j] = list[j]
  BY <1>1, <1>2
<1>6. \A j \in DOMAIN list : j < turn => list[j] \in Found'
  BY <1>5 DEF Found
<1> QED
  BY <1>1, <1>3, <1>4, <1>6

\* The caller forgets nothing that was heard in time but its own addresses.
LEMMA KeptStep ==
  ASSUME SendTypeOK, Mutex, InLoop, Kept, [SendNext]_allVars
  PROVE  Kept'
<1> USE DEF Kept
<1>1. CASE \E i \in Interfaces : Worker(i)
  <2>1. PICK i \in Interfaces : Worker(i)
    BY <1>1
  <2>2. /\ UNCHANGED <<setup, phase, visited>>
        /\ \/ UNCHANGED <<list, heard>>
           \/ /\ list' = Append(list, hold[i]) /\ hold[i] \in Addresses
              /\ Late => UNCHANGED heard
              /\ ~Late => heard' = heard \cup {hold[i]}
    BY <2>1, ThreadAppends
  <2>3. addr_lst' = addr_lst /\ Late' = Late
    BY <2>2 DEF addr_lst, Late
  <2>4. CASE UNCHANGED <<list, heard>>
    BY <2>2, <2>3, <2>4 DEF Found
  <2>5. CASE list' = Append(list, hold[i]) /\ hold[i] \in Addresses
    <3>1. Found' = Found \cup {hold[i]}
      BY <2>5, ListAppended
    <3>2. Late => UNCHANGED heard
      <4>1. UNCHANGED list => UNCHANGED heard \/ list' = Append(list, hold[i])
        BY <2>2
      <4> QED
        BY <2>2
    <3>3. phase \in {"own", "twice", "returned"} => Late
      BY DEF Late
    <3>4. heard' \subseteq heard \cup {hold[i]}
      BY <2>2
    <3> QED
      BY <2>2, <2>3, <3>1, <3>2, <3>3, <3>4
  <2> QED
    BY <2>2, <2>4, <2>5
<1>2. CASE Caller
  <2>1. CASE ~Late'
    <3>1. ~Late /\ UNCHANGED <<list, heard>> /\ phase' \notin {"own", "twice", "returned"}
      BY <1>2, <2>1
         DEF Caller, StartThread, AllStarted, WaitOver, GraceOver, StopThread, AllStopped, Waiting,
             OwnTurn, OwnOver, TwiceTurn, TwiceOver, Select, AllowedTurn, AllowedOver, Turn,
             Filtering, Enter, Late
    <3> QED
      BY <2>1, <3>1 DEF Found
  <2>2. CASE AllStopped
    <3>1. ~Late /\ UNCHANGED <<list, heard>> /\ Late'
      BY <2>2 DEF AllStopped, Waiting, Enter, Late
    <3> QED
      BY <3>1 DEF Found
  <2>3. CASE OwnTurn
    <3>1. UNCHANGED <<setup, visited, phase, heard>> /\ phase = "own"
      BY <2>3 DEF OwnTurn, Turn, Filtering
    <3>2. addr_lst' = addr_lst /\ Late'
      BY <3>1 DEF addr_lst, Late
    <3>3. UNCHANGED list \/ (list' = RemoveAt(list, turn) /\ list[turn] \in addr_lst)
      BY <2>3 DEF OwnTurn, Turn
    <3>4. turn >= 1 /\ turn <= Len(list)
      BY <2>3, <3>1 DEF OwnTurn, Turn, InLoop
    <3>5. heard \ addr_lst \subseteq Found'
      BY <3>1, <3>3, <3>4, TurnLeaves DEF Found
    <3> QED
      BY <3>1, <3>2, <3>5
  <2>4. CASE TwiceTurn
    <3>1. UNCHANGED <<setup, visited, phase, heard>> /\ phase = "twice"
      BY <2>4 DEF TwiceTurn, Turn, Filtering
    <3>2. addr_lst' = addr_lst /\ Late'
      BY <3>1 DEF addr_lst, Late
    <3>3. UNCHANGED list \/ (list' = RemoveAt(list, turn) /\ list[turn - 1] = list[turn])
      BY <2>4 DEF TwiceTurn, Turn
    <3>4. turn >= 2 /\ turn <= Len(list) /\ turn \in Nat /\ Len(list) \in Nat
          /\ DOMAIN list = 1 .. Len(list)
      BY <2>4, <3>1, LenProperties DEF TwiceTurn, Turn, InLoop, SendTypeOK, TypeOK
    <3>5. turn - 1 \in DOMAIN list /\ turn - 1 < turn /\ turn >= 1
      BY <3>4
    <3>6. Found \subseteq Found'
      <4>1. CASE list' = RemoveAt(list, turn) /\ list[turn - 1] = list[turn]
        <5>1. Found \subseteq Found' \cup {list[turn]} /\ list[turn - 1] \in Found'
          BY <3>4, <3>5, <4>1, TurnLeaves
        <5> QED
          BY <4>1, <5>1
      <4> QED
        BY <3>3, <4>1 DEF Found
    <3> QED
      BY <3>1, <3>2, <3>6
  <2>5. CASE OwnOver
    <3>1. Found' = Found
      BY <2>5, SortKeeps DEF OwnOver, Found, Elements
    <3>2. UNCHANGED <<setup, visited, heard>> /\ phase = "own" /\ phase' = "twice"
      BY <2>5 DEF OwnOver, Enter, Filtering
    <3>3. addr_lst' = addr_lst /\ Late'
      BY <3>2 DEF addr_lst, Late
    <3> QED
      BY <3>1, <3>2, <3>3
  <2>6. CASE TwiceOver
    <3>1. UNCHANGED <<setup, visited, heard, list>> /\ phase = "twice" /\ phase' = "returned"
      BY <2>6 DEF TwiceOver, Enter, Filtering
    <3>2. addr_lst' = addr_lst /\ Late' /\ Found' = Found
      BY <3>1 DEF addr_lst, Late, Found
    <3> QED
      BY <3>1, <3>2
  <2>7. CASE Select \/ AllowedTurn \/ AllowedOver
    <3>1. phase' \in {"allowed", "selected"}
      BY <2>7 DEF Select, AllowedTurn, AllowedOver, Turn, Enter
    <3> QED
      BY <3>1 DEF Late
  <2>8. StartThread \/ AllStarted \/ WaitOver \/ GraceOver \/ StopThread => ~Late'
    BY DEF StartThread, AllStarted, WaitOver, GraceOver, StopThread, Enter, Late
  <2> QED
    BY <1>2, <2>1, <2>2, <2>3, <2>4, <2>5, <2>6, <2>7, <2>8 DEF Caller
<1>3. CASE BeginAgain
  BY <1>3 DEF BeginAgain
<1>4. CASE UNCHANGED vars
  <2>1. UNCHANGED <<setup, phase, visited, heard, list>>
    BY <1>4 DEF vars
  <2> QED
    BY <2>1 DEF Found, Late, addr_lst
<1> QED
  BY <1>1, <1>2, <1>3, <1>4, Steps DEF allVars, Scanned

\* The loops leave only what is wanted, or late.
LEMMA FilteredStep ==
  ASSUME SendTypeOK, Mutex, InLoop, Filtered, Joining, [SendNext]_allVars
  PROVE  Filtered'
<1>1. setup' = setup
  BY SetupKept
<1>2. Len(list) \in Nat /\ DOMAIN list = 1 .. Len(list) /\ turn \in Nat
  BY LenProperties DEF SendTypeOK, TypeOK
<1> USE DEF Filtered
<1>3. CASE \E i \in Interfaces : Worker(i) /\ UNCHANGED sendVars
  <2>1. PICK i \in Interfaces : Worker(i) /\ UNCHANGED sendVars
    BY <1>3
  <2>2. /\ UNCHANGED <<setup, phase, visited, turn, stage>> /\ late \subseteq late'
        /\ \/ UNCHANGED list
           \/ list' = Append(list, hold[i]) /\ hold[i] \in Addresses /\ (Late => hold[i] \in late')
    BY <2>1, ThreadAppends DEF sendVars
  <2>3. addr_lst' = addr_lst
    BY <2>2 DEF addr_lst
  <2>4. \A a : (NotOwn(a) => (a \in addr_lst' => a \in late'))
               /\ (Allowed(a) => (setup'.allowed # {} => a \in setup'.allowed \cup late'))
    BY <2>2, <2>3 DEF NotOwn, Allowed
  <2>5. CASE UNCHANGED list
    <3>1. Found' = Found
      BY <2>5 DEF Found
    <3> QED
      BY <2>2, <2>4, <2>5, <3>1 DEF NotOwn, Allowed
  <2>6. CASE list' = Append(list, hold[i]) /\ hold[i] \in Addresses /\ Late
    <3>1. /\ Len(list') = Len(list) + 1 /\ Found' = Found \cup {hold[i]}
          /\ \A j \in DOMAIN list : j \in DOMAIN list' /\ list'[j] = list[j]
          /\ \A j \in DOMAIN list' : j \in DOMAIN list \/ list'[j] = hold[i]
      BY <2>6, ListAppended
    <3>2. hold[i] \in late'
      <4>1. UNCHANGED list => FALSE
        BY <1>2, <3>1
      <4> QED
        BY <2>2, <2>6, <4>1
    <3>3. \A j \in DOMAIN list' : (j \in DOMAIN list /\ list'[j] = list[j]) \/ list'[j] \in late'
      BY <3>1, <3>2
    <3>4. \A a \in Found' : a \in Found \/ a \in late'
      BY <3>1, <3>2
    <3>5. Len(list') < FilterMax => Len(list) < FilterMax
      BY <1>2, <3>1, Constants
    <3> QED
      BY <2>2, <2>4, <3>3, <3>4, <3>5 DEF NotOwn, Allowed
  <2>7. CASE ~Late
    BY <2>2, <2>7 DEF Late
  <2> QED
    BY <2>2, <2>5, <2>6, <2>7
<1>4. CASE stage = "scan" /\ Caller /\ UNCHANGED sendVars
  <2> USE <1>4
  <2>1. stage' = "scan"
    BY DEF sendVars
  <2>2. CASE ~Late'
    BY <2>2 DEF Late
  <2>3. CASE AllStopped
    <3>1. phase' \in {"own", "returned"} /\ turn' = 1 /\ list' = list
          /\ (phase' = "returned" => list = <<>>)
      BY <2>3 DEF AllStopped, Enter, Waiting
    <3>2. \A j \in DOMAIN list' : ~(j < turn')
      BY <1>2, <3>1
    <3>3. phase' = "returned" => Found' = {}
      BY <3>1, EmptySeq DEF Found
    <3> QED
      BY <3>1, <3>2, <3>3
  <2>4. CASE OwnTurn
    <3>1. UNCHANGED <<setup, visited, phase, late>> /\ phase = "own" /\ turn >= 1 /\ turn <= Len(list)
      BY <2>4 DEF OwnTurn, Turn, Filtering, InLoop
    <3>2. \A a : NotOwn(a)' <=> NotOwn(a)
      BY <3>1 DEF NotOwn, addr_lst
    <3>3. \/ list' = RemoveAt(list, turn) /\ turn' = turn
          \/ list' = list /\ turn' = turn + 1 /\ list[turn] \notin addr_lst
      BY <2>4 DEF OwnTurn, Turn
    <3>4. CASE list' = RemoveAt(list, turn) /\ turn' = turn
      <4>1. \A j \in DOMAIN list' : j < turn => j \in DOMAIN list /\ list'[j] = list[j]
        BY <3>1, <3>4, TurnLeaves
      <4>2. \A j \in DOMAIN list' : j < turn' => NotOwn(list'[j])
        BY <3>1, <3>4, <4>1
      <4>3. \A j \in DOMAIN list' : j < turn' => (list'[j] \in addr_lst' => list'[j] \in late')
        BY <3>1, <4>2 DEF NotOwn, addr_lst
      <4> QED
        BY <3>1, <4>3 DEF NotOwn
    <3>5. CASE list' = list /\ turn' = turn + 1 /\ list[turn] \notin addr_lst
      <4>1. \A j \in DOMAIN list' : j < turn' => j < turn \/ j = turn
        BY <1>2, <3>5
      <4>2. \A j \in DOMAIN list' : j < turn' => NotOwn(list'[j])
        BY <3>1, <3>5, <4>1 DEF NotOwn
      <4>3. \A j \in DOMAIN list' : j < turn' => (list'[j] \in addr_lst' => list'[j] \in late')
        BY <3>1, <4>2 DEF NotOwn, addr_lst
      <4> QED
        BY <3>1, <4>3 DEF NotOwn
    <3> QED
      BY <3>3, <3>4, <3>5
  <2>5. CASE OwnOver
    <3>1. Found' = Found
      BY <2>5, SortKeeps DEF OwnOver, Found, Elements
    <3>2. UNCHANGED <<setup, visited, late>> /\ phase = "own" /\ phase' = "twice" /\ turn > Len(list)
      BY <2>5 DEF OwnOver, Enter, Filtering
    <3>3. \A j \in DOMAIN list : j < turn
      BY <1>2, <3>2
    <3>4. \A a \in Found' : NotOwn(a)
      BY <3>1, <3>2, <3>3 DEF Found
    <3>5. \A a \in Found' : a \in addr_lst' => a \in late'
      BY <3>2, <3>4 DEF NotOwn, addr_lst
    <3> QED
      BY <3>2, <3>5 DEF NotOwn
  <2>6. CASE TwiceTurn \/ TwiceOver \/ Select \/ AllowedTurn \/ AllowedOver
    <3>1. UNCHANGED <<setup, visited, late>> /\ phase \in {"twice", "returned", "allowed"}
      BY <2>6 DEF TwiceTurn, TwiceOver, Select, AllowedTurn, AllowedOver, Turn, Filtering
    <3>2. UNCHANGED list \/ (list' = RemoveAt(list, turn) /\ turn >= 1 /\ turn <= Len(list))
      BY <1>2, <2>6 DEF TwiceTurn, TwiceOver, Select, AllowedTurn, AllowedOver, Turn, InLoop
    <3>3. Found' \subseteq Found
      BY <3>2, TurnLeaves DEF Found
    <3>4. \A a \in Found' : NotOwn(a)
      BY <3>1, <3>3
    <3>5. \A a \in Found' : a \in addr_lst' => a \in late'
      BY <3>1, <3>4 DEF NotOwn, addr_lst
    <3>6. phase' # "own"
      BY <2>6 DEF TwiceTurn, TwiceOver, Select, AllowedTurn, AllowedOver, Turn, Enter
    <3>7. CASE TwiceTurn \/ TwiceOver
      <4>1. phase' \in {"twice", "returned"}
        BY <3>7 DEF TwiceTurn, TwiceOver, Turn, Enter
      <4> QED
        BY <3>5, <4>1 DEF NotOwn
    <3>8. CASE Select
      <4>1. list' = list /\ turn' = 1
            /\ phase' = IF setup.allowed # {} /\ Len(list) < FilterMax THEN "allowed" ELSE "selected"
        BY <3>8 DEF Select, Enter
      <4>2. \A j \in DOMAIN list' : ~(j < turn')
        BY <1>2, <4>1
      <4>3. phase' = "selected" => setup'.allowed = {} \/ ~(Len(list') < FilterMax)
        BY <1>1, <4>1
      <4> QED
        BY <2>1, <3>5, <3>6, <4>2, <4>3 DEF NotOwn, Allowed
    <3>9. CASE AllowedTurn
      <4>1. phase = "allowed" /\ phase' = "allowed" /\ turn >= 1 /\ turn <= Len(list)
        BY <3>9 DEF AllowedTurn, Turn, InLoop
      <4>2. \/ list' = RemoveAt(list, turn) /\ turn' = turn
            \/ list' = list /\ turn' = turn + 1 /\ list[turn] \in setup.allowed
        BY <3>9 DEF AllowedTurn, Turn
      <4>3. \A j \in DOMAIN list' : j < turn' => Allowed(list'[j])
        <5>1. CASE list' = RemoveAt(list, turn) /\ turn' = turn
          <6>1. \A j \in DOMAIN list' : j < turn => j \in DOMAIN list /\ list'[j] = list[j]
            BY <4>1, <5>1, TurnLeaves
          <6> QED
            BY <4>1, <5>1, <6>1
        <5>2. CASE list' = list /\ turn' = turn + 1 /\ list[turn] \in setup.allowed
          <6>1. \A j \in DOMAIN list' : j < turn' => j < turn \/ j = turn
            BY <1>2, <5>2
          <6> QED
            BY <4>1, <5>2, <6>1 DEF Allowed
        <5> QED
          BY <4>2, <5>1, <5>2
      <4>4. \A j \in DOMAIN list' : j < turn' =>
               (setup'.allowed # {} => list'[j] \in setup'.allowed \cup late')
        BY <1>1, <3>1, <4>3 DEF Allowed
      <4> QED
        BY <3>5, <4>1, <4>4 DEF NotOwn, Allowed
    <3>10. CASE AllowedOver
      <4>1. phase = "allowed" /\ phase' = "selected" /\ turn > Len(list) /\ list' = list
        BY <3>10 DEF AllowedOver, Enter
      <4>2. \A j \in DOMAIN list : j < turn
        BY <1>2, <4>1
      <4>3. \A a \in Found' : Allowed(a)
        BY <4>1, <4>2 DEF Found
      <4>4. \A a \in Found' : setup'.allowed # {} => a \in setup'.allowed \cup late'
        BY <1>1, <3>1, <4>3 DEF Allowed
      <4> QED
        BY <3>5, <4>1, <4>4 DEF NotOwn, Allowed
    <3> QED
      BY <2>6, <3>7, <3>8, <3>9, <3>10
  <2>7. StartThread \/ AllStarted \/ WaitOver \/ GraceOver \/ StopThread => ~Late'
    BY DEF StartThread, AllStarted, WaitOver, GraceOver, StopThread, Enter, Late
  <2> QED
    BY <2>2, <2>3, <2>4, <2>5, <2>6, <2>7 DEF Caller
<1>5. CASE BeginAgain
  BY <1>5 DEF BeginAgain
<1>6. CASE UNCHANGED vars
  <2>1. UNCHANGED <<setup, phase, visited, list, turn, late>>
    BY <1>6 DEF vars
  <2>2. Found' = Found /\ addr_lst' = addr_lst
    BY <2>1 DEF Found, addr_lst
  <2>3. \/ stage' \in {"create", "join", "wild"} => stage \in {"create", "join", "wild"}
        \/ Len(list) < FilterMax
    <3>1. Usable(list) => Len(list) < FilterMax
      BY <1>2, Constants DEF Usable
    <3>2. Scanned => stage' # "create" \/ Usable(list)
      BY DEF Scanned, BeginAgain
    <3>3. Scanned => stage' \in {"create", "over"} \/ stage' = stage
      BY DEF Scanned
    <3>4. CASE \E j \in DOMAIN threads : Connect(j) \/ Transfer(j)
      BY <3>4 DEF Connect, Transfer
    <3>5. CASE Create \/ CreateOver \/ Join \/ JoinOver
      BY <3>5 DEF Create, CreateOver, Join, JoinOver
    <3>6. CASE UNCHANGED sendVars
      BY <3>6 DEF sendVars
    <3> QED
      BY <3>1, <3>2, <3>3, <3>4, <3>5, <3>6, Steps DEF allVars
  <2>4. \A a : (NotOwn(a) => (a \in addr_lst' => a \in late'))
               /\ (Allowed(a) => (setup'.allowed # {} => a \in setup'.allowed \cup late'))
    BY <2>1, <2>2 DEF NotOwn, Allowed
  <2> QED
    BY <2>1, <2>2, <2>3, <2>4 DEF NotOwn, Allowed
<1> QED
  BY <1>3, <1>4, <1>5, <1>6, Steps DEF allVars, Scanned

\* Addresses that are not permitted get no further than the list.
LEMMA ReachedStep ==
  ASSUME SendTypeOK, Mutex, Filtered, Reached, Joining, [SendNext]_allVars
  PROVE  Reached'
<1>1. setup' = setup
  BY SetupKept
<1>2. Len(threads) \in Nat /\ DOMAIN threads = 1 .. Len(threads)
  BY LenProperties DEF SendTypeOK
<1> USE DEF Reached
<1>3. CASE \E i \in Interfaces : Worker(i) /\ UNCHANGED sendVars
  <2>1. /\ UNCHANGED <<setup, phase, visited, stage, threads, sent>> /\ late \subseteq late'
    BY <1>3, ThreadAppends DEF sendVars
  <2>2. addr_lst' = addr_lst
    BY <2>1 DEF addr_lst
  <2> QED
    BY <2>1, <2>2 DEF NotOwn, Allowed, Wanted
<1>4. CASE stage = "scan" /\ Caller /\ UNCHANGED sendVars
  <2>1. threads' = <<>> /\ sent' = {} /\ stage' = "scan" /\ Wanted
    BY <1>4 DEF Joining, sendVars
  <2>2. DOMAIN threads' = {}
    BY <2>1, EmptySeq
  <2> QED
    BY <1>1, <2>1, <2>2 DEF Wanted
<1>5. CASE Scanned
  <2>1. threads' = <<>> /\ sent' = {} /\ Wanted /\ stage' \in {"scan", "create", "over"}
    BY <1>5 DEF Scanned, Joining
  <2>2. DOMAIN threads' = {}
    BY <2>1, EmptySeq
  <2>3. stage' = "create" => phase' = "selected"
    BY <1>5 DEF Scanned, vars
  <2> QED
    BY <1>1, <2>1, <2>2, <2>3 DEF Wanted
<1>6. CASE UNCHANGED vars /\ ~Scanned
  <2>1. UNCHANGED <<setup, phase, visited, list, late>>
    BY <1>6 DEF vars
  <2>2. addr_lst' = addr_lst
    BY <2>1 DEF addr_lst
  <2>3. \A a : (NotOwn(a) => (a \in addr_lst' => a \in late'))
               /\ (Allowed(a) => (setup'.allowed # {} => a \in setup'.allowed \cup late'))
    BY <2>1, <2>2 DEF NotOwn, Allowed
  <2>4. CASE Create
    <3>1. /\ Len(threads') = Len(threads) + 1 /\ threads' \in Seq(Thread)
          /\ \A k \in 1 .. Len(threads) : threads'[k] = threads[k]
          /\ threads'[Len(threads) + 1].server \in Found
      BY <2>4, ThreadCreated
    <3>2. DOMAIN threads' = 1 .. Len(threads) + 1
      BY <3>1, LenProperties
    <3>3. \A k \in DOMAIN threads' : NotOwn(threads'[k].server) /\ Allowed(threads'[k].server)
      <4>1. \A k \in DOMAIN threads' : k \in DOMAIN threads \/ k = Len(threads) + 1
        BY <1>2, <3>2
      <4>2. \A a \in Found : NotOwn(a) /\ Allowed(a)
        BY <2>4 DEF Create, Filtered
      <4> QED
        BY <1>2, <3>1, <4>1, <4>2
    <3>4. UNCHANGED <<stage, sent>> /\ stage = "create"
      BY <2>4 DEF Create
    <3> QED
      BY <2>1, <2>3, <3>3, <3>4 DEF NotOwn, Allowed, Wanted
  <2>5. CASE \E j \in DOMAIN threads : Connect(j) \/ Transfer(j)
    <3>1. PICK j \in DOMAIN threads : Connect(j) \/ Transfer(j)
      BY <2>5
    <3>2. /\ DOMAIN threads' = DOMAIN threads /\ threads # <<>>
          /\ \A k \in DOMAIN threads : threads'[k].server = threads[k].server
          /\ sent' \subseteq sent \cup {threads[j].server} /\ UNCHANGED stage
      BY <3>1, ThreadMoves, EmptySeq
    <3>3. \A a \in sent' : NotOwn(a) /\ Allowed(a)
      BY <3>1, <3>2
    <3> QED
      BY <2>1, <2>3, <3>2, <3>3 DEF NotOwn, Allowed, Wanted
  <2>6. CASE CreateOver \/ Join \/ JoinOver \/ UNCHANGED sendVars
    <3>1. /\ UNCHANGED <<threads, sent>>
          /\ stage' \in {"create", "join", "wild"} => stage \in {"create", "join", "wild"}
      BY <2>6 DEF CreateOver, Join, JoinOver, sendVars
    <3>2. stage = "over" => stage' = "over"
      BY <2>6 DEF CreateOver, Join, JoinOver, sendVars
    <3>3. /\ \A j \in DOMAIN threads' : NotOwn(threads'[j].server) /\ Allowed(threads'[j].server)
          /\ \A a \in sent' : NotOwn(a) /\ Allowed(a)
      BY <3>1
    <3>4. Wanted' = Wanted
      BY <2>1 DEF Wanted
    <3> QED
      BY <2>1, <2>3, <3>1, <3>2, <3>3, <3>4 DEF NotOwn, Allowed
  <2> QED
    BY <1>3, <1>6, <2>4, <2>5, <2>6, Steps DEF allVars
<1> QED
  BY <1>3, <1>4, <1>5, <1>6, Steps DEF allVars, Scanned

\* Threads are created and waited for one by one along the list.
LEMMA JoiningStep ==
  ASSUME SendTypeOK, Mutex, Reached, Joining, [SendNext]_allVars
  PROVE  Joining'
<1>1. /\ Len(list) \in Nat /\ Len(threads) \in Nat /\ DOMAIN threads = 1 .. Len(threads)
      /\ joined \in 0 .. Len(threads)
  BY LenProperties DEF SendTypeOK, TypeOK
<1> USE DEF Joining, JoinedBeforeFreed
<1>2. CASE \E i \in Interfaces : Worker(i) /\ UNCHANGED sendVars
  <2>1. PICK i \in Interfaces : Worker(i) /\ UNCHANGED sendVars
    BY <1>2
  <2>2. /\ UNCHANGED <<phase, stage, threads, joined, sent>> /\ late \subseteq late'
        /\ \/ UNCHANGED list
           \/ list' = Append(list, hold[i]) /\ hold[i] \in Addresses /\ (Late => hold[i] \in late')
    BY <2>1, ThreadAppends DEF sendVars
  <2>3. Len(list') \in Nat /\ Len(list') >= Len(list)
    BY <1>1, <2>2, ListAppended
  <2>4. stage \in {"create", "join"} => Len(threads) <= Len(list')
    <3>1. \A a, b, c \in Nat : a <= b /\ c >= b => a <= c
      OBVIOUS
    <3> QED
      BY <1>1, <2>3, <3>1
  <2>5. stage = "join" /\ late' = {} => Len(threads) = Len(list')
    <3>1. stage = "join" => Late
      BY DEF Reached, Late
    <3> QED
      BY <2>2, <3>1
  <2> QED
    BY <2>2, <2>4, <2>5
<1>3. CASE stage = "scan" /\ Caller /\ UNCHANGED sendVars
  BY <1>3 DEF sendVars
<1>4. CASE Scanned
  <2>1. threads = <<>> /\ sent = {} /\ joined = 0 /\ UNCHANGED <<threads, sent, joined>>
        /\ stage' \in {"scan", "create", "over"}
    BY <1>4 DEF Scanned
  <2>2. Len(threads') = 0 /\ DOMAIN threads' = {} /\ Len(list') \in Nat
    <3>1. list' = list \/ list' = <<>>
      BY <1>4 DEF Scanned, BeginAgain, vars
    <3> QED
      BY <1>1, <2>1, <3>1, EmptySeq
  <2> QED
    BY <2>1, <2>2
<1>5. CASE Create
  <2>1. Len(threads') = Len(threads) + 1
    BY <1>5, ThreadCreated
  <2>2. stage = "create" /\ joined = 0 /\ Len(threads) < Len(list)
        /\ UNCHANGED <<list, stage, joined, sent>>
    BY <1>5 DEF Create, vars
  <2> QED
    BY <1>1, <2>1, <2>2
<1>6. CASE CreateOver
  <2>1. stage = "create" /\ Len(threads) = Len(list) /\ joined = 0 /\ stage' = "join"
        /\ UNCHANGED <<list, threads, joined>>
    BY <1>1, <1>6 DEF CreateOver, vars
  <2> QED
    BY <1>1, <2>1
<1>7. CASE Join
  <2>1. stage = "join" /\ joined < Len(list) /\ UNCHANGED <<list, threads, sent, late>>
    BY <1>7 DEF Join, vars
  <2>2. CASE /\ joined < Len(threads) /\ ~Awaits(threads[joined + 1])
             /\ joined' = joined + 1 /\ UNCHANGED stage
    <3>1. \A j \in 1 .. joined' : j \in 1 .. joined \/ j = joined + 1
      BY <1>1, <2>2
    <3>2. threads[joined + 1].at \in {"none", "ended"}
      BY <2>2 DEF Awaits
    <3>3. \A j \in 1 .. joined' : threads[j].at \in {"none", "ended"}
      BY <3>1, <3>2
    <3> QED
      BY <2>1, <2>2, <3>3
  <2>3. CASE joined >= Len(threads) /\ stage' = "wild" /\ UNCHANGED joined
    <3>1. Len(threads) # Len(list)
      BY <1>1, <2>1, <2>3
    <3> QED
      BY <2>1, <2>3, <3>1
  <2> QED
    BY <1>7, <2>2, <2>3 DEF Join
<1>8. CASE JoinOver
  <2>1. stage = "join" /\ joined >= Len(list) /\ stage' = "over"
        /\ UNCHANGED <<threads, joined, late>>
    BY <1>8 DEF JoinOver, vars
  <2>2. joined = Len(threads)
    <3>1. joined \in Nat /\ joined <= Len(threads) /\ joined >= Len(list) /\ Len(threads) <= Len(list)
      BY <1>1, <2>1
    <3>2. \A a, b, c \in Nat : a <= b /\ b <= c /\ a >= c => a = b
      OBVIOUS
    <3> QED
      BY <1>1, <3>1, <3>2
  <2>3. \A j \in DOMAIN threads : threads[j].at \in {"none", "ended"}
    BY <1>1, <2>2
  <2> QED
    BY <2>1, <2>3
<1>9. CASE \E j \in DOMAIN threads : Connect(j) \/ Transfer(j)
  <2> SUFFICES ASSUME NEW j \in DOMAIN threads, Connect(j) \/ Transfer(j) PROVE Joining'
    BY <1>9
  <2>1. /\ DOMAIN threads' = DOMAIN threads /\ Len(threads') = Len(threads)
        /\ \A k \in DOMAIN threads : threads[k].at \in {"none", "ended"} => threads'[k] = threads[k]
        /\ threads[j].at \notin {"none", "ended"}
        /\ UNCHANGED <<vars, stage, attempt, joined>>
    BY ThreadMoves
  <2>2. threads # <<>> /\ list' = list /\ late' = late
    BY <2>1, EmptySeq DEF vars
  <2>3. \A k \in 1 .. joined' : threads'[k].at \in {"none", "ended"}
    BY <1>1, <2>1
  <2>4. stage # "scan" /\ stage # "over"
    BY <2>1, <2>2
  <2> QED
    BY <2>1, <2>2, <2>3, <2>4
<1>10. CASE UNCHANGED allVars
  BY <1>10 DEF allVars, sendVars, vars
<1> QED
  BY <1>2, <1>3, <1>4, <1>5, <1>6, <1>7, <1>8, <1>9, <1>10, Steps

\* Every step keeps the invariant.
LEMMA IInvStep ==
  ASSUME IInv, [SendNext]_allVars
  PROVE  IInv'
BY SendTypeOKStep, MutexStep, InLoopStep, KeptStep, FilteredStep, ReachedStep, JoiningStep DEF IInv

\* The invariant holds in every state.
LEMMA IInvHolds == SendSpec => []IInv
<1>1. SendInit => IInv
  BY IInvInit
<1>2. IInv /\ [SendNext]_allVars => IInv'
  BY IInvStep
<1> QED
  BY <1>1, <1>2, PTL DEF SendSpec

\* The state is well formed in every state, every answer that a thread of the
\* scan appended before the filters is among the addresses they return, however
\* the threads interleave, and a thread that holds the mutex gives it back
\* (scan_fn, udp_scan, filter_addresses).
THEOREM AnswersAreKept == SendSpec => []AutoSendInv
<1>1. IInv => AutoSendInv
  BY DEF IInv, Kept, Mutex, AutoSendInv, AnswersKept
<1> QED
  BY <1>1, IInvHolds, PTL

\* Contents go to servers the user allowed and not to an address of this
\* machine that the scan has noted, but for addresses appended after the filters
\* began; and only contents that are to be sent (scan_servers, filter_addresses).
THEOREM NobodyElseReceives == SendSpec => []OnlyAllowed
<1>1. IInv => OnlyAllowed
  BY DEF IInv, Reached, NotOwn, Allowed, OnlyAllowed
<1> QED
  BY <1>1, IInvHolds, PTL

\* The list is freed when the threads that read it have ended, and a thread
\* that was never created is waited for only if the list has grown (send_in_threads).
THEOREM ListOutlivesReaders == SendSpec => []JoinedBeforeFreed
<1>1. IInv => JoinedBeforeFreed
  BY DEF IInv, Joining
<1> QED
  BY <1>1, IInvHolds, PTL
=============================================================================

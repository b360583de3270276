----------------------- MODULE ClientManager_proofs ------------------------
(***************************************************************************)
(* Theorems about ClientManager: the map and the list never come apart,    *)
(* the cache keeps its bound, no client is lost or given to the wrong      *)
(* host, and the host used last is spared. They hold for any callers and   *)
(* hosts and any MaxClients, MaxEntries and MaxHits.                       *)
(***************************************************************************)
EXTENDS ClientManager, TLAPS, FiniteSetTheorems, SequenceTheorems

Creating == {c \in Caller : pc[c] = "create"}

(* A map cl and a list of entries fit together, where hs[n] is the host    *)
(* entry n was created for.                                                *)
Consistent(hs, cl, list) ==
    /\ cl \in [Host -> 0..Len(hs)]
    /\ list \in Seq(1..Len(hs))
    /\ \A i \in 1..Len(list) : cl[hs[list[i]]] = list[i]
    /\ \A h \in Host : cl[h] # 0 =>
          hs[cl[h]] = h /\ \E i \in 1..Len(list) : list[i] = cl[h]
    /\ \A i, j \in 1..Len(list) : list[i] = list[j] => i = j

(* The list is as long as the map is large, and within the bound. *)
Sized == /\ IsFiniteSet(Cached)
         /\ Len(lruList) = Cardinality(Cached)
         /\ Cardinality(Cached) <= MaxClients

(* The host used last is at the front: nobody touches an entry that is not *)
(* in the list.                                                            *)
LatestInFront == lruList # <<>> => hostOf[lruList[1]] = latest

CacheInv == /\ TypeOK
            /\ Consistent(hostOf, clients, lruList)
            /\ Sized
            /\ LatestInFront

(* A caller that found an entry keeps hold of it. *)
FoundStays == \A c \in Caller : pc[c] \in {"hit", "touch"} => got[c] # 0

CallInv == /\ ClientOfHost
           /\ FoundStays
           /\ IsFiniteSet(Creating)
           /\ ClientsAccounted

-----------------------------------------------------------------------------
(* Operators *)

(* Moving an entry to the front permutes the list. *)
LEMMA ToFrontPermutes ==
  ASSUME NEW hs, hs \in Seq(Host), NEW cl, Consistent(hs, cl, lruList),
         NEW n \in InList(lruList)
  PROVE  /\ Consistent(hs, cl, ToFront(n))
         /\ Len(ToFront(n)) = Len(lruList)
         /\ ToFront(n)[1] = n
  <1> DEFINE len == Len(lruList)
             at == CHOOSE i \in 1..len : lruList[i] = n
             moved == [i \in 1..len |->
                         IF i = 1 THEN n
                         ELSE IF i <= at THEN lruList[i - 1] ELSE lruList[i]]
  <1>a. lruList \in Seq(1..Len(hs))
    BY DEF Consistent
  <1>b. \A i, j \in 1..len : lruList[i] = lruList[j] => i = j
    BY DEF Consistent
  <1>c. \A i \in 1..len : cl[hs[lruList[i]]] = lruList[i]
    BY DEF Consistent
  <1>1. /\ len \in Nat /\ at \in 1..len /\ lruList[at] = n
        /\ \A i \in 1..len : lruList[i] \in 1..Len(hs)
    <2>1. \E i \in 1..len : lruList[i] = n
      BY DEF InList
    <2>2. at \in 1..len /\ lruList[at] = n
      BY <2>1
    <2> HIDE DEF at
    <2> QED
      BY <1>a, <2>2
  <1>2. ToFront(n) = moved
    BY DEF ToFront
  <1> HIDE DEF at
  <1>3. moved \in Seq(1..Len(hs)) /\ Len(moved) = len /\ moved[1] = n
    BY <1>1
  <1>4. ASSUME NEW i \in 1..len
        PROVE  \E j \in 1..len : moved[i] = lruList[j]
    <2>1. CASE i = 1
      BY <2>1, <1>1
    <2>2. CASE i # 1 /\ i <= at
      <3>1. i - 1 \in 1..len
        BY <2>2, <1>1
      <3> QED
        BY <2>2, <3>1
    <2>3. CASE i # 1 /\ ~(i <= at)
      BY <2>3
    <2> QED
      BY <2>1, <2>2, <2>3
  <1>5. ASSUME NEW j \in 1..len
        PROVE  \E i \in 1..len : moved[i] = lruList[j]
    <2>1. CASE j = at
      BY <2>1, <1>1
    <2>2. CASE j < at
      <3>1. j + 1 \in 1..len /\ j + 1 # 1 /\ j + 1 <= at /\ (j + 1) - 1 = j
        BY <2>2, <1>1
      <3>2. moved[j + 1] = lruList[(j + 1) - 1]
        BY <3>1
      <3> QED
        BY <3>1, <3>2
    <2>3. CASE j > at
      <3>1. j # 1 /\ ~(j <= at)
        BY <2>3, <1>1
      <3> QED
        BY <3>1
    <2> QED
      BY <2>1, <2>2, <2>3, <1>1
  <1>6. ASSUME NEW i \in 1..len, NEW j \in 1..len, moved[i] = moved[j]
        PROVE  i = j
    <2> DEFINE from(k) == IF k = 1 THEN at ELSE IF k <= at THEN k - 1 ELSE k
    <2>1. \A k \in 1..len : from(k) \in 1..len /\ moved[k] = lruList[from(k)]
      BY <1>1
    <2>2. from(i) = from(j)
      <3> HIDE DEF from, moved
      <3> QED
        BY <1>b, <1>6, <2>1
    <2> QED
      BY <2>2, <1>1
  <1> HIDE DEF moved
  <1>7. \A i \in 1..len : cl[hs[moved[i]]] = moved[i]
    <2> SUFFICES ASSUME NEW i \in 1..len
                 PROVE  cl[hs[moved[i]]] = moved[i]
      OBVIOUS
    <2>1. PICK j \in 1..len : moved[i] = lruList[j]
      BY <1>4
    <2>2. cl[hs[lruList[j]]] = lruList[j]
      BY <1>c
    <2> QED
      BY <2>1, <2>2
  <1>8. \A h \in Host : cl[h] # 0 =>
           hs[cl[h]] = h /\ \E i \in 1..len : moved[i] = cl[h]
    <2> SUFFICES ASSUME NEW h \in Host, cl[h] # 0
                 PROVE  hs[cl[h]] = h /\ \E i \in 1..len : moved[i] = cl[h]
      OBVIOUS
    <2>1. hs[cl[h]] = h
      BY DEF Consistent
    <2>2. PICK j \in 1..len : lruList[j] = cl[h]
      BY DEF Consistent
    <2> QED
      BY <1>5, <2>1, <2>2
  <1>9. cl \in [Host -> 0..Len(hs)]
    BY DEF Consistent
  <1>10. Consistent(hs, cl, moved)
    BY <1>3, <1>6, <1>7, <1>8, <1>9 DEF Consistent
  <1> QED
    BY <1>2, <1>3, <1>10

(* the hosts in the map after evictLRU, if it is called *)
Spared == {h \in Host : Evicted[h] # 0}

(* Evicting, if the cache is full, keeps map and list together and leaves  *)
(* room for one more.                                                      *)
LEMMA EvictionFits ==
  ASSUME TypeOK, Consistent(hostOf, clients, lruList), Sized
  PROVE  /\ Consistent(hostOf, Evicted, ListAfterEviction)
         /\ IsFiniteSet(Spared) /\ Spared \subseteq Cached
         /\ Len(ListAfterEviction) = Cardinality(Spared)
         /\ Cardinality(Spared) < MaxClients
         /\ ~MustEvict => Cardinality(Cached) = Cardinality(Spared)
         /\ MustEvict => Cardinality(Cached) = Cardinality(Spared) + 1
  <1> DEFINE len == Len(lruList)
             N == Len(hostOf)
  <1>a. /\ lruList \in Seq(1..N) /\ clients \in [Host -> 0..N]
        /\ hostOf \in Seq(Host) /\ N \in Nat
    BY DEF Consistent, TypeOK
  <1>b. \A i, j \in 1..len : lruList[i] = lruList[j] => i = j
    BY DEF Consistent
  <1>c. \A i \in 1..len : clients[hostOf[lruList[i]]] = lruList[i]
    BY DEF Consistent
  <1>d. \A h \in Host : clients[h] # 0 =>
           hostOf[clients[h]] = h /\ \E i \in 1..len : lruList[i] = clients[h]
    BY DEF Consistent
  <1>e. /\ IsFiniteSet(Cached) /\ Cardinality(Cached) \in Nat
        /\ len = Cardinality(Cached) /\ Cardinality(Cached) <= MaxClients
    BY FS_CardinalityType DEF Sized
  <1>f. MaxClients \in Nat /\ MaxClients > 0
    BY ClientAssumption
  <1>1. CASE ~MustEvict
    <2>1. Evicted = clients /\ ListAfterEviction = lruList
      BY <1>1 DEF Evicted, ListAfterEviction
    <2>2. Spared = Cached
      BY <2>1 DEF Cached, Spared
    <2>3. Cardinality(Cached) < MaxClients
      BY <1>e, <1>f, <1>1 DEF MustEvict
    <2> QED
      BY <1>e, <1>1, <2>1, <2>2, <2>3
  <1>2. CASE MustEvict
    <2> DEFINE victim == hostOf[lruList[len]]
    <2>1. len \in 1..len
      BY <1>e, <1>f, <1>2 DEF MustEvict
    <2>2. lruList[len] \in 1..N
      BY <1>a, <2>1
    <2>3. victim \in Host
      BY <1>a, <2>2
    <2>4. clients[victim] = lruList[len]
      BY <1>c, <2>1
    <2>5. victim \in Cached
      BY <2>2, <2>3, <2>4 DEF Cached
    <2>6. /\ Evicted = [clients EXCEPT ![victim] = 0]
          /\ ListAfterEviction = SubSeq(lruList, 1, len - 1)
      BY <1>2 DEF Evicted, ListAfterEviction, Victim
    <2>7. Spared = Cached \ {victim}
      BY <1>a, <2>3, <2>6 DEF Cached, Spared
    <2>8. IsFiniteSet(Spared) /\ Cardinality(Spared) = Cardinality(Cached) - 1
      BY <1>e, <2>5, <2>7, FS_RemoveElement
    <2> DEFINE short == SubSeq(lruList, 1, len - 1)
    <2>9. /\ short \in Seq(1..N)
          /\ Len(short) = len - 1
          /\ \A i \in 1..(len - 1) : short[i] = lruList[i]
      <3>1. len - 1 \in Int /\ 1 \in Int /\ len - 1 \in Nat
        BY <1>e, <2>1
      <3>2. \A i \in 1..(len - 1) : lruList[i] \in 1..N
        BY <1>a, <2>1
      <3>3. /\ short \in Seq(1..N)
            /\ Len(short) = IF 1 <= len - 1 THEN (len - 1) - 1 + 1 ELSE 0
            /\ \A i \in 1..((len - 1) - 1 + 1) : short[i] = lruList[1 + i - 1]
        BY <3>1, <3>2, SubSeqProperties
      <3>4. \A i \in 1..(len - 1) : i \in 1..((len - 1) - 1 + 1) /\ 1 + i - 1 = i
        BY <3>1
      <3> HIDE DEF short, len
      <3>5. Len(short) = len - 1
        BY <3>1, <3>3
      <3>6. ASSUME NEW i \in 1..(len - 1)
            PROVE  short[i] = lruList[i]
        <4>1. i \in 1..((len - 1) - 1 + 1) /\ 1 + i - 1 = i
          BY <3>4
        <4>2. short[i] = lruList[1 + i - 1]
          BY <3>3, <4>1
        <4> QED
          BY <4>1, <4>2
      <3> QED
        BY <3>3, <3>5, <3>6
    <2>10. Evicted \in [Host -> 0..N]
      <3> HIDE DEF victim, N
      <3>1. 0 \in 0..N
        BY <1>a
      <3> QED
        BY <1>a, <2>6, <3>1
    <2>11. ASSUME NEW i \in 1..(len - 1)
           PROVE  Evicted[hostOf[lruList[i]]] = lruList[i]
      <3>1. i \in 1..len /\ i # len
        BY <1>e, <2>1
      <3>2. lruList[i] # lruList[len]
        BY <1>b, <2>1, <3>1
      <3>3. clients[hostOf[lruList[i]]] = lruList[i]
        BY <1>c, <3>1
      <3>4. hostOf[lruList[i]] # victim
        BY <2>4, <3>2, <3>3
      <3>5. hostOf[lruList[i]] \in Host
        BY <1>a, <3>1
      <3> QED
        BY <1>a, <2>6, <3>3, <3>4, <3>5
    <2>12. ASSUME NEW h \in Host, Evicted[h] # 0
           PROVE  /\ hostOf[Evicted[h]] = h
                  /\ \E i \in 1..(len - 1) : lruList[i] = Evicted[h]
      <3>1. h # victim /\ Evicted[h] = clients[h]
        BY <1>a, <2>3, <2>6, <2>12
      <3>2. hostOf[clients[h]] = h
        BY <1>d, <2>12, <3>1
      <3>3. PICK i \in 1..len : lruList[i] = clients[h]
        BY <1>d, <2>12, <3>1
      <3>4. i # len
        BY <3>1, <3>2, <3>3
      <3>5. i \in 1..(len - 1)
        BY <1>e, <2>1, <3>4
      <3> QED
        BY <3>1, <3>2, <3>3, <3>5
    <2>13. \A i, j \in 1..(len - 1) : lruList[i] = lruList[j] => i = j
      <3>1. \A i \in 1..(len - 1) : i \in 1..len
        BY <1>e
      <3> QED
        BY <1>b, <3>1
    <2>14. Consistent(hostOf, Evicted, short)
      <3> HIDE DEF short, len
      <3>1. \A i \in 1..Len(short) : Evicted[hostOf[short[i]]] = short[i]
        BY <2>9, <2>11
      <3>2. \A h \in Host : Evicted[h] # 0 =>
               /\ hostOf[Evicted[h]] = h
               /\ \E i \in 1..Len(short) : short[i] = Evicted[h]
        BY <2>9, <2>12
      <3>3. \A i, j \in 1..Len(short) : short[i] = short[j] => i = j
        BY <2>9, <2>13
      <3> QED
        BY <2>9, <2>10, <3>1, <3>2, <3>3 DEF Consistent
    <2> HIDE DEF short
    <2>15. ListAfterEviction = short
      BY <2>6 DEF short
    <2> QED
      BY <1>e, <1>f, <1>2, <2>7, <2>8, <2>9, <2>14, <2>15
  <1> QED
    BY <1>1, <1>2

(* What becomes of them when an entry for h is created and put in front. *)
Inserted(hs, cl, list, h) ==
    LET n == Len(hs) + 1
    IN  /\ Consistent(Append(hs, h), [cl EXCEPT ![h] = n], <<n>> \o list)
        /\ Len(<<n>> \o list) = Len(list) + 1
        /\ (<<n>> \o list)[1] = n
        /\ Append(hs, h)[n] = h

(* A new entry in front keeps map and list together. *)
LEMMA InsertionFits ==
  ASSUME NEW hs \in Seq(Host), NEW cl, NEW list, Consistent(hs, cl, list),
         NEW h \in Host, cl[h] = 0
  PROVE  Inserted(hs, cl, list, h)
  <1> DEFINE n == Len(hs) + 1
             hsN == Append(hs, h)
             clN == [cl EXCEPT ![h] = n]
             listN == <<n>> \o list
             len == Len(list)
  <1>a. /\ list \in Seq(1..Len(hs)) /\ cl \in [Host -> 0..Len(hs)]
        /\ Len(hs) \in Nat /\ len \in Nat /\ n \in Nat /\ n > Len(hs)
    BY DEF Consistent
  <1>b. \A i, j \in 1..len : list[i] = list[j] => i = j
    BY DEF Consistent
  <1>c. \A i \in 1..len : cl[hs[list[i]]] = list[i]
    BY DEF Consistent
  <1>d. \A x \in Host : cl[x] # 0 =>
           hs[cl[x]] = x /\ \E i \in 1..len : list[i] = cl[x]
    BY DEF Consistent
  <1>1. /\ hsN \in Seq(Host) /\ Len(hsN) = n /\ hsN[n] = h
        /\ \A i \in 1..Len(hs) : hsN[i] = hs[i]
    BY <1>a
  <1>2. clN \in [Host -> 0..n] /\ clN[h] = n
        /\ \A x \in Host : x # h => clN[x] = cl[x]
    <2>1. 0..Len(hs) \subseteq 0..n /\ n \in 0..n
      BY <1>a
    <2> HIDE DEF n
    <2> QED
      BY <1>a, <2>1
  <1>3. /\ listN \in Seq(1..n) /\ Len(listN) = len + 1 /\ listN[1] = n
        /\ \A i \in 2..(len + 1) : listN[i] = list[i - 1]
    <2>1. 1..Len(hs) \subseteq 1..n /\ n \in 1..n
      BY <1>a
    <2>2. list \in Seq(1..n) /\ <<n>> \in Seq(1..n)
          /\ Len(<<n>>) = 1 /\ <<n>>[1] = n
      BY <1>a, <2>1
    <2> HIDE DEF n
    <2>3. /\ listN \in Seq(1..n) /\ Len(listN) = 1 + len
          /\ \A i \in 1..(1 + len) :
                listN[i] = IF i <= 1 THEN <<n>>[i] ELSE list[i - 1]
      BY <2>2, ConcatProperties
    <2> HIDE DEF listN, len
    <2>4. listN[1] = n
      <3>1. 1 \in 1..(1 + len)
        BY <1>a
      <3> QED
        BY <2>2, <2>3, <3>1
    <2>5. ASSUME NEW i \in 2..(len + 1)
          PROVE  listN[i] = list[i - 1]
      <3>1. i \in 1..(1 + len) /\ ~(i <= 1)
        BY <1>a
      <3> QED
        BY <2>3, <3>1
    <2>6. Len(listN) = len + 1
      BY <1>a, <2>3
    <2> QED
      BY <2>3, <2>4, <2>5, <2>6
  <1> HIDE DEF hsN, clN, listN, n
  <1>4. ASSUME NEW i \in 2..(len + 1)
        PROVE  /\ i - 1 \in 1..len /\ listN[i] = list[i - 1]
               /\ list[i - 1] \in 1..Len(hs)
    <2>1. i - 1 \in 1..len
      BY <1>a
    <2>2. list[i - 1] \in 1..Len(hs)
      BY <1>a, <2>1
    <2> QED
      BY <1>3, <2>1, <2>2
  <1>5. ASSUME NEW i \in 1..(len + 1)
        PROVE  clN[hsN[listN[i]]] = listN[i]
    <2>1. CASE i = 1
      BY <2>1, <1>1, <1>2, <1>3
    <2>2. CASE i # 1
      <3>1. i \in 2..(len + 1)
        BY <1>a, <2>2
      <3>2. hsN[listN[i]] = hs[list[i - 1]] /\ hs[list[i - 1]] \in Host
        BY <1>1, <1>4, <3>1
      <3>3. cl[hs[list[i - 1]]] = list[i - 1] /\ list[i - 1] # 0
        BY <1>c, <1>4, <3>1
      <3>4. hs[list[i - 1]] # h
        BY <3>3
      <3> QED
        BY <1>2, <1>4, <3>1, <3>2, <3>3, <3>4
    <2> QED
      BY <2>1, <2>2
  <1>6. ASSUME NEW x \in Host, clN[x] # 0
        PROVE  hsN[clN[x]] = x /\ \E i \in 1..(len + 1) : listN[i] = clN[x]
    <2>1. CASE x = h
      <3>1. 1 \in 1..(len + 1)
        BY <1>a
      <3> QED
        BY <2>1, <3>1, <1>1, <1>2, <1>3
    <2>2. CASE x # h
      <3>1. clN[x] = cl[x] /\ cl[x] \in 1..Len(hs)
        BY <1>a, <1>2, <1>6, <2>2
      <3>2. hs[cl[x]] = x
        BY <1>d, <1>6, <3>1
      <3>3. PICK i \in 1..len : list[i] = cl[x]
        BY <1>d, <1>6, <3>1
      <3>4. i + 1 \in 2..(len + 1) /\ i + 1 \in 1..(len + 1) /\ (i + 1) - 1 = i
        BY <1>a
      <3>5. listN[i + 1] = cl[x]
        BY <1>3, <3>3, <3>4
      <3> QED
        BY <1>1, <3>1, <3>2, <3>4, <3>5
    <2> QED
      BY <2>1, <2>2
  <1>7. ASSUME NEW i \in 1..(len + 1), NEW j \in 1..(len + 1),
               listN[i] = listN[j]
        PROVE  i = j
    <2>1. \A k \in 1..(len + 1) : k = 1 \/ k \in 2..(len + 1)
      BY <1>a
    <2>2. \A k \in 2..(len + 1) : listN[k] # listN[1]
      <3> SUFFICES ASSUME NEW k \in 2..(len + 1)
                   PROVE  listN[k] # listN[1]
        OBVIOUS
      <3>1. listN[k] \in 1..Len(hs)
        BY <1>4
      <3> QED
        BY <1>a, <1>3, <3>1
    <2>3. ASSUME i \in 2..(len + 1), j \in 2..(len + 1)
          PROVE  i = j
      <3>1. list[i - 1] = list[j - 1] /\ i - 1 \in 1..len /\ j - 1 \in 1..len
        BY <1>4, <1>7, <2>3
      <3>2. i - 1 = j - 1
        BY <1>b, <3>1
      <3> QED
        BY <3>2, <1>a
    <2> QED
      BY <1>7, <2>1, <2>2, <2>3
  <1>8. Consistent(hsN, clN, listN)
    BY <1>1, <1>2, <1>3, <1>5, <1>6, <1>7 DEF Consistent
  <1> QED
    BY <1>1, <1>3, <1>8 DEF hsN, clN, listN, n, Inserted

-----------------------------------------------------------------------------
(* Steps *)

LEMMA InitCache == Init => CacheInv /\ CallInv
  <1> SUFFICES ASSUME Init
               PROVE  CacheInv /\ CallInv
    OBVIOUS
  <1> USE ClientAssumption
  <1>1. Cached = {} /\ Creating = {}
    BY DEF Init, Cached, Creating
  <1>2. TypeOK
    BY DEF Init, TypeOK
  <1>3. Consistent(hostOf, clients, lruList)
    BY DEF Init, Consistent
  <1>4. Sized /\ LatestInFront
    BY <1>1, FS_EmptySet DEF Init, Sized, LatestInFront
  <1>5. CallInv
    <2>1. ClientOfHost /\ FoundStays
      BY DEF Init, ClientOfHost, FoundStays
    <2>2. Cardinality({c \in Caller : pc[c] = "create"}) = 0
      BY <1>1, FS_EmptySet DEF Creating
    <2> QED
      BY <1>1, <2>1, <2>2, FS_EmptySet
         DEF Init, CallInv, ClientsAccounted
  <1> QED
    BY <1>2, <1>3, <1>4, <1>5 DEF CacheInv

(* A step that leaves map, list and history alone. *)
LEMMA CacheUnchanged ==
  ASSUME CacheInv, TypeOK', UNCHANGED <<clients, lruList, hostOf, latest>>
  PROVE  CacheInv' /\ Cached' = Cached
  BY DEF CacheInv, Consistent, Sized, LatestInFront, Cached

(* A step that moves an entry of the list to the front, or does nothing.   *)
LEMMA CacheTouched ==
  ASSUME CacheInv, NEW n \in 1..Len(hostOf), TypeOK',
         lruList' = ToFront(n), UNCHANGED <<clients, hostOf>>,
         latest' = LatestAfterTouch(n)
  PROVE  CacheInv' /\ Cached' = Cached
  <1>1. Cached' = Cached
    BY DEF Cached
  <1>2. CASE n \notin InList(lruList)
    <2>1. UNCHANGED <<lruList, latest>>
      BY <1>2 DEF ToFront, LatestAfterTouch
    <2> QED
      BY <2>1, CacheUnchanged
  <1>3. CASE n \in InList(lruList)
    <2>1. /\ Consistent(hostOf, clients, ToFront(n))
          /\ Len(ToFront(n)) = Len(lruList)
          /\ ToFront(n)[1] = n
      BY <1>3, ToFrontPermutes DEF CacheInv, TypeOK
    <2>2. Consistent(hostOf, clients, lruList)'
      BY <2>1
    <2>3. Sized'
      BY <1>1, <2>1 DEF CacheInv, Sized
    <2>4. LatestInFront'
      BY <1>3, <2>1 DEF LatestInFront, LatestAfterTouch
    <2> QED
      BY <1>1, <2>2, <2>3, <2>4 DEF CacheInv
  <1> QED
    BY <1>2, <1>3

LEMMA LookUpInv ==
  ASSUME CacheInv, CallInv, NEW c \in Caller, NEW h \in Host, LookUp(c, h)
  PROVE  CacheInv' /\ CallInv'
  <1> USE DEF LookUp, counts
  <1>1. clients[h] \in 0..Len(hostOf) /\ h # NoHost
    BY ClientAssumption DEF CacheInv, Consistent
  <1>2. TypeOK'
    BY <1>1 DEF CacheInv, TypeOK
  <1>3. CacheInv' /\ Cached' = Cached
    BY <1>2, CacheUnchanged
  <1>4. Creating' = Creating
    BY DEF Creating, CacheInv, TypeOK
  <1>5. ClientOfHost' /\ FoundStays'
    <2>1. clients[h] # 0 => hostOf[clients[h]] = h
      BY DEF CacheInv, Consistent
    <2> QED
      BY <2>1 DEF CallInv, ClientOfHost, FoundStays, CacheInv, TypeOK
  <1> QED
    BY <1>3, <1>4, <1>5 DEF CallInv, ClientsAccounted, Creating

LEMMA CountHitInv ==
  ASSUME CacheInv, CallInv, NEW c \in Caller, CountHit(c)
  PROVE  CacheInv' /\ CallInv'
  <1> USE DEF CountHit
  <1>1. TypeOK'
    BY DEF CacheInv, TypeOK
  <1>2. CacheInv' /\ Cached' = Cached
    BY <1>1, CacheUnchanged
  <1>3. Creating' = Creating
    BY DEF Creating, CacheInv, TypeOK
  <1>4. ClientOfHost' /\ FoundStays'
    BY DEF CallInv, ClientOfHost, FoundStays, CacheInv, TypeOK
  <1> QED
    BY <1>2, <1>3, <1>4 DEF CallInv, ClientsAccounted, Creating

LEMMA CountMissInv ==
  ASSUME CacheInv, CallInv, NEW c \in Caller, CountMiss(c)
  PROVE  CacheInv' /\ CallInv'
  <1> USE DEF CountMiss
  <1>1. TypeOK'
    BY DEF CacheInv, TypeOK
  <1>2. CacheInv' /\ Cached' = Cached
    BY <1>1, CacheUnchanged
  <1>3. Creating' = Creating \cup {c} /\ c \notin Creating
    BY DEF Creating, CacheInv, TypeOK
  <1>4. /\ IsFiniteSet(Creating')
        /\ Cardinality(Creating') = Cardinality(Creating) + 1
    BY <1>3, FS_AddElement DEF CallInv
  <1>5. ClientOfHost' /\ FoundStays'
    BY DEF CallInv, ClientOfHost, FoundStays, CacheInv, TypeOK
  <1>6. ClientsAccounted'
    <2>1. /\ Cardinality(Creating) \in Nat /\ Len(hostOf) \in Nat
          /\ cacheMisses \in Nat
      BY FS_CardinalityType DEF CallInv, CacheInv, TypeOK
    <2>2. Len(hostOf) + Cardinality(Creating) <= cacheMisses
      BY DEF CallInv, ClientsAccounted, Creating
    <2>3. Len(hostOf) + Cardinality(Creating') <= cacheMisses'
      BY <1>4, <2>1, <2>2
    <2> QED
      BY <1>2, <2>3 DEF CallInv, ClientsAccounted, Creating
  <1> QED
    BY <1>2, <1>4, <1>5, <1>6 DEF CallInv

(* An entry that exists has a type after it was moved to the front. *)
LEMMA ToFrontTyped ==
  ASSUME CacheInv, NEW n \in 1..Len(hostOf)
  PROVE  /\ ToFront(n) \in Seq(1..Len(hostOf))
         /\ LatestAfterTouch(n) \in Host \cup {NoHost}
  <1>1. CASE n \in InList(lruList)
    <2>1. Consistent(hostOf, clients, ToFront(n))
      BY <1>1, ToFrontPermutes DEF CacheInv, TypeOK
    <2>2. hostOf[n] \in Host
      BY DEF CacheInv, TypeOK
    <2> QED
      BY <2>1, <2>2, <1>1 DEF Consistent, LatestAfterTouch
  <1>2. CASE n \notin InList(lruList)
    BY <1>2 DEF CacheInv, TypeOK, ToFront, LatestAfterTouch
  <1> QED
    BY <1>1, <1>2

LEMMA TouchInv ==
  ASSUME CacheInv, CallInv, NEW c \in Caller, Touch(c)
  PROVE  CacheInv' /\ CallInv'
  <1> USE DEF Touch, counts
  <1>1. got[c] \in 1..Len(hostOf)
    BY DEF CallInv, FoundStays, CacheInv, TypeOK
  <1>2. TypeOK'
    <2>1. /\ lruList' \in Seq(1..Len(hostOf))
          /\ latest' \in Host \cup {NoHost}
      BY <1>1, ToFrontTyped
    <2> QED
      BY <1>1, <2>1 DEF CacheInv, TypeOK
  <1>3. CacheInv' /\ Cached' = Cached
    BY <1>1, <1>2, CacheTouched
  <1>4. Creating' = Creating
    BY DEF Creating, CacheInv, TypeOK
  <1>5. ClientOfHost' /\ FoundStays'
    BY DEF CallInv, ClientOfHost, FoundStays, CacheInv, TypeOK
  <1> QED
    BY <1>3, <1>4, <1>5 DEF CallInv, ClientsAccounted, Creating

(* A caller that stops waiting for the write lock to create. *)
LEMMA CreatingLess ==
  ASSUME CallInv, CacheInv, NEW c \in Caller, pc[c] = "create",
         pc' = [pc EXCEPT ![c] = "using"]
  PROVE  /\ IsFiniteSet(Creating')
         /\ Cardinality(Creating) \in Nat
         /\ Cardinality(Creating') = Cardinality(Creating) - 1
  <1>1. Creating' = Creating \ {c} /\ c \in Creating
    BY DEF Creating, CacheInv, TypeOK
  <1> QED
    BY <1>1, FS_RemoveElement, FS_CardinalityType DEF CallInv

LEMMA FindCreatedInv ==
  ASSUME CacheInv, CallInv, NEW c \in Caller, FindCreated(c)
  PROVE  CacheInv' /\ CallInv'
  <1> DEFINE n == clients[host[c]]
  <1> USE DEF FindCreated, counts
  <1>1. host[c] \in Host
    BY DEF CacheInv, TypeOK
  <1>2. /\ n \in 1..Len(hostOf) /\ hostOf[n] = host[c]
        /\ n \in InList(lruList)
    <2>1. n \in 0..Len(hostOf) /\ n # 0 /\ Len(hostOf) \in Nat
      BY <1>1 DEF CacheInv, TypeOK, Consistent
    <2>2. hostOf[n] = host[c] /\ \E i \in 1..Len(lruList) : lruList[i] = n
      BY <1>1, <2>1 DEF CacheInv, Consistent
    <2> QED
      BY <2>1, <2>2 DEF InList
  <1>3. TypeOK'
    <2>1. lruList' \in Seq(1..Len(hostOf))
      BY <1>2, ToFrontTyped
    <2> QED
      BY <1>1, <1>2, <2>1 DEF CacheInv, TypeOK
  <1>4. CacheInv' /\ Cached' = Cached
    <2>1. latest' = LatestAfterTouch(n)
      BY <1>2 DEF LatestAfterTouch
    <2> QED
      BY <1>2, <1>3, <2>1, CacheTouched
  <1>5. /\ IsFiniteSet(Creating') /\ Cardinality(Creating) \in Nat
        /\ Cardinality(Creating') = Cardinality(Creating) - 1
    BY CreatingLess
  <1>6. ClientOfHost' /\ FoundStays'
    BY <1>2 DEF CallInv, ClientOfHost, FoundStays, CacheInv, TypeOK
  <1>7. ClientsAccounted'
    <2>1. Len(hostOf) \in Nat /\ cacheMisses \in Nat
      BY DEF CacheInv, TypeOK
    <2>2. Len(hostOf) + Cardinality(Creating) <= cacheMisses
      BY DEF CallInv, ClientsAccounted, Creating
    <2>3. Len(hostOf) + Cardinality(Creating') <= cacheMisses'
      BY <1>5, <2>1, <2>2
    <2> QED
      BY <1>4, <2>3 DEF CallInv, ClientsAccounted, Creating
  <1> QED
    BY <1>4, <1>5, <1>6, <1>7 DEF CallInv

LEMMA CreateInv ==
  ASSUME CacheInv, CallInv, NEW c \in Caller, Create(c)
  PROVE  CacheInv' /\ CallInv'
  <1> DEFINE h == host[c]
             n == Len(hostOf) + 1
  <1>1. /\ h \in Host /\ clients[h] = 0 /\ h \notin Cached
        /\ pc[c] = "create"
    BY DEF Create, CacheInv, TypeOK, Cached
  <1>2. /\ hostOf' = Append(hostOf, h)
        /\ clients' = [Evicted EXCEPT ![h] = n]
        /\ lruList' = <<n>> \o ListAfterEviction
        /\ got' = [got EXCEPT ![c] = n]
        /\ evictions' = IF MustEvict THEN evictions + 1 ELSE evictions
        /\ latest' = h
        /\ pc' = [pc EXCEPT ![c] = "using"]
        /\ UNCHANGED <<cacheHits, cacheMisses, host>>
    BY DEF Create, NewClient, counts
  <1>3. /\ Consistent(hostOf, Evicted, ListAfterEviction)
        /\ IsFiniteSet(Spared) /\ Spared \subseteq Cached
        /\ Len(ListAfterEviction) = Cardinality(Spared)
        /\ Cardinality(Spared) < MaxClients
        /\ ~MustEvict => Cardinality(Cached) = Cardinality(Spared)
        /\ MustEvict => Cardinality(Cached) = Cardinality(Spared) + 1
    BY EvictionFits DEF CacheInv
  <1>4. Evicted[h] = 0 /\ h \notin Spared
    BY <1>1, <1>3 DEF Spared
  <1>5. /\ hostOf \in Seq(Host) /\ Len(hostOf) \in Nat
        /\ Evicted \in [Host -> 0..Len(hostOf)]
    BY <1>3 DEF CacheInv, TypeOK, Consistent
  <1>6. /\ Consistent(hostOf', clients', lruList')
        /\ Len(lruList') = Cardinality(Spared) + 1
        /\ lruList'[1] = n /\ hostOf'[n] = h
    <2>1. Inserted(hostOf, Evicted, ListAfterEviction, h)
      BY <1>1, <1>3, <1>4, <1>5, InsertionFits
    <2> QED
      BY <1>2, <1>3, <2>1 DEF Inserted
  <1>7. /\ Len(hostOf') = n
        /\ \A m \in 1..Len(hostOf) : hostOf'[m] = hostOf[m]
    BY <1>2, <1>5
  <1>8. Cached' = Spared \cup {h}
    <2>1. \A x \in Host : clients'[x] = IF x = h THEN n ELSE Evicted[x]
      BY <1>2, <1>5
    <2> QED
      BY <1>1, <1>5, <2>1 DEF Cached, Spared
  <1>9. /\ IsFiniteSet(Cached') /\ Cardinality(Spared) \in Nat
        /\ Cardinality(Cached') = Cardinality(Spared) + 1
    BY <1>3, <1>4, <1>8, FS_AddElement, FS_CardinalityType
  <1>10. TypeOK'
    <2>1. /\ clients' \in [Host -> Nat] /\ hostOf' \in Seq(Host)
          /\ lruList' \in Seq(1..Len(hostOf'))
      <3>1. hostOf' \in Seq(Host)
        BY <1>1, <1>2, <1>5
      <3> QED
        BY <1>5, <1>6, <1>7, <3>1 DEF Consistent
    <2>2. got' \in [Caller -> 0..Len(hostOf')]
      <3>1. 0..Len(hostOf) \subseteq 0..n /\ n \in 0..n
        BY <1>5
      <3> HIDE DEF n
      <3> QED
        BY <1>2, <1>7, <3>1 DEF CacheInv, TypeOK
    <2>3. \A d \in Caller : pc'[d] = "using" => got'[d] # 0
      BY <1>1, <1>2, <1>5 DEF CacheInv, TypeOK
    <2>4. /\ evictions' \in Nat /\ cacheHits' \in Nat /\ cacheMisses' \in Nat
          /\ pc' \in [Caller -> {"idle", "hit", "touch", "miss", "create",
                                 "using"}]
          /\ host' \in [Caller -> Host \cup {NoHost}]
          /\ latest' \in Host \cup {NoHost}
          /\ \A d \in Caller : pc'[d] = "idle" <=> host'[d] = NoHost
      BY <1>1, <1>2 DEF CacheInv, TypeOK
    <2> QED
      BY <2>1, <2>2, <2>3, <2>4 DEF TypeOK
  <1>11. CacheInv'
    <2>1. Sized'
      <3>1. Cardinality(Spared) + 1 <= MaxClients
        BY <1>3, <1>9, ClientAssumption
      <3> QED
        BY <1>6, <1>9, <3>1 DEF Sized
    <2>2. LatestInFront'
      BY <1>2, <1>6 DEF LatestInFront
    <2>3. Consistent(hostOf, clients, lruList)'
      BY <1>6
    <2> QED
      BY <1>10, <2>1, <2>2, <2>3 DEF CacheInv
  <1>12. ClientOfHost' /\ FoundStays'
    <2>1. \A d \in Caller : d # c => got'[d] = got[d] /\ pc'[d] = pc[d]
      BY <1>2 DEF CacheInv, TypeOK
    <2>2. got'[c] = n /\ pc'[c] = "using"
      BY <1>2 DEF CacheInv, TypeOK
    <2>3. ASSUME NEW d \in Caller, d # c, got[d] # 0
          PROVE  hostOf'[got'[d]] = host'[d]
      <3>1. got[d] \in 1..Len(hostOf)
        BY <2>3 DEF CacheInv, TypeOK
      <3>2. hostOf[got[d]] = host[d]
        BY <2>3 DEF CallInv, ClientOfHost
      <3> QED
        BY <1>2, <1>7, <2>1, <2>3, <3>1, <3>2
    <2>4. ClientOfHost'
      BY <1>2, <1>6, <2>1, <2>2, <2>3 DEF ClientOfHost
    <2>5. FoundStays'
      BY <2>1, <2>2 DEF CallInv, FoundStays
    <2> QED
      BY <2>4, <2>5
  <1>13. ClientsAccounted' /\ IsFiniteSet(Creating')
    <2>1. /\ IsFiniteSet(Creating') /\ Cardinality(Creating) \in Nat
          /\ Cardinality(Creating') = Cardinality(Creating) - 1
      BY <1>1, <1>2, CreatingLess
    <2>2. /\ Len(hostOf) = Cardinality(Cached) + evictions
          /\ Len(hostOf) + Cardinality(Creating) <= cacheMisses
      BY DEF CallInv, ClientsAccounted, Creating
    <2>3. evictions \in Nat /\ cacheMisses \in Nat
      BY DEF CacheInv, TypeOK
    <2>4. Len(hostOf') = Cardinality(Cached') + evictions'
      BY <1>2, <1>3, <1>5, <1>7, <1>9, <2>2, <2>3
    <2>5. Len(hostOf') + Cardinality(Creating') <= cacheMisses'
      BY <1>2, <1>5, <1>7, <2>1, <2>2, <2>3
    <2> QED
      BY <2>1, <2>4, <2>5 DEF ClientsAccounted, Creating
  <1> QED
    BY <1>11, <1>12, <1>13 DEF CallInv

LEMMA ReleaseInv ==
  ASSUME CacheInv, CallInv, NEW c \in Caller, Release(c)
  PROVE  CacheInv' /\ CallInv'
  <1> USE DEF Release, counts
  <1>1. TypeOK'
    BY DEF CacheInv, TypeOK
  <1>2. CacheInv' /\ Cached' = Cached
    BY <1>1, CacheUnchanged
  <1>3. Creating' = Creating
    BY DEF Creating, CacheInv, TypeOK
  <1>4. ClientOfHost' /\ FoundStays'
    BY DEF CallInv, ClientOfHost, FoundStays, CacheInv, TypeOK
  <1> QED
    BY <1>2, <1>3, <1>4 DEF CallInv, ClientsAccounted, Creating

LEMMA NextCache == CacheInv /\ CallInv /\ [Next]_vars => CacheInv' /\ CallInv'
  <1> SUFFICES ASSUME CacheInv, CallInv, [Next]_vars
               PROVE  CacheInv' /\ CallInv'
    OBVIOUS
  <1>1. CASE UNCHANGED vars
    <2>1. TypeOK' /\ UNCHANGED <<clients, lruList, hostOf, latest>>
      BY <1>1 DEF vars, counts, CacheInv, TypeOK
    <2>2. CacheInv' /\ Cached' = Cached
      BY <2>1, CacheUnchanged
    <2> QED
      BY <1>1, <2>2 DEF vars, counts, CallInv, ClientOfHost, FoundStays,
                        Creating, ClientsAccounted
  <1>2. ASSUME NEW c \in Caller, NEW h \in Host, LookUp(c, h)
        PROVE  CacheInv' /\ CallInv'
    BY <1>2, LookUpInv
  <1>3. ASSUME NEW c \in Caller, CountHit(c) \/ CountMiss(c) \/ Touch(c)
        PROVE  CacheInv' /\ CallInv'
    BY <1>3, CountHitInv, CountMissInv, TouchInv
  <1>4. ASSUME NEW c \in Caller, FindCreated(c) \/ Create(c) \/ Release(c)
        PROVE  CacheInv' /\ CallInv'
    BY <1>4, FindCreatedInv, CreateInv, ReleaseInv
  <1> QED
    BY <1>1, <1>2, <1>3, <1>4 DEF Next

LEMMA InvariantCache == Spec => [](CacheInv /\ CallInv)
  BY InitCache, NextCache, PTL DEF Spec

-----------------------------------------------------------------------------
(* The map and the list of ClientManager hold the same entries, each once  *)
(* and under its own host, and never more than MaxClientPoolSize of them.  *)
THEOREM SoundCache == Spec => []CacheSound
  <1>1. CacheInv => CacheSound
    <2> SUFFICES ASSUME CacheInv
                 PROVE  CacheSound
      OBVIOUS
    <2>1. InList(lruList) = {clients[h] : h \in Cached}
      <3>1. ASSUME NEW i \in 1..Len(lruList)
            PROVE  \E h \in Cached : lruList[i] = clients[h]
        <4>1. /\ lruList[i] \in 1..Len(hostOf)
              /\ hostOf[lruList[i]] \in Host
          BY DEF CacheInv, TypeOK
        <4>2. clients[hostOf[lruList[i]]] = lruList[i]
          BY DEF CacheInv, Consistent
        <4> QED
          BY <4>1, <4>2 DEF Cached
      <3>2. ASSUME NEW h \in Cached
            PROVE  \E i \in 1..Len(lruList) : lruList[i] = clients[h]
        BY DEF CacheInv, Consistent, Cached
      <3> QED
        BY <3>1, <3>2 DEF InList
    <2>2. \A h \in Cached : hostOf[clients[h]] = h
      BY DEF CacheInv, Consistent, Cached
    <2> QED
      BY <2>1, <2>2 DEF CacheSound, MapMatchesList, CacheInv, Sized
  <1> QED
    BY <1>1, InvariantCache, PTL

(* Every client created is cached or was evicted, and was a miss counted   *)
(* before: what GetPoolStats reports fits together.                        *)
THEOREM AccountedClients == Spec => []ClientsAccounted
  BY InvariantCache, PTL DEF CallInv

(* GetClient returns a client created for the host that was asked for,     *)
(* evicted in between or not.                                              *)
THEOREM RightClient == Spec => []ClientOfHost
  BY InvariantCache, PTL DEF CallInv

(* evictLRU never takes the host that was used last, if there is room for  *)
(* two.                                                                    *)
THEOREM LatestSpared == Spec => SparesLatest
  <1>1. ASSUME CacheInv, [Next]_vars, NEW h \in Host,
               clients[h] # 0, clients'[h] = 0
        PROVE  h # latest \/ MaxClients = 1
    <2>1. PICK c \in Caller : Create(c)
      BY <1>1 DEF Next, vars, LookUp, CountHit, CountMiss, Touch, FindCreated,
                  Release
    <2>2. /\ clients' = [Evicted EXCEPT ![host[c]] = Len(hostOf) + 1]
          /\ Len(hostOf) \in Nat
      BY <1>1, <2>1 DEF Create, NewClient, CacheInv, TypeOK
    <2>3. Evicted \in [Host -> 0..Len(hostOf)]
      BY <1>1, EvictionFits DEF CacheInv, Consistent
    <2>4. Evicted[h] = 0
      BY <1>1, <2>2, <2>3
    <2> DEFINE len == Len(lruList)
    <2>5. MustEvict /\ h = hostOf[lruList[len]]
      <3>1. MustEvict
        BY <1>1, <2>4 DEF Evicted
      <3> QED
        BY <1>1, <2>4, <3>1 DEF Evicted, Victim, CacheInv, TypeOK
    <2> SUFFICES ASSUME h = latest, MaxClients # 1
                 PROVE  FALSE
      OBVIOUS
    <2>6. len \in Nat /\ len > 1
      <3>1. len >= MaxClients
        BY <1>1, <2>5 DEF MustEvict, CacheInv, Sized
      <3> QED
        BY <1>1, <3>1, ClientAssumption DEF CacheInv, TypeOK
    <2>7. hostOf[lruList[1]] = h
      BY <1>1, <2>6 DEF CacheInv, LatestInFront
    <2>8. 1 \in 1..len /\ len \in 1..len
      BY <2>6
    <2>9. clients[h] = lruList[1] /\ clients[h] = lruList[len]
      BY <1>1, <2>5, <2>7, <2>8 DEF CacheInv, Consistent
    <2>10. \A i, j \in 1..len : lruList[i] = lruList[j] => i = j
      BY <1>1 DEF CacheInv, Consistent
    <2> HIDE DEF len
    <2>11. 1 = len
      BY <2>8, <2>9, <2>10
    <2> QED
      BY <2>6, <2>11
  <1>2. CacheInv /\ [Next]_vars =>
           [\A h \in Host : clients[h] # 0 /\ clients'[h] = 0
               => h # latest \/ MaxClients = 1]_vars
    BY <1>1
  <1> QED
    BY <1>2, InvariantCache, PTL DEF Spec, SparesLatest
=============================================================================

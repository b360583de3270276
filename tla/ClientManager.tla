--------------------------- MODULE ClientManager ---------------------------
(***************************************************************************)
(* ClientManager (internal/forwarder/client_manager.go): one HTTP client   *)
(* per host, cached in a map and a list in order of use, the least         *)
(* recently used one evicted when the cache is full. GetClient, and        *)
(* GetClientForHost in the same steps, looks its host up under the read    *)
(* lock, lets go of it, counts a hit or a miss, and takes the write lock   *)
(* to move the entry to the front or to create it: another caller may have *)
(* evicted or created the entry in between.                                *)
(*                                                                         *)
(* An entry is its number in order of creation; moving one to the front    *)
(* that is no longer in the list does nothing, as container/list has it.   *)
(* getDefaultClient is left out: it serves URLs url.Parse rejects, and     *)
(* http.NewRequestWithContext rejects those before GetClient is called.    *)
(***************************************************************************)
EXTENDS Naturals, Sequences, FiniteSets

CONSTANTS
    Caller,       \* goroutines calling GetClient
    Host,         \* the hosts of their URLs
    NoHost,       \* the host of a caller that is not in a call
    MaxClients,   \* MaxClientPoolSize
    MaxEntries,   \* bound on the clients created, for model checking
    MaxHits       \* bound on the hits counted, for model checking

ASSUME ClientAssumption ==
    /\ NoHost \notin Host
    /\ MaxClients \in Nat \ {0} /\ MaxEntries \in Nat /\ MaxHits \in Nat

VARIABLES
    clients,    \* the map: clients[h] is the entry of h, 0 while it has none
    lruList,    \* entries from the most to the least recently used
    hostOf,     \* hostOf[n]: the host entry n was created for
    evictions, cacheHits, cacheMisses,  \* the atomic counters
    pc,         \* pc[c]: where the call of c is
    host,       \* host[c]: the host it asks for
    got,        \* got[c]: the entry it found, and then the one it returned
    latest      \* history: the host last moved to the front or created

counts == <<cacheHits, cacheMisses>>
vars == <<clients, lruList, hostOf, evictions, counts, pc, host, got, latest>>

Init ==
    /\ clients = [h \in Host |-> 0]
    /\ lruList = <<>> /\ hostOf = <<>>
    /\ evictions = 0 /\ cacheHits = 0 /\ cacheMisses = 0
    /\ pc = [c \in Caller |-> "idle"]
    /\ host = [c \in Caller |-> NoHost]
    /\ got = [c \in Caller |-> 0]
    /\ latest = NoHost

Cached == {h \in Host : clients[h] # 0}
InList(s) == {s[i] : i \in 1..Len(s)}

(* Mutant of ToFront: the order of use is not kept. *)
LeaveInPlace(n) == lruList

(* lruList.MoveToFront(entry.listElem) *)
ToFront(n) ==
    IF n \in InList(lruList)
    THEN LET at == CHOOSE i \in 1..Len(lruList) : lruList[i] = n
         IN  [i \in 1..Len(lruList) |->
                 IF i = 1 THEN n
                 ELSE IF i <= at THEN lruList[i - 1] ELSE lruList[i]]
    ELSE lruList

LatestAfterTouch(n) == IF n \in InList(lruList) THEN hostOf[n] ELSE latest

(* GetClient under the read lock *)
LookUp(c, h) ==
    /\ pc[c] = "idle"
    /\ host' = [host EXCEPT ![c] = h]
    /\ got' = [got EXCEPT ![c] = clients[h]]
    /\ pc' = [pc EXCEPT ![c] = IF clients[h] # 0 THEN "hit" ELSE "miss"]
    /\ UNCHANGED <<clients, lruList, hostOf, evictions, counts, latest>>

(* m.cacheHits.Add(1), under no lock *)
CountHit(c) ==
    /\ pc[c] = "hit"
    /\ cacheHits < MaxHits
    /\ cacheHits' = cacheHits + 1
    /\ pc' = [pc EXCEPT ![c] = "touch"]
    /\ UNCHANGED <<clients, lruList, hostOf, evictions, cacheMisses, host, got,
                   latest>>

(* Mutant of CountMiss: the other counter. *)
CountMissAsHit(c) ==
    /\ pc[c] = "miss"
    /\ cacheHits' = cacheHits + 1
    /\ pc' = [pc EXCEPT ![c] = "create"]
    /\ UNCHANGED <<clients, lruList, hostOf, evictions, cacheMisses, host, got,
                   latest>>

(* m.cacheMisses.Add(1), under no lock *)
CountMiss(c) ==
    /\ pc[c] = "miss"
    /\ cacheMisses' = cacheMisses + 1
    /\ pc' = [pc EXCEPT ![c] = "create"]
    /\ UNCHANGED <<clients, lruList, hostOf, evictions, cacheHits, host, got,
                   latest>>

(* Mutant of Touch: the front of the list is returned, whatever it is. *)
TouchReturnsFront(c) ==
    /\ pc[c] = "touch"
    /\ lruList' = ToFront(got[c])
    /\ got' = [got EXCEPT ![c] = Head(lruList')]
    /\ latest' = LatestAfterTouch(got[c])
    /\ pc' = [pc EXCEPT ![c] = "using"]
    /\ UNCHANGED <<clients, hostOf, evictions, counts, host>>

(* a hit, under the write lock: the entry may have left the list meanwhile *)
Touch(c) ==
    /\ pc[c] = "touch"
    /\ lruList' = ToFront(got[c])
    /\ latest' = LatestAfterTouch(got[c])
    /\ pc' = [pc EXCEPT ![c] = "using"]
    /\ UNCHANGED <<clients, hostOf, evictions, counts, host, got>>

(* a miss, under the write lock, where another caller has been faster *)
FindCreated(c) ==
    /\ pc[c] = "create"
    /\ clients[host[c]] # 0
    /\ got' = [got EXCEPT ![c] = clients[host[c]]]
    /\ lruList' = ToFront(clients[host[c]])
    /\ latest' = host[c]
    /\ pc' = [pc EXCEPT ![c] = "using"]
    /\ UNCHANGED <<clients, hostOf, evictions, counts, host>>

MustEvict == Cardinality(Cached) >= MaxClients

Victim == lruList[Len(lruList)]

(* Mutant of Evicted: the map keeps the evicted entry. *)
KeepEvicted == clients

(* the map and the list after evictLRU, if it is called *)
Evicted == IF MustEvict
           THEN [clients EXCEPT ![hostOf[Victim]] = 0] ELSE clients
ListAfterEviction == IF MustEvict
                     THEN SubSeq(lruList, 1, Len(lruList) - 1) ELSE lruList

(* createOptimizedClient: a new client; the settings of its transport are  *)
(* left out.                                                               *)
NewClient == Len(hostOf) + 1

(* Mutant of Create: no second look at the map under the write lock. *)
CreateUnchecked(c) ==
    /\ pc[c] = "create"
    /\ Len(hostOf) < MaxEntries
    /\ LET n == NewClient
       IN  /\ hostOf' = Append(hostOf, host[c])
           /\ clients' = [Evicted EXCEPT ![host[c]] = n]
           /\ lruList' = <<n>> \o ListAfterEviction
           /\ got' = [got EXCEPT ![c] = n]
    /\ evictions' = IF MustEvict THEN evictions + 1 ELSE evictions
    /\ latest' = host[c]
    /\ pc' = [pc EXCEPT ![c] = "using"]
    /\ UNCHANGED <<counts, host>>

(* a miss, under the write lock: evict if the cache is full, and create *)
Create(c) ==
    /\ pc[c] = "create"
    /\ clients[host[c]] = 0
    /\ Len(hostOf) < MaxEntries
    /\ LET n == NewClient
       IN  /\ hostOf' = Append(hostOf, host[c])
           /\ clients' = [Evicted EXCEPT ![host[c]] = n]
           /\ lruList' = <<n>> \o ListAfterEviction
           /\ got' = [got EXCEPT ![c] = n]
    /\ evictions' = IF MustEvict THEN evictions + 1 ELSE evictions
    /\ latest' = host[c]
    /\ pc' = [pc EXCEPT ![c] = "using"]
    /\ UNCHANGED <<counts, host>>

(* The caller has made its request and lets go of the client. *)
Release(c) ==
    /\ pc[c] = "using"
    /\ pc' = [pc EXCEPT ![c] = "idle"]
    /\ host' = [host EXCEPT ![c] = NoHost]
    /\ got' = [got EXCEPT ![c] = 0]
    /\ UNCHANGED <<clients, lruList, hostOf, evictions, counts, latest>>

Next == \E c \in Caller :
            \/ \E h \in Host : LookUp(c, h)
            \/ CountHit(c) \/ CountMiss(c)
            \/ Touch(c) \/ FindCreated(c) \/ Create(c) \/ Release(c)

Spec == Init /\ [][Next]_vars

-----------------------------------------------------------------------------
(* Properties *)

(* Types; a caller in no call has no host, and GetClient never returns     *)
(* nil to one.                                                             *)
TypeOK ==
    /\ clients \in [Host -> Nat]
    /\ evictions \in Nat /\ cacheHits \in Nat /\ cacheMisses \in Nat
    /\ hostOf \in Seq(Host) /\ lruList \in Seq(1..Len(hostOf))
    /\ pc \in [Caller -> {"idle", "hit", "touch", "miss", "create", "using"}]
    /\ host \in [Caller -> Host \cup {NoHost}]
    /\ got \in [Caller -> 0..Len(hostOf)]
    /\ latest \in Host \cup {NoHost}
    /\ \A c \in Caller : /\ pc[c] = "idle" <=> host[c] = NoHost
                         /\ pc[c] = "using" => got[c] # 0

(* The map and the list hold the same entries, each once and each under    *)
(* its own host, although a hit moves an entry that may have been evicted  *)
(* since it was found.                                                     *)
MapMatchesList ==
    /\ InList(lruList) = {clients[h] : h \in Cached}
    /\ Len(lruList) = Cardinality(Cached)
    /\ \A h \in Cached : hostOf[clients[h]] = h

(* The cache never holds more clients than MaxClientPoolSize, although     *)
(* callers find it full, or not, before they hold the lock.                *)
CacheSound == /\ TypeOK
              /\ MapMatchesList
              /\ Cardinality(Cached) <= MaxClients

(* Every client created is in the cache or was evicted with its idle       *)
(* connections closed: racing callers leave none behind. And the numbers   *)
(* GetPoolStats reports fit together: each of these clients was a miss     *)
(* counted before, and so are the misses still waiting for the write lock. *)
(* GetPoolStats holds the read lock, so that only the hits and the misses  *)
(* grow while it reads.                                                    *)
ClientsAccounted ==
    /\ Len(hostOf) = Cardinality(Cached) + evictions
    /\ Len(hostOf) + Cardinality({c \in Caller : pc[c] = "create"})
          <= cacheMisses

(* The client a caller got belongs to its host, even if it was evicted     *)
(* between the lookup and the return.                                      *)
ClientOfHost ==
    \A c \in Caller : got[c] # 0 => hostOf[got[c]] = host[c]

(* The host used last is never the one evicted, if there is room for two.  *)
SparesLatest == [][\A h \in Host : clients[h] # 0 /\ clients'[h] = 0
                      => h # latest \/ MaxClients = 1]_vars
=============================================================================

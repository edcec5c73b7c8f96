------------------------ MODULE IdentityCacheProofs ------------------------
(***************************************************************************)
(* Proofs about the identity caches, for any number of addresses and       *)
(* requests, any size, life and timeout.                                   *)
(***************************************************************************)
EXTENDS IdentityCache, FiniteSetTheorems, TLAPS

\* The keys of the list are distinct, and they are those of the map.
Once(s) == \A i, j \in DOMAIN s : s[i] = s[j] => i = j
Linked ==
  /\ Len(order) <= MaxSize /\ Once(order)
  /\ Keys(order) = Cached

\* An answer is no older than the lookup has taken, so an entry is no older than
\* one lookup and the part of its life that is over.
Fresh ==
  /\ \A r \in Request : pc[r] = "answered" => answer[r].age <= waited[r]
  /\ \A a \in Address : Hit(a) => entries[a].age + entries[a].left <= Stale

CacheInv == TypeOK /\ Linked /\ Fresh /\ BoundedStaleness

-----------------------------------------------------------------------------
LEMMA CacheTimes ==
  Stale \in Nat /\ TTL \in Nat /\ Timeout \in Nat /\ TTL <= Stale /\ Timeout <= Stale /\ 0 \in Ages
  /\ (\A n \in Ages : Older(n) \in Ages /\ Older(n) <= n + 1 /\ Older(n) # 0)
BY TimeAssumption DEF Stale, Ages, Older

LEMMA CacheNames ==
  ASSUME NEW a \in Address, NEW m \in Machine
  PROVE  {a} \subseteq Names /\ Identities(a, m) \subseteq Names
<1>1. {a} \subseteq Names /\ Hostnames[m] \subseteq Hosts /\ WhoIsNames[m] \subseteq Names
  BY DEF Names, Hosts
<1>2. Hosts \subseteq Names /\ \A h \in Hosts : Short[h] \subseteq ShortHosts
  BY DEF Names, ShortHosts
<1>3. UNION {Short[h] : h \in Hostnames[m]} \subseteq Names
  BY <1>1, <1>2 DEF Names
<1> QED BY <1>1, <1>2, <1>3 DEF Identities, buildIdentifiers, buildWhoIsIdentifiers

\* Removing a key leaves the others, each once, and makes room.
LEMMA WithoutKeeps ==
  ASSUME NEW s \in Seq(Address), Once(s), NEW a
  PROVE  /\ Without(s, a) \in Seq(Address) /\ Once(Without(s, a))
         /\ Keys(Without(s, a)) = Keys(s) \ {a}
         /\ Len(Without(s, a)) <= Len(s)
<1>1. CASE a \notin Keys(s)
  BY <1>1 DEF Without
<1>2. CASE a \in Keys(s)
  <2> DEFINE k == Place(s, a)
             w == [i \in 1 .. Len(s) - 1 |-> IF i < k THEN s[i] ELSE s[i + 1]]
  <2>1. k \in DOMAIN s /\ s[k] = a
    BY <1>2 DEF Place, Keys
  <2> HIDE DEF k
  <2>2. DOMAIN s = 1 .. Len(s) /\ Len(s) \in Nat /\ \A i \in 1 .. Len(s) : s[i] \in Address
    OBVIOUS
  <2>3. Without(s, a) = w
    BY <1>2 DEF Without, k
  <2>4. Len(s) - 1 \in Nat /\ \A i \in 1 .. Len(s) - 1 : w[i] \in Address
    BY <2>1, <2>2
  <2>5. w \in Seq(Address) /\ Len(w) = Len(s) - 1 /\ DOMAIN w = 1 .. Len(s) - 1
    BY <2>4
  <2>6. Once(w)
    <3> SUFFICES ASSUME NEW i \in DOMAIN w, NEW j \in DOMAIN w, w[i] = w[j] PROVE i = j
      BY DEF Once
    <3>1. i \in 1 .. Len(s) - 1 /\ j \in 1 .. Len(s) - 1
      BY <2>5
    <3> QED BY <3>1, <2>1, <2>2 DEF Once
  <2>7. ASSUME NEW b \in Keys(w) PROVE b \in Keys(s) \ {a}
    <3>1. PICK i \in 1 .. Len(s) - 1 : b = w[i]
      BY <2>5 DEF Keys
    <3>2. PICK j \in 1 .. Len(s) : b = s[j] /\ j # k
      BY <3>1, <2>1, <2>2
    <3> QED BY <3>2, <2>1, <2>2 DEF Keys, Once
  <2>8. ASSUME NEW b \in Keys(s), b # a PROVE b \in Keys(w)
    <3>1. PICK i \in 1 .. Len(s) : b = s[i]
      BY <2>2, <2>8 DEF Keys
    <3>2. i < k \/ i > k
      BY <3>1, <2>1, <2>2, <2>8
    <3>3. \E j \in 1 .. Len(s) - 1 : b = w[j]
      <4>1. CASE i < k
        BY <4>1, <3>1, <2>1, <2>2
      <4>2. CASE i > k
        <5>1. i - 1 \in 1 .. Len(s) - 1 /\ ~(i - 1 < k) /\ (i - 1) + 1 = i
          BY <4>2, <2>1, <2>2
        <5> QED BY <5>1, <3>1
      <4> QED BY <3>2, <4>1, <4>2
    <3> QED BY <3>3, <2>5 DEF Keys
  <2> HIDE DEF w
  <2> QED BY <2>2, <2>3, <2>5, <2>6, <2>7, <2>8
<1> QED BY <1>1, <1>2

\* A list without repetitions is as long as it has keys.
LEMMA OnceCounts ==
  ASSUME NEW s \in Seq(Address), Once(s)
  PROVE  Cardinality(Keys(s)) = Len(s)
<1>1. DOMAIN s = 1 .. Len(s) /\ Len(s) \in Nat
  OBVIOUS
<1>2. s \in Bijection(1 .. Len(s), Keys(s))
  <2>1. s \in [1 .. Len(s) -> Keys(s)]
    BY <1>1 DEF Keys
  <2>2. \A i, j \in 1 .. Len(s) : s[i] = s[j] => i = j
    BY <1>1 DEF Once
  <2>3. \A a \in Keys(s) : \E i \in 1 .. Len(s) : s[i] = a
    BY <1>1 DEF Keys
  <2> QED BY <2>1, <2>2, <2>3 DEF Bijection, Injection, Surjection, IsInjective
<1>3. ExistsBijection(1 .. Len(s), Keys(s))
  BY <1>2 DEF ExistsBijection
<1>4. IsFiniteSet(1 .. Len(s)) /\ Cardinality(1 .. Len(s)) = Len(s)
  BY <1>1, FS_Interval
<1> QED BY <1>3, <1>4, FS_Bijection

\* After eviction there is room for one key, and the map has lost the same key as
\* the list.
LEMMA EvictedKeeps ==
  ASSUME order \in Seq(Address), Linked, NEW a \in Address
  PROVE  \E e \in Seq(Address) :
           /\ e = IF Oldest(a) = {} THEN Rest(a) ELSE Tail(Rest(a))
           /\ Once(e) /\ Len(e) < MaxSize
           /\ Keys(e) = Others(a) \ Oldest(a)
<1>1. PICK rest : rest = Rest(a)
  OBVIOUS
<1>2. rest \in Seq(Address) /\ Once(rest) /\ Keys(rest) = Others(a) /\ Len(rest) <= Len(order)
  <2>1. CASE a \in Cached
    BY <1>1, <2>1, WithoutKeeps DEF Rest, Others, Linked
  <2>2. CASE a \notin Cached
    BY <1>1, <2>2 DEF Rest, Others, Linked
  <2> QED BY <2>1, <2>2
<1>3. Cardinality(Others(a)) = Len(rest) /\ Len(rest) \in Nat /\ Len(rest) <= MaxSize
  BY <1>2, OnceCounts, SizeAssumption DEF Linked
<1>4. CASE Len(rest) >= MaxSize
  <2>1. Len(rest) = MaxSize /\ rest # <<>>
    BY <1>2, <1>3, <1>4, SizeAssumption
  <2>2. Oldest(a) = {Head(rest)}
    BY <1>1, <1>3, <1>4, <2>1 DEF Oldest
  <2>3. /\ Tail(rest) \in Seq(Address) /\ Len(Tail(rest)) = Len(rest) - 1
        /\ \A i \in 1 .. Len(rest) - 1 : Tail(rest)[i] = rest[i + 1]
        /\ Head(rest) = rest[1]
    BY <1>2, <2>1
  <2>4. DOMAIN Tail(rest) = 1 .. Len(rest) - 1 /\ DOMAIN rest = 1 .. Len(rest)
    BY <2>3, <1>2
  <2>5. Once(Tail(rest))
    BY <1>2, <1>3, <2>3, <2>4 DEF Once
  <2>6. ASSUME NEW b \in Keys(Tail(rest)) PROVE b \in Keys(rest) \ {Head(rest)}
    <3>1. PICK i \in 1 .. Len(rest) - 1 : b = rest[i + 1]
      BY <2>3, <2>4 DEF Keys
    <3>2. i + 1 \in DOMAIN rest /\ 1 \in DOMAIN rest /\ i + 1 # 1
      BY <1>3, <2>4
    <3> QED BY <1>2, <2>3, <3>1, <3>2 DEF Keys, Once
  <2>7. ASSUME NEW b \in Keys(rest), b # Head(rest) PROVE b \in Keys(Tail(rest))
    <3>1. PICK i \in 1 .. Len(rest) : b = rest[i]
      BY <2>4 DEF Keys
    <3>2. i - 1 \in 1 .. Len(rest) - 1 /\ (i - 1) + 1 = i
      BY <1>3, <2>3, <2>7, <3>1
    <3> QED BY <2>3, <2>4, <3>1, <3>2 DEF Keys
  <2>8. Keys(Tail(rest)) = Others(a) \ Oldest(a)
    BY <1>2, <2>2, <2>6, <2>7
  <2>9. Tail(rest) = IF Oldest(a) = {} THEN Rest(a) ELSE Tail(Rest(a))
    BY <1>1, <2>2
  <2>10. Len(Tail(rest)) < MaxSize
    BY <1>3, <2>1, <2>3
  <2> QED BY <2>3, <2>5, <2>8, <2>9, <2>10
<1>5. CASE Len(rest) < MaxSize
  <2>1. Oldest(a) = {}
    BY <1>1, <1>3, <1>5, SizeAssumption DEF Oldest
  <2> QED BY <1>1, <1>2, <1>5, <2>1
<1> QED BY <1>3, <1>4, <1>5, SizeAssumption

LEMMA SetKeeps ==
  ASSUME TypeOK, Linked, NEW a \in Address, NEW names \in SUBSET Names, NEW age \in Ages,
         Set(a, names, age)
  PROVE  /\ order' \in Seq(Address)
         /\ entries' \in [Address -> [names : SUBSET Names, left : -1 .. TTL, age : Ages]]
         /\ Linked'
         /\ entries'[a] = [names |-> names, left |-> TTL, age |-> age]
         /\ \A b \in Address \ {a} : entries'[b] = entries[b] \/ entries'[b] = NoItem
<1>1. PICK e \in Seq(Address) :
        /\ e = IF Oldest(a) = {} THEN Rest(a) ELSE Tail(Rest(a))
        /\ Once(e) /\ Len(e) < MaxSize
        /\ Keys(e) = Others(a) \ Oldest(a)
  BY EvictedKeeps DEF TypeOK
<1>11. a \notin Keys(e) /\ Keys(e) \subseteq Cached
  BY <1>1 DEF Others
<1>2. /\ order' = Append(e, a)
      /\ entries' = [b \in Address |->
           IF b = a THEN [names |-> names, left |-> TTL, age |-> age]
           ELSE IF b \in Keys(e) THEN entries[b] ELSE NoItem]
  BY <1>1 DEF Set
<1>3. order' \in Seq(Address) /\ Len(order') = Len(e) + 1 /\ order'[Len(e) + 1] = a
      /\ \A i \in 1 .. Len(e) : order'[i] = e[i]
  BY <1>1, <1>2
<1>4. DOMAIN order' = 1 .. Len(e) + 1 /\ DOMAIN e = 1 .. Len(e) /\ Len(e) \in Nat
  BY <1>1, <1>3
<1>5. \A i \in 1 .. Len(e) : e[i] # a
  BY <1>11, <1>4 DEF Keys
<1>14. \A i, j \in 1 .. Len(e) : e[i] = e[j] => i = j
  BY <1>1, <1>4 DEF Once
<1>6. Once(order')
  BY <1>14, <1>3, <1>4, <1>5 DEF Once
<1>7. Keys(order') = Keys(e) \cup {a}
  <2>1. ASSUME NEW b \in Keys(order') PROVE b \in Keys(e) \cup {a}
    BY <2>1, <1>3, <1>4 DEF Keys
  <2>2. a \in Keys(order')
    BY <1>3, <1>4 DEF Keys
  <2>3. ASSUME NEW b \in Keys(e) PROVE b \in Keys(order')
    BY <2>3, <1>3, <1>4 DEF Keys
  <2> QED BY <2>1, <2>2, <2>3
<1>8. Len(order') <= MaxSize
  BY <1>1, <1>3, SizeAssumption
<1>12. [names |-> names, left |-> TTL, age |-> age] # NoItem
  BY CacheTimes DEF NoItem
<1>13. Cached' = Keys(e) \cup {a}
  BY <1>2, <1>11, <1>12 DEF Cached
<1>9. Linked'
  BY <1>6, <1>7, <1>8, <1>13 DEF Linked
<1>10. NoItem \in [names : SUBSET Names, left : -1 .. TTL, age : Ages] /\ TTL \in -1 .. TTL
  BY CacheTimes DEF NoItem
<1> QED BY <1>2, <1>3, <1>9, <1>10 DEF TypeOK

-----------------------------------------------------------------------------
\* What answers a request goes into the cache for its address.
LEMMA ServeKeeps ==
  ASSUME CacheInv, NEW r \in Request, pc[r] \in {"lookup", "answered"},
         NEW names \in SUBSET Names, NEW age \in Ages, age <= Timeout, Serve(r, names, age),
         failures' \in 0 .. Failures
  PROVE  CacheInv'
<1>1. ip[r] \in Address
  BY DEF CacheInv, TypeOK
<1>2. /\ order' \in Seq(Address) /\ Linked'
      /\ entries' \in [Address -> [names : SUBSET Names, left : -1 .. TTL, age : Ages]]
      /\ entries'[ip[r]] = [names |-> names, left |-> TTL, age |-> age]
      /\ \A b \in Address \ {ip[r]} : entries'[b] = entries[b] \/ entries'[b] = NoItem
  BY <1>1, SetKeeps DEF CacheInv, Serve
<1>3. TypeOK'
  <2>1. waited' \in [Request -> 0 .. Timeout]
    BY CacheTimes DEF CacheInv, TypeOK, Serve
  <2>2. /\ answer' \in [Request -> [names : SUBSET Names, age : Ages]]
        /\ ids' \in [Request -> [names : SUBSET Names, age : Ages]]
    BY CacheTimes DEF CacheInv, TypeOK, Serve, NoNames
  <2>3. /\ pc' \in [Request -> {"idle", "lookup", "answered", "served"}]
        /\ ip' \in [Request -> Address \cup {NoAddress}]
        /\ \A q \in Request : pc'[q] # "idle" => ip'[q] \in Address
    BY <1>1 DEF CacheInv, TypeOK, Serve
  <2> QED BY <1>2, <2>1, <2>2, <2>3 DEF CacheInv, TypeOK, Serve
<1>4. Fresh'
  <2>1. \A q \in Request : pc'[q] = "answered" => answer'[q].age <= waited'[q]
    BY DEF CacheInv, TypeOK, Fresh, Serve
  <2>2. \A a \in Address : entries'[a].left >= 0 => entries'[a].age + entries'[a].left <= Stale
    <3> SUFFICES ASSUME NEW a \in Address, entries'[a].left >= 0
                 PROVE  entries'[a].age + entries'[a].left <= Stale
      OBVIOUS
    <3>1. CASE a = ip[r]
      BY <3>1, <1>2, CacheTimes DEF Ages, Stale
    <3>2. CASE a # ip[r]
      <4>1. entries'[a] = entries[a]
        BY <3>2, <1>2 DEF NoItem
      <4> QED BY <4>1 DEF CacheInv, Fresh, Hit, Cached, NoItem
    <3> QED BY <3>1, <3>2
  <2> QED BY <2>1, <2>2 DEF Fresh, Hit
<1>5. BoundedStaleness'
  <2>1. ids' = [ids EXCEPT ![r] = [names |-> names, age |-> age]] /\ ids \in [Request -> [names : SUBSET Names, age : Ages]]
        /\ pc' = [pc EXCEPT ![r] = "served"] /\ pc \in [Request -> {"idle", "lookup", "answered", "served"}]
    BY DEF CacheInv, TypeOK, Serve
  <2>2. age <= Stale
    BY CacheTimes DEF Ages
  <2> QED BY <2>1, <2>2 DEF CacheInv, BoundedStaleness
<1> QED BY <1>2, <1>3, <1>4, <1>5 DEF CacheInv

LEMMA TickKeeps ==
  ASSUME CacheInv, Tick
  PROVE  CacheInv'
<1> DEFINE I == [names : SUBSET Names, left : -1 .. TTL, age : Ages]
           E(a) == [names |-> entries[a].names, age |-> Older(entries[a].age),
                    left |-> IF entries[a].left >= 0 THEN entries[a].left - 1 ELSE entries[a].left]
<1>1. \A a \in Address : entries[a] \in I
  BY DEF CacheInv, TypeOK
<1>2. \A a \in Address : /\ E(a) \in I /\ E(a).left <= entries[a].left
                         /\ E(a).left >= 0 => /\ entries[a].left >= 0
                                              /\ E(a).age + E(a).left <= entries[a].age + entries[a].left
  <2> TAKE a \in Address
  <2>2. Older(entries[a].age) \in Ages /\ Older(entries[a].age) <= entries[a].age + 1
    BY <1>1, CacheTimes
  <2>3. entries[a] \in I
    BY <1>1
  <2> QED BY <2>2, <2>3, CacheTimes DEF Ages
<1>3. entries' = [a \in Address |-> IF a \in Cached THEN E(a) ELSE entries[a]]
  BY DEF Tick
<1>9. \A a \in Address : E(a) # NoItem
  <2> TAKE a \in Address
  <2>1. Older(entries[a].age) # 0
    BY <1>1, CacheTimes
  <2> QED BY <2>1 DEF NoItem
<1> HIDE DEF E
<1>4. Linked'
  <2>1. Cached' = Cached
    BY <1>3, <1>9 DEF Cached
  <2> QED BY <2>1 DEF CacheInv, Linked, Tick
<1>5. /\ waited' \in [Request -> 0 .. Timeout]
      /\ answer' \in [Request -> [names : SUBSET Names, age : Ages]]
      /\ \A r \in Request : pc[r] = "answered" => answer'[r].age <= waited'[r]
  <2>1. \A r \in Request : /\ waited[r] \in 0 .. Timeout
                           /\ Pending(r) => waited'[r] = waited[r] + 1 /\ waited'[r] <= Timeout
                           /\ ~Pending(r) => waited'[r] = 0
    <3> TAKE r \in Request
    <3>1. waited[r] \in 0 .. Timeout /\ (Pending(r) => waited[r] < Timeout)
          /\ waited'[r] = IF Pending(r) THEN waited[r] + 1 ELSE 0
      BY DEF CacheInv, TypeOK, Tick
    <3> QED BY <3>1, CacheTimes
  <2>2. \A r \in Request :
          /\ answer[r] \in [names : SUBSET Names, age : Ages]
          /\ pc[r] = "answered" =>
               answer'[r] = [names |-> answer[r].names, age |-> Older(answer[r].age)]
          /\ pc[r] # "answered" => answer'[r] = answer[r]
    BY DEF CacheInv, TypeOK, Tick
  <2>3. \A r \in Request : pc[r] = "answered" => Pending(r) /\ answer[r].age <= waited[r]
    BY DEF CacheInv, Fresh, Pending
  <2>4. \A r \in Request : Older(answer[r].age) \in Ages /\ Older(answer[r].age) <= answer[r].age + 1
    BY <2>2, CacheTimes
  <2>5. DOMAIN waited' = Request /\ DOMAIN answer' = Request
        /\ waited' = [r \in Request |-> waited'[r]] /\ answer' = [r \in Request |-> answer'[r]]
    BY DEF Tick
  <2>6. \A r \in Request : answer'[r] \in [names : SUBSET Names, age : Ages]
    <3> TAKE r \in Request
    <3>1. CASE pc[r] = "answered"
      <4>1. answer'[r] = [names |-> answer[r].names, age |-> Older(answer[r].age)]
        BY <3>1, <2>2
      <4>2. answer[r].names \in SUBSET Names /\ Older(answer[r].age) \in Ages
        BY <2>2, <2>4
      <4> QED BY <4>1, <4>2
    <3>2. CASE pc[r] # "answered"
      BY <3>2, <2>2
    <3> QED BY <3>1, <3>2
  <2>7. \A r \in Request : waited'[r] \in 0 .. Timeout
    BY <2>1, CacheTimes
  <2>8. \A r \in Request : pc[r] = "answered" => answer'[r].age <= waited'[r]
    <3> SUFFICES ASSUME NEW r \in Request, pc[r] = "answered" PROVE answer'[r].age <= waited'[r]
      OBVIOUS
    <3>1. answer'[r].age = Older(answer[r].age) /\ answer[r].age \in Ages
      <4>1. answer'[r] = [names |-> answer[r].names, age |-> Older(answer[r].age)]
        BY <2>2
      <4>2. answer[r].age \in Ages
        BY <2>2
      <4> QED BY <4>1, <4>2
    <3>2. Pending(r) /\ answer[r].age <= waited[r] /\ waited'[r] = waited[r] + 1 /\ waited[r] \in 0 .. Timeout
      BY <2>1, <2>3
    <3> QED BY <3>1, <3>2, <2>4, CacheTimes DEF Ages
  <2> QED BY <2>5, <2>6, <2>7, <2>8
<1>6. TypeOK'
  BY <1>1, <1>2, <1>3, <1>5 DEF CacheInv, TypeOK, Tick
<1>7. Fresh'
  <2>1. \A r \in Request : pc'[r] = "answered" => answer'[r].age <= waited'[r]
    BY <1>5 DEF Tick
  <2>2. ASSUME NEW a \in Address, entries'[a].left >= 0
        PROVE  entries'[a].age + entries'[a].left <= Stale
    <3>1. CASE a \notin Cached
      BY <2>2, <3>1, <1>3 DEF Cached, NoItem
    <3>2. CASE a \in Cached
      <4>1. entries'[a] = E(a) /\ entries[a] \in I /\ E(a) \in I
        BY <3>2, <1>1, <1>2, <1>3
      <4>2. entries[a].left >= 0 /\ E(a).age + E(a).left <= entries[a].age + entries[a].left
        BY <4>1, <2>2, <1>2
      <4>3. entries[a].age + entries[a].left <= Stale
        BY <4>2 DEF CacheInv, Fresh, Hit, Cached, NoItem
      <4> QED BY <4>1, <4>2, <4>3, CacheTimes DEF Ages
    <3> QED BY <3>1, <3>2
  <2> QED BY <2>1, <2>2 DEF Fresh, Hit
<1>8. BoundedStaleness'
  BY DEF CacheInv, BoundedStaleness, Tick
<1> QED BY <1>4, <1>6, <1>7, <1>8 DEF CacheInv

LEMMA CacheStep ==
  ASSUME CacheInv, [Next]_vars
  PROVE  CacheInv'
<1> USE DEF cache
<1>1. ASSUME NEW r \in Request, NEW a \in Address, Arrive(r, a) PROVE CacheInv'
  <2>1. CASE Hit(a) /\ pc' = [pc EXCEPT ![r] = "served"]
             /\ ids' = [ids EXCEPT ![r] = [names |-> entries[a].names, age |-> entries[a].age]]
    <3>1. entries[a] \in [names : SUBSET Names, left : -1 .. TTL, age : Ages] /\ entries[a].left >= 0
          /\ entries[a].age + entries[a].left <= Stale
      BY <2>1 DEF CacheInv, TypeOK, Fresh, Hit
    <3>2. entries[a].age <= Stale /\ entries[a].age \in Ages /\ entries[a].names \in SUBSET Names
      BY <3>1, CacheTimes DEF Ages
    <3>3. TypeOK'
      BY <1>1, <2>1, <3>2 DEF CacheInv, TypeOK, Arrive
    <3>4. Linked' /\ Fresh'
      BY <1>1, <2>1 DEF CacheInv, TypeOK, Linked, Fresh, Hit, Cached, Arrive
    <3>5. BoundedStaleness'
      BY <1>1, <2>1, <3>2 DEF CacheInv, TypeOK, BoundedStaleness, Arrive
    <3> QED BY <3>3, <3>4, <3>5 DEF CacheInv
  <2>2. CASE pc' = [pc EXCEPT ![r] = "lookup"] /\ UNCHANGED ids
    <3>1. TypeOK'
      BY <1>1, <2>2 DEF CacheInv, TypeOK, Arrive
    <3>2. Linked' /\ Fresh'
      BY <1>1, <2>2 DEF CacheInv, TypeOK, Linked, Fresh, Hit, Cached, Arrive
    <3>3. BoundedStaleness'
      BY <1>1, <2>2 DEF CacheInv, TypeOK, BoundedStaleness, Arrive
    <3> QED BY <3>1, <3>2, <3>3 DEF CacheInv
  <2> QED BY <1>1, <2>1, <2>2 DEF Arrive
<1>2. ASSUME NEW r \in Request, Resolve(r) PROVE CacheInv'
  <2>1. ip[r] \in Address /\ truth[ip[r]] \in Machine /\ waited[r] \in 0 .. Timeout
    BY <1>2 DEF CacheInv, TypeOK, Resolve
  <2>2. Identities(ip[r], truth[ip[r]]) \in SUBSET Names
    BY <2>1, CacheNames
  <2> DEFINE found == [names |-> Identities(ip[r], truth[ip[r]]), age |-> 0]
  <2>3. found \in [names : SUBSET Names, age : Ages] /\ found.age = 0
    BY <2>2, CacheTimes
  <2>4. answer' = [answer EXCEPT ![r] = found]
    BY <1>2 DEF Resolve
  <2> HIDE DEF found
  <2>5. TypeOK'
    BY <1>2, <2>3, <2>4 DEF CacheInv, TypeOK, Resolve
  <2>6. Linked' /\ Fresh'
    BY <1>2, <2>1, <2>3, <2>4 DEF CacheInv, TypeOK, Linked, Fresh, Hit, Cached, Resolve
  <2>7. BoundedStaleness'
    BY <1>2 DEF CacheInv, TypeOK, BoundedStaleness, Resolve
  <2> QED BY <2>5, <2>6, <2>7 DEF CacheInv
<1>3. ASSUME NEW r \in Request, LookupEnds(r) PROVE CacheInv'
  <2>1. answer[r] \in [names : SUBSET Names, age : Ages] /\ answer[r].age <= waited[r]
        /\ waited[r] \in 0 .. Timeout /\ failures' \in 0 .. Failures
    BY <1>3 DEF CacheInv, TypeOK, Fresh, LookupEnds
  <2>2. answer[r].names \in SUBSET Names /\ answer[r].age \in Ages /\ answer[r].age <= Timeout
    BY <2>1, CacheTimes DEF Ages
  <2> QED BY <1>3, <2>1, <2>2, ServeKeeps DEF LookupEnds
<1>4. ASSUME NEW r \in Request, LookupFails(r) PROVE CacheInv'
  <2>1. failures' \in 0 .. Failures /\ ip[r] \in Address
    BY <1>4, BoundsAssumption DEF CacheInv, TypeOK, LookupFails
  <2>2. {ip[r]} \in SUBSET Names /\ 0 \in Ages /\ 0 <= Timeout
    BY <2>1, CacheTimes DEF Names
  <2> QED BY <1>4, <2>1, <2>2, ServeKeeps DEF LookupFails
<1>5. ASSUME NEW r \in Request, Finish(r) PROVE CacheInv'
  <2>1. TypeOK'
    BY <1>5, CacheTimes DEF CacheInv, TypeOK, Finish, NoNames
  <2>2. Linked' /\ Fresh'
    BY <1>5 DEF CacheInv, TypeOK, Linked, Fresh, Hit, Cached, Finish
  <2>3. BoundedStaleness'
    BY <1>5 DEF CacheInv, TypeOK, BoundedStaleness, Finish
  <2> QED BY <2>1, <2>2, <2>3 DEF CacheInv
<1>6. ASSUME NEW a \in Address, NEW m \in Machine, Reassign(a, m) PROVE CacheInv'
  <2>1. TypeOK'
    BY <1>6, BoundsAssumption DEF CacheInv, TypeOK, Reassign
  <2>2. Linked' /\ Fresh' /\ BoundedStaleness'
    BY <1>6 DEF CacheInv, Linked, Fresh, Hit, Cached, BoundedStaleness, Reassign
  <2> QED BY <2>1, <2>2 DEF CacheInv
<1>7. CASE Tick
  BY <1>7, TickKeeps
<1>8. CASE UNCHANGED vars
  BY <1>8 DEF vars, CacheInv, TypeOK, Linked, Fresh, Hit, Cached, BoundedStaleness
<1> QED BY <1>1, <1>2, <1>3, <1>4, <1>5, <1>6, <1>7, <1>8 DEF Next, Step

LEMMA CacheInit == Init => CacheInv
<1> SUFFICES ASSUME Init PROVE CacheInv
  OBVIOUS
<1>1. TypeOK
  BY CacheTimes, BoundsAssumption DEF Init, TypeOK, NoItem, NoNames
<1>2. Linked /\ Fresh /\ BoundedStaleness
  BY CacheTimes, SizeAssumption DEF Init, Linked, Fresh, Hit, Cached, BoundedStaleness, Once,
                                    Keys, NoItem
<1> QED BY <1>1, <1>2 DEF CacheInv

LEMMA CacheAlways == Spec => []CacheInv
BY CacheInit, CacheStep, PTL DEF Spec

-----------------------------------------------------------------------------
\* Type correctness: every variable of the identity middlewares keeps its type,
\* whatever requests, lookups and failures interleave.
THEOREM CacheTyped == Spec => []TypeOK
<1>1. CacheInv => TypeOK
  BY DEF CacheInv
<1> QED BY CacheAlways, <1>1, PTL

LEMMA LinkedConsistent == TypeOK /\ Linked => CacheConsistent
BY OnceCounts DEF TypeOK, Linked, CacheConsistent

\* The cache's map and its list agree and respect the configured size, however many
\* requests set entries for whatever addresses.
THEOREM CacheAgrees == Spec => []CacheConsistent
<1>1. CacheInv => CacheConsistent
  BY LinkedConsistent DEF CacheInv
<1> QED BY CacheAlways, <1>1, PTL

\* For any time to live, timeout and number of concurrent lookups, no request is
\* decided on an identity that was last true longer ago than both together.
THEOREM CacheStaleness == Spec => []BoundedStaleness
<1>1. CacheInv => BoundedStaleness
  BY DEF CacheInv
<1> QED BY CacheAlways, <1>1, PTL
=============================================================================

--------------------------- MODULE IdentityCache ---------------------------
(***************************************************************************)
(* The identity middlewares (internal/middleware/identity.go): who a       *)
(* client is, looked up by reverse DNS or by Tailscale WhoIs, and cached   *)
(* by address with a time to live and a bounded size.  The two caches are  *)
(* the same code over different results.                                   *)
(*                                                                         *)
(* Time is a clock of ticks that the model keeps as ages: what is left of  *)
(* an entry's life, and how long ago an answer was true.  Computation      *)
(* takes no time; only lookups, which are bounded by their timeout, and    *)
(* waiting do.  Concurrent requests that miss all look up.                 *)
(***************************************************************************)
EXTENDS Integers, Sequences, FiniteSets

CONSTANTS
  Address,    \* client addresses
  Machine,    \* what an address can stand for
  Hostnames,  \* Hostnames[m]: what reverse DNS answers for it
  WhoIsNames, \* WhoIsNames[m]: FQDN, short name, login name and tags
  Short,      \* Short[h]: the first label of host name h, if h has a dot
  TTL,        \* cacheTTL
  Timeout,    \* of a lookup
  MaxSize,    \* maxCacheSize
  Failures,   \* a bound on the lookups that fail
  Changes,    \* a bound on the times an address changes hands
  NoAddress,  \* of a slot without a request
  Request     \* slots for requests in flight

ASSUME TimeAssumption == TTL \in Nat \ {0} /\ Timeout \in Nat \ {0}
ASSUME SizeAssumption == MaxSize \in Nat \ {0}
ASSUME BoundsAssumption == Failures \in Nat /\ Changes \in Nat

VARIABLES
  mode,             \* rDNS, rDNS with short names ("tailscale"), or WhoIs
  truth,            \* truth[a]: the machine that has address a now
  failures, changes,
  entries,          \* the cache's map: entries[a], an item or none
  order,            \* the cache's list: the keys, oldest first
  pc, ip,           \* pc[r], ip[r]: the request in slot r and its address
  waited,           \* waited[r]: how long its lookup has taken
  answer,           \* answer[r]: the answer the resolver has found, if any
  ids               \* ids[r]: the identities set for the request, and their age

cache == <<entries, order>>
vars == <<mode, truth, failures, changes, cache, pc, ip, waited, answer, ids>>

Stale == TTL + Timeout
Modes == {"rdns", "tailscale", "whois"}
NoItem == [names |-> {}, left |-> -1, age |-> 0]
NoNames == [names |-> {}, age |-> 0]

\* The identity lists: the address is always among them.
buildIdentifiers(a, hosts) ==
  {a} \cup hosts \cup (IF mode = "tailscale" THEN UNION {Short[h] : h \in hosts} ELSE {})
buildWhoIsIdentifiers(a, names) == {a} \cup names

Identities(a, m) ==
  IF mode = "whois" THEN buildWhoIsIdentifiers(a, WhoIsNames[m])
  ELSE buildIdentifiers(a, Hostnames[m])

Init ==
  /\ mode \in Modes
  /\ truth \in [Address -> Machine]
  /\ failures = 0 /\ changes = 0
  /\ entries = [a \in Address |-> NoItem] /\ order = <<>>
  /\ pc = [r \in Request |-> "idle"]
  /\ ip = [r \in Request |-> NoAddress]
  /\ waited = [r \in Request |-> 0]
  /\ answer = [r \in Request |-> NoNames]
  /\ ids = [r \in Request |-> NoNames]

-----------------------------------------------------------------------------
Keys(s) == {s[n] : n \in DOMAIN s}
Cached == {a \in Address : entries[a] # NoItem}

\* Mutant of Hit: the expiry is not looked at.
HitForever(a) == a \in Cached

\* Get: an item counts until its expiry has passed.
Hit(a) == a \in Cached /\ entries[a].left >= 0

\* list.Remove: the element of the key goes, and those behind it move up.
Place(s, a) == CHOOSE i \in DOMAIN s : s[i] = a
Without(s, a) ==
  IF a \notin Keys(s) THEN s
  ELSE [i \in 1 .. Len(s) - 1 |-> IF i < Place(s, a) THEN s[i] ELSE s[i + 1]]

\* Mutant of Rest: the element of a key that is set again stays in the list.
RestKept(a) == order

\* Set: a key that the map has loses its element and its entry;
Rest(a) == IF a \in Cached THEN Without(order, a) ELSE order
Others(a) == Cached \ {a}

\* when the map is full, the key at the front of the list is taken from both;
Oldest(a) ==
  IF Cardinality(Others(a)) >= MaxSize /\ Rest(a) # <<>> THEN {Head(Rest(a))} ELSE {}

\* and the key is added at the back of the list and to the map, with a full life.
Set(a, names, age) ==
  /\ order' = Append(IF Oldest(a) = {} THEN Rest(a) ELSE Tail(Rest(a)), a)
  /\ entries' = [b \in Address |->
       IF b = a THEN [names |-> names, left |-> TTL, age |-> age]
       ELSE IF b \in Others(a) \ Oldest(a) THEN entries[b] ELSE NoItem]

-----------------------------------------------------------------------------
\* A request from address a: a hit sets the identities at once.
Arrive(r, a) ==
  /\ pc[r] = "idle"
  /\ ip' = [ip EXCEPT ![r] = a]
  /\ \/ /\ Hit(a)
        /\ pc' = [pc EXCEPT ![r] = "served"]
        /\ ids' = [ids EXCEPT ![r] = [names |-> entries[a].names, age |-> entries[a].age]]
     \/ /\ ~Hit(a)
        /\ pc' = [pc EXCEPT ![r] = "lookup"]
        /\ UNCHANGED ids
  /\ UNCHANGED <<mode, truth, failures, changes, cache, waited, answer>>

\* The resolver finds the answer, which is then still on its way back.
Resolve(r) ==
  /\ pc[r] = "lookup"
  /\ pc' = [pc EXCEPT ![r] = "answered"]
  /\ answer' = [answer EXCEPT ![r] = [names |-> Identities(ip[r], truth[ip[r]]), age |-> 0]]
  /\ UNCHANGED <<mode, truth, failures, changes, cache, ip, waited, ids>>

Serve(r, names, age) ==
  /\ Set(ip[r], names, age)
  /\ ids' = [ids EXCEPT ![r] = [names |-> names, age |-> age]]
  /\ pc' = [pc EXCEPT ![r] = "served"]
  /\ answer' = [answer EXCEPT ![r] = NoNames]
  /\ waited' = [waited EXCEPT ![r] = 0]
  /\ UNCHANGED <<mode, truth, changes, ip>>

\* It arrives, and is cached and used.
LookupEnds(r) ==
  /\ pc[r] = "answered"
  /\ Serve(r, answer[r].names, answer[r].age)
  /\ UNCHANGED failures

\* The lookup fails, times out, or is cancelled because the client went away:
\* the bare address is cached.
LookupFails(r) ==
  /\ pc[r] \in {"lookup", "answered"}
  /\ failures < Failures
  /\ failures' = failures + 1
  /\ Serve(r, {ip[r]}, 0)

Finish(r) ==
  /\ pc[r] = "served"
  /\ pc' = [pc EXCEPT ![r] = "idle"]
  /\ ids' = [ids EXCEPT ![r] = NoNames]
  /\ ip' = [ip EXCEPT ![r] = NoAddress]
  /\ UNCHANGED <<mode, truth, failures, changes, cache, waited, answer>>

\* An address is given to another machine.
Reassign(a, m) ==
  /\ changes < Changes /\ m # truth[a]
  /\ truth' = [truth EXCEPT ![a] = m]
  /\ changes' = changes + 1
  /\ UNCHANGED <<mode, failures, cache, pc, ip, waited, answer, ids>>

\* Time passes: entries and answers age, and no lookup outlasts its timeout.
Older(n) == IF n > Stale THEN n ELSE n + 1
Pending(r) == pc[r] \in {"lookup", "answered"}

Tick ==
  /\ \A r \in Request : Pending(r) => waited[r] < Timeout
  /\ entries' = [a \in Address |->
       IF a \in Cached
       THEN [names |-> entries[a].names, age |-> Older(entries[a].age),
             left |-> IF entries[a].left >= 0 THEN entries[a].left - 1 ELSE entries[a].left]
       ELSE entries[a]]
  /\ waited' = [r \in Request |-> IF Pending(r) THEN waited[r] + 1 ELSE 0]
  /\ answer' = [r \in Request |->
       IF pc[r] = "answered" THEN [answer[r] EXCEPT !.age = Older(@)] ELSE answer[r]]
  /\ UNCHANGED <<mode, truth, failures, changes, order, pc, ip, ids>>

Step(r) == Resolve(r) \/ LookupEnds(r) \/ Finish(r)

Next ==
  \/ \E r \in Request : (\E a \in Address : Arrive(r, a)) \/ Step(r) \/ LookupFails(r)
  \/ \E a \in Address, m \in Machine : Reassign(a, m)
  \/ Tick

\* A request that was started is carried on by its goroutine and the clock runs;
\* clients, failures and reassignments are under no obligation.
Fairness == WF_vars(Tick) /\ \A r \in Request : WF_vars(Step(r))

Spec == Init /\ [][Next]_vars /\ Fairness

-----------------------------------------------------------------------------
Hosts == UNION {Hostnames[m] : m \in Machine}
ShortHosts == UNION {Short[h] : h \in Hosts}
Names == Address \cup Hosts \cup ShortHosts \cup UNION {WhoIsNames[m] : m \in Machine}
Ages == 0 .. Stale + 1

\* Every variable has its type, and a request that is not idle has its address.
TypeOK ==
  /\ mode \in Modes
  /\ truth \in [Address -> Machine]
  /\ failures \in 0 .. Failures /\ changes \in 0 .. Changes
  /\ entries \in [Address -> [names : SUBSET Names, left : -1 .. TTL, age : Ages]]
  /\ order \in Seq(Address)
  /\ pc \in [Request -> {"idle", "lookup", "answered", "served"}]
  /\ ip \in [Request -> Address \cup {NoAddress}]
  /\ \A r \in Request : pc[r] # "idle" => ip[r] \in Address
  /\ waited \in [Request -> 0 .. Timeout]
  /\ answer \in [Request -> [names : SUBSET Names, age : Ages]]
  /\ ids \in [Request -> [names : SUBSET Names, age : Ages]]

\* The list and the map, which Set updates one after the other, are about the same
\* keys, each once in the list, and no more than the configured number: a key that
\* only one of them has could never be evicted, or would evict another in its place.
CacheConsistent ==
  /\ Len(order) <= MaxSize
  /\ Cardinality(Keys(order)) = Len(order)
  /\ Keys(order) = Cached

\* No request is decided on an identity that was last true longer ago than the
\* time to live and one lookup, although a slow lookup may overwrite the entry of
\* a later and faster one.
BoundedStaleness ==
  \A r \in Request : pc[r] = "served" => ids[r].age <= Stale

\* Once lookups stop failing and addresses stop changing hands, every request is
\* decided on the true identity of its address: the answers cached before, the
\* failures and the outdated names among them, do not last.
EventuallyTrue ==
  <>[](\A r \in Request : pc[r] = "served" => ids[r].names = Identities(ip[r], truth[ip[r]]))
=============================================================================

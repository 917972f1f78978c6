------------------------------ MODULE SendKeys ------------------------------
(***************************************************************************)
(* The send API: API keys as capability tokens (dmtap-send/src/key.rs,     *)
(* scope.rs), the send pipeline (pipeline.rs, http.rs) and the routes the  *)
(* node serves (node/src/send_api.rs).  A key is known by its number; a    *)
(* token's chain holds the keys it was delegated from, nearest first.      *)
(***************************************************************************)
EXTENDS Integers, Sequences, FiniteSets

CONSTANTS
    Domain,     \* sending domains
    Account,    \* the scope of every domain
    Rate,       \* per-minute ceilings that callers ask for
    Unlimited,  \* no ceiling: more than any
    Ttl,        \* lifetimes asked for
    Year,       \* YEAR_MS, the lifetime of a rotated key
    Minute,     \* the length of a rate window
    MaxKeys,    \* bound: keys issued
    MaxSends,   \* bound: messages dispatched
    MaxNow      \* bound: the clock

SendAssumption ==
    /\ Account \notin Domain /\ Rate \subseteq Nat /\ Ttl \subseteq Nat
    /\ {Unlimited, Year, Minute, MaxKeys, MaxSends, MaxNow} \subseteq Nat /\ Minute > 0
    /\ \A r \in Rate : r < Unlimited

VARIABLES
    keys,           \* SendService::keys, in the order they were stored
    revocations,    \* SendService::revocations
    dispatched,     \* what reached Node::dispatch_sealed
    now

vars == <<keys, revocations, dispatched, now>>

Scope == [domain : Domain \union {Account}, rate : Rate \union {Unlimited}]
Min2(a, b) == IF a < b THEN a ELSE b
Max2(a, b) == IF a > b THEN a ELSE b

Init == keys = <<>> /\ revocations = {} /\ dispatched = <<>> /\ now = 0

Token(k) == keys[k].token

\* external: a capability's attenuation invariant, link by link from the token up:
\* nothing wider, nothing outside the delegator's window.
Attenuates(t, p) ==
    /\ p.scope.domain \in {Account, t.scope.domain}
    /\ t.scope.rate <= p.scope.rate
    /\ t.nbf >= p.nbf /\ t.exp <= p.exp

VerifyChain(t, chain) ==
    \A i \in DOMAIN chain : Attenuates(IF i = 1 THEN t ELSE Token(chain[i - 1]), Token(chain[i]))

VerifyAt(k) == Token(k).nbf <= now /\ now < Token(k).exp /\ k \notin revocations

\* Issued with the capability read back from the scope it was given.
TokenOf(scope, nbf, exp) == [scope |-> scope, nbf |-> nbf, exp |-> exp]

StoreKey(store, t, chain) ==
    Append(store, [token |-> t, chain |-> chain, revoked |-> FALSE, window |-> 0, count |-> 0])

-----------------------------------------------------------------------------
IssueKey(scope, ttl) ==
    /\ Len(keys) < MaxKeys
    /\ keys' = StoreKey(keys, TokenOf(scope, now, now + ttl), <<>>)
    /\ UNCHANGED <<revocations, dispatched, now>>

\* Mutant: only the direct delegator is kept.
DelegatedFromParent(k) == <<k>>

DelegatedFrom(k) == <<k>> \o keys[k].chain

\* A child is cut to its parent's window; a wider scope makes no key.
AttenuateKey(k, scope, ttl) ==
    /\ ~keys[k].revoked /\ Len(keys) < MaxKeys
    /\ LET t == TokenOf(scope, Max2(now, Token(k).nbf), Min2(now + ttl, Token(k).exp))
       IN  /\ VerifyChain(t, DelegatedFrom(k))
           /\ keys' = StoreKey(keys, t, DelegatedFrom(k))
    /\ UNCHANGED <<revocations, dispatched, now>>

Revoked(store, k) == [store EXCEPT ![k].revoked = TRUE]

RevokeKey(k) ==
    /\ keys' = Revoked(keys, k)
    /\ revocations' = revocations \union {k}
    /\ UNCHANGED <<dispatched, now>>

\* Mutant: a rotated key always gets the full lifetime.
ReplacementUnclamped(k) == TokenOf(Token(k).scope, now, now + Year)

\* The token that takes the place of k under the same delegator.
Replacement(k) ==
    IF keys[k].chain = <<>> THEN TokenOf(Token(k).scope, now, now + Year)
    ELSE LET parent == Token(keys[k].chain[1])
         IN  TokenOf(Token(k).scope, Max2(now, parent.nbf), Min2(now + Year, parent.exp))

RotateKey(k) ==
    /\ ~keys[k].revoked /\ Len(keys) < MaxKeys
    /\ VerifyChain(Replacement(k), keys[k].chain)
    /\ keys' = Revoked(StoreKey(keys, Replacement(k), keys[k].chain), k)
    /\ revocations' = revocations \union {k}
    /\ UNCHANGED <<dispatched, now>>

\* Sub-delegation is a call of the library, on no route.
Delegate == \E k \in DOMAIN keys, scope \in Scope, ttl \in Ttl : AttenuateKey(k, scope, ttl)

-----------------------------------------------------------------------------
VerifyKey(k) ==
    /\ ~keys[k].revoked
    /\ VerifyChain(Token(k), keys[k].chain)
    /\ VerifyAt(k) /\ \A i \in DOMAIN keys[k].chain : VerifyAt(keys[k].chain[i])

AuthorizesFrom(scope, domain) == scope.domain \in {Account, domain}

Window == now \div Minute
Counted(k) == IF keys[k].window = Window THEN keys[k].count ELSE 0

\* Mutant: the ceiling may be passed by one.
HasRateOff(k) == Token(k).scope.rate = Unlimited \/ Counted(k) <= Token(k).scope.rate

HasRate(k) == Token(k).scope.rate = Unlimited \/ Counted(k) < Token(k).scope.rate

\* charge_rate: no ceiling leaves the counter alone, a new minute starts it again,
\* also when there is nothing left in it.
Charged(k) ==
    IF Token(k).scope.rate = Unlimited THEN keys
    ELSE [keys EXCEPT ![k].window = Window, ![k].count = Counted(k) + (IF HasRate(k) THEN 1 ELSE 0)]

\* NodeDelivery hands the sealed MOTE to the node's outbound queue.
Dispatched(k, domain) == Append(dispatched, [key |-> k, domain |-> domain, at |-> now])

\* SendService::send: verify, scope, rate, resolve, seal, dispatch.  The charge stands
\* when the recipient cannot be resolved.
Send(k, domain, resolves) ==
    /\ VerifyKey(k) /\ AuthorizesFrom(Token(k).scope, domain)
    /\ Len(dispatched) < MaxSends
    /\ keys' = Charged(k)
    /\ dispatched' = IF HasRate(k) /\ resolves THEN Dispatched(k, domain) ELSE dispatched
    /\ UNCHANGED <<revocations, now>>

Tick == now < MaxNow /\ now' = now + 1 /\ UNCHANGED <<keys, revocations, dispatched>>

-----------------------------------------------------------------------------
\* The listener.  Only a request that arrives whole, within the size and time
\* limits, is handled; a management route needs the configured admin token too.
Request ==
    [path : {"/v1/send", "/v1/keys", "/v1/keys/rotate", "/v1/keys/revoke"},
     method : {"POST", "OPTIONS"}, admin : BOOLEAN, whole : BOOLEAN]

Received(req) == req.whole
Reaches(req, path) == Received(req) /\ req.path = path /\ req.method = "POST"
Admin(req) == req.admin

HandleIssue(req) ==
    /\ Reaches(req, "/v1/keys") /\ Admin(req)
    /\ \E scope \in Scope, ttl \in Ttl : IssueKey(scope, ttl)
HandleRotate(req) ==
    Reaches(req, "/v1/keys/rotate") /\ Admin(req) /\ \E k \in DOMAIN keys : RotateKey(k)
HandleRevoke(req) ==
    Reaches(req, "/v1/keys/revoke") /\ Admin(req) /\ \E k \in DOMAIN keys : RevokeKey(k)
HandleSend(req) ==
    /\ Reaches(req, "/v1/send")
    /\ \E k \in DOMAIN keys, domain \in Domain, resolves \in BOOLEAN : Send(k, domain, resolves)

Next ==
    \/ \E req \in Request : HandleIssue(req) \/ HandleRotate(req) \/ HandleRevoke(req) \/ HandleSend(req)
    \/ Delegate
    \/ Tick

Spec == Init /\ [][Next]_vars

-----------------------------------------------------------------------------
\* The keys a key descends from, found link by link.
Lineage(k) ==
    LET line[i \in 1..k] == {i} \union (IF keys[i].chain = <<>> THEN {} ELSE line[keys[i].chain[1]])
    IN  line[k]

\* A message leaves only under a key none of whose delegators, however far up, is
\* revoked, out of its time or for another domain.
SentUnderLiveLineage ==
    dispatched' # dispatched =>
        LET m == dispatched'[Len(dispatched')] IN
        \A a \in Lineage(m.key) :
            /\ ~keys[a].revoked
            /\ Token(a).nbf <= now /\ now < Token(a).exp
            /\ AuthorizesFrom(Token(a).scope, m.domain)

\* A key sends no more in a minute than its own ceiling and that of each of its
\* delegators, whether or not the recipients resolved.
KeyRateHolds ==
    \A k \in DOMAIN keys, w \in 0..(MaxNow \div Minute) : \A a \in Lineage(k) :
        Token(a).scope.rate # Unlimited =>
            Cardinality({i \in DOMAIN dispatched :
                            dispatched[i].key = k /\ dispatched[i].at \div Minute = w})
                <= Token(a).scope.rate

\* Every key that is not revoked can be rotated: its replacement always fits under
\* the delegator, also at the end of the delegator's life.
RotationNeverRefused ==
    \A k \in DOMAIN keys : ~keys[k].revoked => VerifyChain(Replacement(k), keys[k].chain)

=============================================================================

------------------------------- MODULE Login --------------------------------
(***************************************************************************)
(* The login ceremony and its sessions (crates/dmtap-auth, node/src/auth.rs*)
(* and Node::login).  A relying party issues challenges; a client signs    *)
(* one with its identity key or a certified device key and keeps a session *)
(* key; the relying party turns the assertion into a session, and checks a *)
(* proof of that key on every request.  Assertions and proofs may arrive   *)
(* late and any number of times; a replay cache forgets what has expired.  *)
(***************************************************************************)
EXTENDS Naturals, FiniteSets, Sequences

CONSTANTS
    Identity, Device,   \* identity keys and device keys
    Cert,               \* device certificates: [ik, key, expires]
    Origin,             \* relying parties' origins, which are also their audiences
    Ttl, Fresh,         \* CHALLENGE_TTL_MS, DPOP_FRESHNESS_MS
    MaxNow, MaxChallenge, MaxProof, MaxUse  \* bounds: the clock, challenges, proofs, acceptances

LoginAssumption ==
    /\ Cert \subseteq [ik : Identity, key : Device, expires : Nat]
    /\ {Ttl, Fresh, MaxNow, MaxChallenge, MaxProof, MaxUse} \subseteq Nat

VARIABLES
    now,
    issued,     \* challenges, by nonce
    sent,       \* assertions on the wire, with the origin their client saw
    proofs,     \* request proofs on the wire, by jti
    seen,       \* InMemoryReplayCache: identifiers reserved, with their expiry
    sessions,   \* BoundSessions
    used        \* every acceptance: of what, when, and when it expires

vars == <<now, issued, sent, proofs, seen, sessions, used>>

Init ==
    /\ now = 0 /\ issued = <<>> /\ sent = {} /\ proofs = <<>>
    /\ seen = {} /\ sessions = {} /\ used = <<>>

Keys == Identity \union Device

\* Challenge::new: a fresh nonce (here its number), and an expiry.  Both wire forms carry
\* every field, and an unknown one is an error.
NewChallenge(o) == [origin |-> o, exp |-> now + Ttl]

\* What is signed is the whole challenge and the hash of the session key; the fields an
\* assertion repeats are the ones of its challenge or it fails, so it is that challenge's.
SignedAssertion(n, key, observed) ==
    [nonce |-> n, from |-> key, cnf |-> <<n, key>>, observed |-> observed]

Challenge(o) ==
    /\ Len(issued) < MaxChallenge
    /\ issued' = Append(issued, NewChallenge(o))
    /\ UNCHANGED <<now, sent, proofs, seen, sessions, used>>

\* Mutant: the client signs for whatever origin it is shown.
OriginMatchesNot(observed, c) == TRUE

OriginMatches(observed, c) == observed = c.origin

\* create_login: the origin the client observes, the user's consent, a new session key.
CreateLogin(n, key, observed) ==
    /\ OriginMatches(observed, issued[n])
    /\ sent' = sent \union {SignedAssertion(n, key, observed)}
    /\ UNCHANGED <<now, issued, proofs, seen, sessions, used>>

\* Mutant: a certificate of any identity will do.
CertifiesAny(c, ik, key) == c.key = key

Certifies(c, ik, key) == c.ik = ik /\ c.key = key

\* DeviceCertAuthorizer::is_authorized
IsAuthorized(ik, key) ==
    key = ik \/ \E c \in Cert : Certifies(c, ik, key) /\ c.expires > now

\* InMemoryReplayCache::check_and_reserve: prune, then look up, then insert.
Kept == {r \in seen : r.exp > now}

CheckAndReserve(id, exp) ==
    /\ Len(used) < MaxUse
    /\ \A r \in Kept : r.id # id
    /\ seen' = Kept \union {[id |-> id, exp |-> exp]}
    /\ used' = Append(used, [id |-> id, at |-> now, exp |-> exp])

\* verify_login, for the identity the relying party pinned: an assertion of another
\* challenge or signed by anybody else is an error before the cache is touched, a replay
\* one that prunes it.
VerifyLogin(ik, o, n, a) ==
    /\ a.nonce = n /\ issued[n].origin = o
    /\ now <= issued[n].exp
    /\ IsAuthorized(ik, a.from)
    /\ \/ /\ CheckAndReserve(<<"nonce", n>>, issued[n].exp)
          /\ sessions' = sessions \union {[subject |-> ik, cnf |-> a.cnf, at |-> now, login |-> a]}
       \/ /\ \E r \in Kept : r.id = <<"nonce", n>>
          /\ seen' = Kept
          /\ UNCHANGED <<sessions, used>>
    /\ UNCHANGED <<now, issued, sent, proofs>>

\* SessionKey::prove
Prove(a, htu) ==
    /\ Len(proofs) < MaxProof
    /\ proofs' = Append(proofs, [key |-> a.cnf, htu |-> htu, iat |-> now])
    /\ UNCHANGED <<now, issued, sent, seen, sessions, used>>

\* Mutant: the identifier of a proof is kept until it was made, not until it goes stale.
JtiExpiryShort(iat) == iat

JtiExpiry(iat) == iat + Fresh

\* BoundSession::verify_request
VerifyRequest(s, j, htu) ==
    /\ proofs[j].key = s.cnf
    /\ proofs[j].htu = htu
    /\ now - proofs[j].iat <= Fresh
    /\ CheckAndReserve(<<"jti", j>>, JtiExpiry(proofs[j].iat))
    /\ UNCHANGED <<now, issued, sent, proofs, sessions>>

Tick == now < MaxNow /\ now' = now + 1 /\ UNCHANGED <<issued, sent, proofs, seen, sessions, used>>

Next ==
    \/ \E o \in Origin : Challenge(o)
    \/ \E n \in DOMAIN issued, key \in Keys, o \in Origin : CreateLogin(n, key, o)
    \/ \E ik \in Identity, o \in Origin, n \in DOMAIN issued, a \in sent : VerifyLogin(ik, o, n, a)
    \/ \E a \in sent, o \in Origin : Prove(a, o)
    \/ \E s \in sessions, j \in DOMAIN proofs, o \in Origin : VerifyRequest(s, j, o)
    \/ Tick

Spec == Init /\ [][Next]_vars

-----------------------------------------------------------------------------
\* A challenge and a proof are accepted once.
SingleUse == \A k, m \in DOMAIN used : used[k].id = used[m].id => k = m

\* A challenge or proof accepted before is accepted again only at the instant it expires,
\* when the cache has just forgotten it and the caller does not refuse it yet.
ReplayOnlyAtExpiry ==
    \A k, m \in DOMAIN used : k < m /\ used[k].id = used[m].id => used[m].at = used[k].exp

\* A session belongs to the identity itself or to a device it certified at that time, and
\* its assertion was made on a client that saw the relying party's own origin.
SessionsAreOwned ==
    \A s \in sessions :
        /\ \/ s.login.from = s.subject
           \/ \E c \in Cert : c.ik = s.subject /\ c.key = s.login.from /\ s.at < c.expires
        /\ s.login.observed = issued[s.login.nonce].origin

\* A session is its owner's, and what made it is not used again before it expires.
LoginsAreOwned == ReplayOnlyAtExpiry /\ SessionsAreOwned

=============================================================================

------------------------------- MODULE Naming -------------------------------
(***************************************************************************)
(* From a name to a pinned key (crates/dmtap-naming: resolver.rs, kt.rs,   *)
(* keypackage.rs, namechain.rs; Node::resolve_and_pin).  Owners sign       *)
(* versions of their identity.  What else a resolution reads changes under *)
(* it at any time and is whatever it finds: the zone's record, the objects *)
(* that can be fetched, the logs that are up, fresh and prove the leaf,    *)
(* the bytes at a key-package locator.  It believes none of them alone.    *)
(***************************************************************************)
EXTENDS Naturals, FiniteSets, Sequences

CONSTANTS
    Addr, Key,          \* canonical addresses, classical identity keys
    Skeleton(_),        \* canonical::skeleton: what an address looks like
    Log,                \* the pinned transparency logs
    Quorum,             \* TRUE: KtMode::V1Quorum, FALSE: V0Single
    MaxIdentity, MaxResolve  \* bounds: identity objects, resolutions

NamingAssumption == {MaxIdentity, MaxResolve} \subseteq Nat /\ IsFiniteSet(Log) /\ Quorum \in BOOLEAN

VARIABLES
    identities, \* every identity object signed, by content address
    pins,       \* InMemoryResolver::pins
    directory,  \* Node::directory: the sealing key of each contact, as the identity it is of
    resolved    \* what was resolved, and how it ended

vars == <<identities, pins, directory, resolved>>

None == 0

Init ==
    /\ identities = <<>> /\ pins = {} /\ resolved = <<>>
    /\ directory = [k \in Key |-> None]

Ids == DOMAIN identities
LastOf(k) == LET mine == {i \in Ids : identities[i].ik = k}
             IN  IF mine = {} THEN None ELSE CHOOSE i \in mine : \A j \in mine : j <= i

\* A new version of an identity: its names, its predecessor, its key package.
SignIdentity(k, names) ==
    /\ Len(identities) < MaxIdentity
    /\ identities' = Append(identities, [ik |-> k, names |-> names, prev |-> LastOf(k)])
    /\ UNCHANGED <<pins, directory, resolved>>

-----------------------------------------------------------------------------
(* InMemoryResolver::resolve of address a: txt is the zone's record, mesh  *)
(* what can be fetched, by the logs that prove the leaf of a and txt.id.   *)

\* Mutant: an identity need not list the address.
ClaimsAny(i, a) == TRUE

Claims(i, a) == a \in identities[i].names

\* check_dns_matches_identity: the record's key is the fetched identity's.
DnsMatches(txt, mesh) == txt.id \in mesh /\ identities[txt.id].ik = txt.ik

\* The predecessors of an identity that can be fetched one after the other.
Walk(i, mesh) ==
    LET hop[n \in 0..MaxIdentity] ==
            IF n = 0 THEN {i}
            ELSE hop[n - 1] \union ({identities[j].prev : j \in hop[n - 1]} \intersect mesh)
    IN  hop[MaxIdentity] \ {i}

\* Mutant: a predecessor that cannot be fetched counts as a revocation.
AliasWasRevokedUnproved(i, a, mesh) == identities[i].prev # None

AliasWasRevoked(i, a, mesh) == \E j \in Walk(i, mesh) : Claims(j, a)

\* Mutant: half of the logs are enough.
QuorumMetHalf(by) == Cardinality(by) * 2 >= Cardinality(Log)

QuorumMet(by) == Cardinality(by) * 2 > Cardinality(Log)

\* With a single log, it is the first one pinned that has to attest.
KtVerified(by) == IF Quorum THEN QuorumMet(by) ELSE (CHOOSE l \in Log : TRUE) \in by

\* Mutant: a look-alike of a pinned name is pinned beside it.
ConfusableNever(a) == FALSE

Confusable(a) == \E p \in pins : Skeleton(p) = Skeleton(a) /\ p # a

Outcome(a, txt, mesh, by) ==
    IF ~DnsMatches(txt, mesh) THEN "mismatch"
    ELSE IF ~Claims(txt.id, a) THEN IF AliasWasRevoked(txt.id, a, mesh) THEN "revoked" ELSE "unverified"
    ELSE IF ~KtVerified(by) THEN "quorum"
    ELSE IF Confusable(a) THEN "confusable" ELSE "ok"

\* Mutant: the bundle at the locator is taken as it is.
BundleMatchesAny(i, bundle) == bundle # None

\* fetch_bundle: the bytes at the locator are the ones the identity's reference names.
BundleMatches(i, bundle) == bundle = i

\* Node::resolve_and_pin for a DNS name: resolve, fetch the key package, pin the contact.
ResolveAndPin(a, txt, mesh, by, bundle) ==
    LET result == Outcome(a, txt, mesh, by)
    IN  /\ Len(resolved) < MaxResolve
        /\ resolved' = Append(resolved, [addr |-> a, id |-> txt.id, end |-> result, by |-> by])
        /\ pins' = IF result = "ok" THEN pins \union {a} ELSE pins
        /\ directory' = IF result = "ok" /\ BundleMatches(txt.id, bundle)
                        THEN [directory EXCEPT ![txt.ik] = bundle] ELSE directory
        /\ UNCHANGED identities

\* NameChainResolver::resolve: the identity claims the name, and the chain's record for the
\* name is its key.
ChainBinds(i, a, record) == Claims(i, a) /\ record = identities[i].ik

\* Node::resolve_name_chain: the sealing key is the caller's.
ResolveNameChain(a, record, i) ==
    /\ Len(resolved) < MaxResolve
    /\ ChainBinds(i, a, record)
    /\ resolved' = Append(resolved, [addr |-> a, id |-> i, end |-> "chain", by |-> {}])
    /\ directory' = [directory EXCEPT ![identities[i].ik] = i]
    /\ UNCHANGED <<identities, pins>>

Next ==
    \/ \E k \in Key, names \in SUBSET Addr : SignIdentity(k, names)
    \/ \E a \in Addr, txt \in [ik : Key, id : Ids], mesh \in SUBSET Ids, by \in SUBSET Log,
          bundle \in Ids \union {None} : ResolveAndPin(a, txt, mesh, by, bundle)
    \/ \E a \in Addr, record \in Key, i \in Ids : ResolveNameChain(a, record, i)

Spec == Init /\ [][Next]_vars

-----------------------------------------------------------------------------
Ok(r) == r.end = "ok"
Past == {resolved[n] : n \in DOMAIN resolved}

\* Two answers for one address were attested by a common log: logs that answer different
\* resolvers differently cannot give an address two keys without one log holding both.
ConflictsAreVisible ==
    Quorum => \A r, s \in Past : Ok(r) /\ Ok(s) /\ r.addr = s.addr => r.by \intersect s.by # {}

\* No two names that look alike are resolved for one user.
NoLookAlikes == \A r, s \in Past : Ok(r) /\ Ok(s) /\ Skeleton(r.addr) = Skeleton(s.addr) => r.addr = s.addr

\* An address is resolved, by DNS or by a chain, only to an identity that lists it; it is
\* said to be revoked only if an older version of that identity did.
AnswersAreClaimed ==
    \A r \in Past :
        /\ r.end \in {"ok", "chain"} => r.addr \in identities[r.id].names
        /\ r.end = "revoked" => \E j \in Ids : /\ identities[j].ik = identities[r.id].ik
                                               /\ j < r.id /\ r.addr \in identities[j].names

\* What mail to a contact is sealed with is a key package of an identity version that was
\* resolved, whichever versions its locator has held since.
SealedToResolved ==
    \A k \in Key : directory[k] # None =>
        \E r \in Past : r.end \in {"ok", "chain"} /\ r.id = directory[k]

\* What a name gives is attested, claimed and unlike any other, and mail is sealed to
\* it.
NamesAreSound ==
    /\ ConflictsAreVisible /\ NoLookAlikes
    /\ AnswersAreClaimed /\ SealedToResolved

=============================================================================

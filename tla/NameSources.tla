---------------------------- MODULE NameSources -----------------------------
(***************************************************************************)
(* The kinds of name and what they resolve to without a zone               *)
(* (crates/dmtap-naming: restype.rs, canonical.rs, reconcile.rs; Node::    *)
(* resolve_key_name and the routing of resolve_and_pin): a name goes by    *)
(* its form to a resolver this node implements, a petname to the local     *)
(* book, a key-name to the keys the node holds, and the answers of several *)
(* resolvers are reconciled.  A spelling is what a user types; canonical   *)
(* form and look are functions of it.                                      *)
(***************************************************************************)
EXTENDS Integers, Sequences

CONSTANTS
    Spelling, Canonical(_), Bad,    \* spellings, canonical_name, and what it refuses
    Skeleton(_),                    \* of a canonical name
    Form(_),                        \* classify_form of a spelling
    Key, KeyName(_),                \* keys, and the canonical name each derives
    MaxAnswers                      \* bound: answers of one reconciliation

SourcesAssumption == MaxAnswers \in Nat

VARIABLES
    book,       \* PetnameBook: the key of each petname
    enabled,    \* ResolverRegistry::enabled
    directory,  \* Node::directory: keys the node holds
    contacts,   \* keys pinned by resolving their key-name
    answers     \* ResolverAnswers

vars == <<book, enabled, directory, contacts, answers>>

NoKey == "none"

Init ==
    /\ book = {} /\ enabled = {"self", "petname", "dns"}
    /\ directory = {} /\ contacts = {} /\ answers = <<>>

\* ResolverKind.
NameKind == {"self", "petname", "dns", "chain"}

\* route: a form nobody knows, a name that cannot be canonical and a kind that is not
\* enabled are refused.
Routes(s, kind) == kind \in NameKind /\ Form(s) = kind /\ Canonical(s) # Bad /\ kind \in enabled

EnableNameChain ==
    /\ enabled' = enabled \union {"chain"}
    /\ UNCHANGED <<book, directory, contacts, answers>>

Petnames == {e.pet : e \in book}

\* Mutant: only the same petname collides.
FindConfusableExact(pet) == {}

FindConfusable(pet) == {p \in Petnames : p # pet /\ Skeleton(p) = Skeleton(pet)}

\* PetnameBook::assign
Assign(s, k) ==
    /\ Canonical(s) # Bad
    /\ FindConfusable(Canonical(s)) = {}
    /\ book' = {e \in book : e.pet # Canonical(s)} \union {[pet |-> Canonical(s), ik |-> k]}
    /\ UNCHANGED <<enabled, directory, contacts, answers>>

\* PetnameBook::resolve: the keys a spelling gives.  The node's own path from a name
\* refuses petnames.
ResolvePetname(s) == {e.ik : e \in {b \in book : b.pet = Canonical(s)}}

LearnKey(k) ==
    /\ directory' = directory \union {k}
    /\ UNCHANGED <<book, enabled, contacts, answers>>

\* Node::resolve_key_name: a key the node holds that derives the very name.
ResolveKeyName(s) ==
    /\ Routes(s, "self")
    /\ \E k \in directory :
        /\ KeyName(k) = Canonical(s)
        /\ contacts' = contacts \union {k}
    /\ UNCHANGED <<book, enabled, directory, answers>>

\* An answer of a resolver: a key, verified or only claimed, or an abstention.
Answer(k, verified) ==
    /\ Len(answers) < MaxAnswers
    /\ k = NoKey => ~verified
    /\ answers' = Append(answers, [key |-> k, verified |-> verified])
    /\ UNCHANGED <<book, enabled, directory, contacts>>

\* Mutant: what was not verified votes too.
VotesClaimed(a) == a.key # NoKey

Votes(a) == a.verified /\ a.key # NoKey

\* reconcile: the answers in order, until two that vote differ.
Reconcile(as) ==
    LET upTo[n \in 0..Len(as)] ==
            IF n = 0 THEN [end |-> "miss", ik |-> NoKey]
            ELSE IF upTo[n - 1].end = "disagree" \/ ~Votes(as[n]) THEN upTo[n - 1]
            ELSE IF upTo[n - 1].end = "ok" /\ upTo[n - 1].ik # as[n].key
                 THEN [end |-> "disagree", ik |-> NoKey]
            ELSE [end |-> "ok", ik |-> as[n].key]
    IN  upTo[Len(as)]

Next ==
    \/ EnableNameChain
    \/ \E s \in Spelling, k \in Key : Assign(s, k)
    \/ \E s \in Spelling : ResolveKeyName(s)
    \/ \E k \in Key : LearnKey(k)
    \/ \E k \in Key \union {NoKey}, v \in BOOLEAN : Answer(k, v)

Spec == Init /\ [][Next]_vars

-----------------------------------------------------------------------------
\* No two petnames look alike, so the key a petname gives is the one the user assigned
\* to what they see; a key-name gives a key the node holds that derives it.
NamesAreUnambiguous ==
    /\ \A p, q \in Petnames : Skeleton(p) = Skeleton(q) => p = q
    /\ \A s, t \in Spelling : Canonical(s) # Bad /\ Skeleton(Canonical(s)) = Skeleton(Canonical(t)) =>
           ResolvePetname(s) \subseteq ResolvePetname(t) \/ ResolvePetname(t) = {}
    /\ \A c \in contacts : \E s \in Spelling : Canonical(s) = KeyName(c) /\ Form(s) = "self"

\* The outcome of a reconciliation is that of the set of verified keys: it does not depend
\* on the order of the answers, nor on anything unverified.
ReconcileIsOrderFree ==
    LET keys == {answers[n].key : n \in {m \in DOMAIN answers : answers[m].verified}} \ {NoKey}
        r == Reconcile(answers)
    IN  /\ keys = {} <=> r.end = "miss"
        /\ r.end = "ok" <=> keys = {r.ik}
        /\ \A m, n \in DOMAIN answers :
               Reconcile([answers EXCEPT ![m] = answers[n], ![n] = answers[m]]) = r

\* Local names are unambiguous, and answers are reconciled whatever their order.
SourcesAreSound == NamesAreUnambiguous /\ ReconcileIsOrderFree

=============================================================================

---------------------------- MODULE DoubleRatchet ---------------------------
(***************************************************************************)
(* A deniable session between an initiator "a" and a responder "b"         *)
(* (crates/dmtap-deniable/src/ratchet.rs, session.rs): every message has   *)
(* its own key, from a chain that restarts whenever a new ratchet key of   *)
(* the peer arrives.  Messages may be lost, repeated, or come in any       *)
(* order.  Keys are terms: a root key is the sequence of Diffie-Hellman    *)
(* results it was derived from, a chain or message key the root key and    *)
(* the number of steps taken since, so two keys are equal exactly when     *)
(* they were derived alike.                                                *)
(***************************************************************************)
EXTENDS Integers, FiniteSets, Sequences

CONSTANTS
    MaxSkip,        \* MAX_SKIP
    MaxSkipped,     \* MAX_SKIPPED_KEYS
    MaxSent         \* bound: messages of each party

RatchetAssumption == {MaxSkip, MaxSkipped, MaxSent} \subseteq Nat

VARIABLES
    ratchet,    \* the DoubleRatchet of each party
    accepted,   \* the responder has a session
    sent,       \* every message made, with the key it was sealed under
    opened      \* history: messages decrypted

vars == <<ratchet, accepted, sent, opened>>

Party == {"a", "b"}
Other(p) == IF p = "a" THEN "b" ELSE "a"

NoKey == <<"none", 0>>
NoChain == [root |-> <<>>, step |-> -1]
Spk == <<"b", 0>>
Dh(x, y) == {x, y}
Chain(root) == [root |-> root, step |-> 0]
KdfCk(ck) == [ck EXCEPT !.step = @ + 1]

InitAlice ==
    LET key == <<"a", 0>>  root == <<Dh(key, Spk)>> IN
    [rk |-> root, dhs |-> key, dhr |-> Spk, cks |-> Chain(root), ckr |-> NoChain,
     ns |-> 0, nr |-> 0, pn |-> 0, skipped |-> {}]

InitBob ==
    [rk |-> <<>>, dhs |-> Spk, dhr |-> NoKey, cks |-> NoChain, ckr |-> NoChain,
     ns |-> 0, nr |-> 0, pn |-> 0, skipped |-> {}]

-----------------------------------------------------------------------------
\* Sending.

Sealed(p, r) ==
    [to |-> Other(p), dh |-> r.dhs, pn |-> r.pn, n |-> r.ns, key |-> r.cks,
     at |-> Cardinality({m \in sent : m.to = Other(p)})]

\* Mutant: the sending chain is not stepped.
EncryptedSameKey(r) == [r EXCEPT !.ns = @ + 1]

Encrypted(r) == [r EXCEPT !.ns = @ + 1, !.cks = KdfCk(@)]

Encrypt(p) ==
    /\ p = "b" => accepted
    /\ Cardinality({m \in sent : m.to = Other(p)}) < MaxSent
    /\ sent' = sent \cup {Sealed(p, ratchet[p])}
    /\ ratchet' = [ratchet EXCEPT ![p] = Encrypted(@)]
    /\ UNCHANGED <<accepted, opened>>

-----------------------------------------------------------------------------
\* Receiving.

\* Mutant: only the keys of one gap are counted.
SkipFailsPerGap(r, until) ==
    until > r.nr /\ (until - r.nr > MaxSkip \/ r.ckr = NoChain)

SkipFails(r, until) ==
    /\ until > r.nr
    /\ \/ until - r.nr > MaxSkip
       \/ r.ckr = NoChain
       \/ Cardinality(r.skipped) + until - r.nr > MaxSkipped

\* The keys of the messages passed over are kept; moving back does nothing.
Skip(r, until) ==
    IF until <= r.nr THEN r
    ELSE [r EXCEPT
            !.skipped = @ \cup {[dh |-> r.dhr, n |-> k,
                                 key |-> [r.ckr EXCEPT !.step = @ + k - r.nr]] :
                                k \in r.nr..(until - 1)},
            !.ckr.step = @ + until - r.nr,
            !.nr = until]

\* Mutant: the ratchet key pair is not rolled.
DhRatchetKeepsKey(r, dh) ==
    LET root == Append(r.rk, Dh(r.dhs, dh)) IN
    [r EXCEPT !.pn = r.ns, !.ns = 0, !.nr = 0, !.dhr = dh,
              !.ckr = Chain(root), !.rk = root, !.cks = Chain(root)]

\* dh_ratchet: new receiving chain, new key pair, new sending chain.
DhRatchet(r, dh) ==
    LET root == Append(r.rk, Dh(r.dhs, dh))
        fresh == <<r.dhs[1], r.dhs[2] + 1>>
        next == Append(root, Dh(fresh, dh))
    IN  [r EXCEPT !.pn = r.ns, !.ns = 0, !.nr = 0, !.dhr = dh,
                  !.ckr = Chain(root), !.dhs = fresh, !.rk = next, !.cks = Chain(next)]

\* Mutant: a key that was kept can be used again.
TakeKeyKeeps(r, late) == r

TakeKey(r, late) == [r EXCEPT !.skipped = @ \ late]

\* decrypt_staged: the state it leaves on the copy, and whether the tag of the
\* message verifies under the key it arrives at.
DecryptStaged(r, m) ==
    LET late == {k \in r.skipped : k.dh = m.dh /\ k.n = m.n}
        turns == r.dhr # m.dh
        turned == IF turns THEN DhRatchet(Skip(r, m.pn), m.dh) ELSE r
        there == Skip(turned, m.n)
    IN  IF late # {}
        THEN [ok |-> \A k \in late : k.key = m.key, next |-> TakeKey(r, late)]
        ELSE [ok   |-> /\ ~(turns /\ SkipFails(r, m.pn))
                       /\ ~SkipFails(turned, m.n)
                       /\ there.ckr = m.key,
              next |-> [there EXCEPT !.ckr = KdfCk(@), !.nr = @ + 1]]

\* Mutant: the copy is kept whether or not the tag verifies.
CommittedAlways(r, staged) == staged.next

\* The copy replaces the session only when the tag verifies.
Committed(r, staged) == IF staged.ok THEN staged.next ELSE r

Decrypt(m) ==
    LET staged == DecryptStaged(ratchet[m.to], m) IN
    /\ m.to = "b" => accepted
    /\ ratchet' = [ratchet EXCEPT ![m.to] = Committed(@, staged)]
    /\ opened' = IF staged.ok THEN opened \cup {m} ELSE opened
    /\ UNCHANGED <<accepted, sent>>

\* The responder's session starts with the message inside the init.
Accept(m) ==
    LET staged == DecryptStaged(InitBob, m) IN
    /\ ~accepted /\ m.to = "b" /\ m.at = 0
    /\ staged.ok
    /\ accepted' = TRUE
    /\ ratchet' = [ratchet EXCEPT !["b"] = staged.next]
    /\ opened' = opened \cup {m}
    /\ UNCHANGED sent

\* The initiator has run initiate, which seals the first message.
Init ==
    /\ ratchet = [p \in Party |-> IF p = "a" THEN Encrypted(InitAlice) ELSE InitBob]
    /\ accepted = FALSE
    /\ sent = {[to |-> "b", dh |-> InitAlice.dhs, pn |-> 0, n |-> 0,
                key |-> InitAlice.cks, at |-> 0]}
    /\ opened = {}

Next == (\E p \in Party : Encrypt(p)) \/ (\E m \in sent : Decrypt(m) \/ Accept(m))

Spec == Init /\ [][Next]_vars

-----------------------------------------------------------------------------
\* Messages to the same party that were sent before m and are still missing.
Missing(m) == {x \in sent \ opened : x.to = m.to /\ x.at < m.at}

WithinLimits(m) ==
    /\ Cardinality(Missing(m)) <= MaxSkipped
    /\ \A dh \in {x.dh : x \in Missing(m)} :
         Cardinality({x \in Missing(m) : x.dh = dh}) <= MaxSkip

\* Every message that was sent and not opened yet can be opened now, whatever
\* arrived before it in whatever order, unless too many before it are missing:
\* both parties derive the same key for it, and no refused message spoils that.
EveryMessageOpens ==
    \A m \in sent \ opened :
        (m.to = "b" => accepted) /\ WithinLimits(m) => DecryptStaged(ratchet[m.to], m).ok

\* No message can be opened a second time, and no key of one is kept.
OpenedKeysAreGone ==
    \A m \in opened :
        /\ ~DecryptStaged(ratchet[m.to], m).ok
        /\ \A k \in ratchet[m.to].skipped : k.key # m.key

\* No two messages are ever sealed under the same key.
KeysAreFresh ==
    \A m, x \in sent : m.key = x.key => m = x

\* The kept keys stay within the bound over the whole session, however many
\* chains leave gaps.
SkippedBounded ==
    \A p \in Party : Cardinality(ratchet[p].skipped) <= MaxSkipped

\* A message of the peer under the ratchet key already known never meets a
\* session without a receiving chain (the "expect" in decrypt_staged).
ReceivingChainExists ==
    \A m \in sent : (m.to = "b" => accepted) /\ ratchet[m.to].dhr = m.dh
        => ratchet[m.to].ckr # NoChain

\* A session over a network that loses, repeats and reorders: what can be opened opens,
\* once, and keys are fresh and go.
RatchetIsSound ==
    /\ ReceivingChainExists /\ EveryMessageOpens
    /\ OpenedKeysAreGone /\ KeysAreFresh
    /\ SkippedBounded

=============================================================================

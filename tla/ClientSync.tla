----------------------------- MODULE ClientSync ------------------------------
(***************************************************************************)
(* The web client's bridge to its node (client/js/net/sync.js, jmap.js):   *)
(* connect, disconnect and syncNow, each an async function that gives way  *)
(* at every await, over one mail store. The node's mailbox changes         *)
(* meanwhile and any call may fail. Mail is a set of records: emails of    *)
(* the node, records that exist only in this client (drafts, and sent      *)
(* copies that the node may come to serve under the id of their receipt)   *)
(* and the seed of the simulation.                                         *)
(***************************************************************************)
EXTENDS Naturals, FiniteSets

CONSTANTS
    Email,      \* ids the node gives to emails
    Op,         \* async calls that may be in flight at once
    NoToken,    \* a sessionState that is not there
    Patient,    \* whether the user waits for a sync before asking for another
    MaxVersion, MaxLocal, MaxEpoch  \* bounds: changes of the node's mailbox, local
                                    \* records, connects and disconnects

ClientAssumption == {MaxVersion, MaxLocal, MaxEpoch} \subseteq Nat

VARIABLES
    emails, version,    \* the node's mailbox, and its state token
    mode, token, mail,  \* state.net.mode, state.net.sessionState, state.mail
    client, session,    \* state.net.client, and the session each client has read: a
                        \* client is named by the connect that made it
    epoch,              \* connEpoch
    written,            \* local records written so far
    ops                 \* the calls in flight

node == <<emails, version>>
net == <<mode, token, mail, client>>
vars == <<emails, version, mode, token, mail, client, session, epoch, written, ops>>

Served(e) == [is |-> "served", id |-> e, n |-> 0]
Draft(n) == [is |-> "draft", id |-> NoToken, n |-> n]
Sent(e, n) == [is |-> "sent", id |-> e, n |-> n]
Seed == [is |-> "seed", id |-> NoToken, n |-> 0]

Local(m) == m.is \in {"draft", "sent"}

\* The client and, for a sync, the token of the moment it began.
NoOp == [kind |-> "none", at |-> "none", client |-> 0, wasReal |-> FALSE,
         token |-> NoToken, pulled |-> {}]

Init ==
    /\ emails = {} /\ version = 0
    /\ mode = "sim" /\ token = NoToken /\ mail = {Seed}
    /\ client = 0 /\ session = [c \in 1..MaxEpoch |-> NoToken]
    /\ epoch = 0 /\ written = 0
    /\ ops = [o \in Op |-> NoOp]

-----------------------------------------------------------------------------
\* The node's mailbox: an email arrives or goes.
NodeChanges(e) ==
    /\ version < MaxVersion /\ version' = version + 1
    /\ emails' = IF e \in emails THEN emails \ {e} ELSE emails \union {e}
    /\ UNCHANGED <<net, session, epoch, written, ops>>

\* compose.js: a draft, or in real mode a sent copy with the id of the node's receipt.
Compose ==
    /\ written < MaxLocal /\ written' = written + 1
    /\ \/ mail' = mail \union {Draft(written')}
       \/ /\ mode = "real"
          /\ \E e \in Email : mail' = mail \union {Sent(e, written')}
    /\ UNCHANGED <<node, mode, token, client, session, epoch, ops>>

-----------------------------------------------------------------------------
\* connect: a client of its own, and whether the mode was real when it began.
Connect(o) ==
    /\ ops[o] = NoOp /\ epoch < MaxEpoch
    /\ epoch' = epoch + 1
    /\ ops' = [ops EXCEPT ![o] = [NoOp EXCEPT !.kind = "connect", !.at = "discover",
                                              !.client = epoch', !.wasReal = (mode = "real")]]
    /\ UNCHANGED <<node, net, session, written>>

\* disconnect, and the settings view's new seed.
Disconnect ==
    /\ mode = "real" /\ epoch < MaxEpoch
    /\ epoch' = epoch + 1
    /\ mode' = "sim" /\ token' = NoToken /\ mail' = {Seed} /\ client' = 0
    /\ UNCHANGED <<node, session, written, ops>>

Syncing == {o \in Op : ops[o].kind = "sync"}

\* syncNow: with a token it asks for changes first.
SyncNow(o) ==
    /\ ops[o] = NoOp /\ mode = "real"
    /\ Patient => Syncing = {}
    /\ ops' = [ops EXCEPT ![o] = [NoOp EXCEPT !.kind = "sync", !.client = client, !.token = token,
                                   !.at = IF token = NoToken THEN "discover" ELSE "changes"]]
    /\ UNCHANGED <<node, net, session, epoch, written>>

\* Email/changes since the token: nothing to do, or a full pull.
AskChanges(o) ==
    /\ ops[o].at = "changes"
    /\ ops' = [ops EXCEPT ![o] = IF ops[o].token = version THEN NoOp ELSE [@ EXCEPT !.at = "discover"]]
    /\ UNCHANGED <<node, net, session, epoch, written>>

\* pullMail: the session, which the client keeps, then the emails, with an await after each.
Discover(o) ==
    /\ ops[o].at = "discover"
    /\ session' = [session EXCEPT ![ops[o].client] = version]
    /\ ops' = [ops EXCEPT ![o].at = "emails"]
    /\ UNCHANGED <<node, net, epoch, written>>

EmailQueryGet(o) ==
    /\ ops[o].at = "emails"
    /\ ops' = [ops EXCEPT ![o].pulled = emails, ![o].at = "apply"]
    /\ UNCHANGED <<node, net, session, epoch, written>>

\* Mutant: the token of the moment the pull is applied.
PulledTokenLate(op) == version

\* The token that goes with the pull: whatever session the client has by now.
PulledToken(op) == session[op.client]

Threads(op) == {Served(e) : e \in op.pulled}

\* Mutant: a local record goes when its id is anywhere in the pull, and so do those without.
MergeLocalMailDropping(op) == Threads(op) \union {m \in mail : m.is = "sent" /\ m.id \notin op.pulled}

\* mergeLocalMail: what is local stays until the node serves it.
MergeLocalMail(op) == Threads(op) \union {m \in mail : Local(m) /\ m.id \notin op.pulled}

\* Mutant: a connect that another call has overtaken is applied.
CurrentAlways(op) == TRUE

Current(op) == op.client = epoch

\* The rest of connect, once its pull is there.
ApplyConnect(o) ==
    LET op == ops[o] IN
    /\ op.kind = "connect" /\ op.at = "apply"
    /\ ops' = [ops EXCEPT ![o] = NoOp]
    /\ IF Current(op)
       THEN /\ mail' = IF op.wasReal THEN MergeLocalMail(op) ELSE Threads(op)
            /\ mode' = "real" /\ token' = PulledToken(op) /\ client' = op.client
       ELSE UNCHANGED net
    /\ UNCHANGED <<node, session, epoch, written>>

\* The rest of syncNow, which looks at no epoch.
ApplySync(o) ==
    LET op == ops[o] IN
    /\ op.kind = "sync" /\ op.at = "apply"
    /\ ops' = [ops EXCEPT ![o] = NoOp]
    /\ mail' = MergeLocalMail(op) /\ token' = PulledToken(op)
    /\ UNCHANGED <<node, mode, client, session, epoch, written>>

\* A call fails: connect falls back to the simulation and leaves the store, syncNow only
\* reports.
Fails(o) ==
    /\ ops[o].kind # "none" /\ ops[o].at # "apply"
    /\ ops' = [ops EXCEPT ![o] = NoOp]
    /\ IF ops[o].kind = "connect" /\ Current(ops[o])
       THEN mode' = "sim" /\ client' = 0 /\ UNCHANGED <<token, mail>>
       ELSE UNCHANGED net
    /\ UNCHANGED <<node, session, epoch, written>>

Next ==
    \/ \E e \in Email : NodeChanges(e)
    \/ Compose \/ Disconnect
    \/ \E o \in Op : \/ Connect(o) \/ SyncNow(o) \/ AskChanges(o)
                     \/ Discover(o) \/ EmailQueryGet(o) \/ ApplyConnect(o) \/ ApplySync(o) \/ Fails(o)

Spec == Init /\ [][Next]_vars

-----------------------------------------------------------------------------
\* A token is never ahead of the mail it stands beside: when it is the node's, every email
\* of the node is there, so that "nothing changed" may be believed. Two pulls through one
\* client would break it: the first to end takes the other's session for its own.
TokenNotAhead ==
    mode = "real" /\ token = version => {m.id : m \in {x \in mail : x.is = "served"}} = emails

\* While the mode is real no record that only this client has is lost, but to the node's
\* own copy of it.
LocalStays ==
    mode = "real" /\ mode' = "real" =>
        \A m \in mail : Local(m) => m \in mail' \/ m.id \in {x.id : x \in mail'}

\* "A RE-connect from real mode must not destroy locally-originated threads".  A reconnect
\* that fails sets the mode to sim, and the next one replaces the mail: the code does not
\* keep this.
LocalSurvivesReconnect ==
    (\E o \in Op : ApplyConnect(o)) =>
        \A m \in mail : m.is = "sent" => m \in mail' \/ m.id \in {x.id : x \in mail'}

=============================================================================

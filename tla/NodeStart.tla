----------------------------- MODULE NodeStart ------------------------------
(***************************************************************************)
(* An identity's life on disk and the daemon that serves it                *)
(* (node/src/main.rs, keystore.rs, daemon.rs, config.rs).  `init` draws an *)
(* identity and puts it in the keystore file by way of keystore.tmp;       *)
(* `record` prints its DNS record; `run` reads the keystore once for the   *)
(* node and again for every service it opens.  Commands are separate       *)
(* processes that may die between any two file-system calls, each with     *)
(* the environment it was started with; one `init` runs at a time.         *)
(***************************************************************************)
EXTENDS Naturals, Sequences, SequencesExt

CONSTANTS
    Passphrase, NoPass,     \* the values of ENVOIR_PASSPHRASE, and its absence
    MaxIdentity             \* bound: identities drawn

StartAssumption == NoPass \notin Passphrase /\ MaxIdentity \in Nat

VARIABLES
    file, tmp,  \* keystore.json and keystore.tmp
    drawn,      \* identities drawn so far: each is a new one
    init,       \* the init command that is running
    printed,    \* records printed for an operator to publish
    daemon      \* the daemon that is starting or running

vars == <<file, tmp, drawn, init, printed, daemon>>

\* A file of the keystore format: an identity, its passphrase, its mode and whether its
\* bytes are all there.
None == [id |-> 0, pw |-> NoPass, private |-> FALSE, whole |-> FALSE]
Keystore(id, pw) == [id |-> id, pw |-> pw, private |-> FALSE, whole |-> TRUE]

Exists(f) == f # None

\* Keystore::load: a plaintext file needs no passphrase, a sealed one its own, and nothing
\* is ever regenerated.
Loads(f, pw) == f.whole /\ f.pw \in {NoPass, pw}

\* The services of serve, in the order it opens them; the JMAP API uses the node's address,
\* the others read the keystore again.
Services == <<"send", "jmap", "pub", "sync">>

\* What from_env leaves to choose: the services enabled, a loopback JMAP bind, a passphrase,
\* and whether standard input is a supervisor's.
Config == [enabled : SUBSET Range(Services), loopback : BOOLEAN,
           pw : Passphrase \union {NoPass}, supervised : BOOLEAN]

\* jmap_bind_is_loopback: without TLS the JMAP API is for this host only.
MayServeJmap(c) == c.loopback

\* The record of an identity: made of keystore fields only, so it is the same whenever and
\* by whichever command it is printed.
DmtapTxtRecord(id) == [ik |-> id]

Idle == [at |-> "idle", id |-> 0, pw |-> NoPass, force |-> FALSE]
Off == [at |-> 0, owner |-> [s \in {"mesh"} |-> 0], config |-> <<>>, replaced |-> FALSE, eof |-> FALSE]

Init ==
    /\ file = None /\ tmp = None /\ drawn = 0
    /\ init = Idle /\ printed = {} /\ daemon = Off

-----------------------------------------------------------------------------
\* Mutant: an existing keystore is not looked for.
MayReplaceAlways(force) == TRUE

MayReplace(force) == Exists(file) => force

InitIdentity(force, pw) ==
    /\ init = Idle
    /\ MayReplace(force)
    /\ drawn < MaxIdentity
    /\ drawn' = drawn + 1
    /\ init' = [at |-> "save", id |-> drawn + 1, pw |-> pw, force |-> force]
    /\ UNCHANGED <<file, tmp, printed, daemon>>

\* Mutant: the keystore is written in place.
WritesInPlace(f) == file' = f /\ UNCHANGED tmp

Writes(f) == tmp' = f /\ UNCHANGED file

\* fs::write truncates and fills: a death in between leaves some of the bytes.
WriteTmp ==
    /\ init.at = "save"
    /\ \/ /\ Writes(Keystore(init.id, init.pw))
          /\ init' = [init EXCEPT !.at = "written"]
       \/ /\ Writes([Keystore(init.id, init.pw) EXCEPT !.whole = FALSE])
          /\ init' = Idle
    /\ UNCHANGED <<drawn, printed, daemon>>

\* Mutant: the mode is not changed.
Private0600Not(f) == f

Private0600(f) == [f EXCEPT !.private = TRUE]

SetPermissions ==
    /\ init.at = "written"
    /\ tmp' = Private0600(tmp)
    /\ init' = [init EXCEPT !.at = "private"]
    /\ UNCHANGED <<file, drawn, printed, daemon>>

Rename ==
    /\ init.at = "private"
    /\ file' = tmp /\ tmp' = None
    /\ init' = [init EXCEPT !.at = "print"]
    /\ daemon' = [daemon EXCEPT !.replaced = @ \/ init.force]
    /\ UNCHANGED <<drawn, printed>>

\* Mutant: the record is printed as soon as there is an identity.
SavedEarly == init # Idle

Saved == init.at = "print"

\* The record is made from the keystore in memory, not from the file.
PrintNew ==
    /\ Saved
    /\ printed' = printed \union {DmtapTxtRecord(init.id)}
    /\ init' = Idle
    /\ UNCHANGED <<file, tmp, drawn, daemon>>

InitDies == init # Idle /\ init' = Idle /\ UNCHANGED <<file, tmp, drawn, printed, daemon>>

PrintRecord(pw) ==
    /\ Exists(file) /\ Loads(file, pw)
    /\ printed' = printed \union {DmtapTxtRecord(file.id)}
    /\ UNCHANGED <<file, tmp, drawn, init, daemon>>

-----------------------------------------------------------------------------
\* load_node: the keystore, then the bind and the journal, any of which may fail.
LoadNode(c) ==
    /\ daemon.at = 0
    /\ Exists(file) /\ Loads(file, c.pw)
    /\ daemon' = [at |-> 1, owner |-> [s \in {"mesh"} |-> file.id], config |-> c,
                  replaced |-> FALSE, eof |-> FALSE]
    /\ UNCHANGED <<file, tmp, drawn, init, printed>>

Opened(s, id) == [at |-> daemon.at + 1,
                  owner |-> [t \in DOMAIN daemon.owner \union {s} |-> IF t = s THEN id ELSE daemon.owner[t]],
                  config |-> daemon.config, replaced |-> daemon.replaced, eof |-> FALSE]

\* serve, one service: a keystore that no longer loads, a JMAP bind that is not loopback
\* and a failed listener end the daemon.
OpenService ==
    /\ daemon.at \in 1..Len(Services)
    /\ LET s == Services[daemon.at]
           c == daemon.config
       IN  \/ s \notin c.enabled /\ daemon' = [daemon EXCEPT !.at = @ + 1]
           \/ s = "jmap" /\ s \in c.enabled /\ MayServeJmap(c) /\ daemon' = Opened(s, daemon.owner["mesh"])
           \/ s # "jmap" /\ s \in c.enabled /\ Loads(file, c.pw) /\ daemon' = Opened(s, file.id)
    /\ UNCHANGED <<file, tmp, drawn, init, printed>>

\* An error of load_node or serve, a signal, or a crash.
DaemonEnds ==
    /\ daemon.at # 0
    /\ daemon' = Off
    /\ UNCHANGED <<file, tmp, drawn, init, printed>>

Up == daemon.at = Len(Services) + 1

\* The thread of watch_reader_eof raises the flag; shutdown_signal_supervised polls it.
StdinCloses ==
    /\ Up /\ daemon.config.supervised /\ ~daemon.eof
    /\ daemon' = [daemon EXCEPT !.eof = TRUE]
    /\ UNCHANGED <<file, tmp, drawn, init, printed>>

Next ==
    \/ \E force \in BOOLEAN, pw \in Passphrase \union {NoPass} : InitIdentity(force, pw)
    \/ WriteTmp \/ SetPermissions \/ Rename \/ PrintNew \/ InitDies
    \/ \E pw \in Passphrase \union {NoPass} : PrintRecord(pw)
    \/ \E c \in Config : LoadNode(c)
    \/ OpenService \/ DaemonEnds \/ StdinCloses

Spec == Init /\ [][Next]_vars

-----------------------------------------------------------------------------
\* Whatever dies when, the keystore is absent or whole and readable by its owner only: a
\* torn identity cannot be drawn again.
KeystoreWhole == Exists(file) => file.whole /\ file.private

\* Every service of a running daemon belongs to the identity of its mesh address, unless
\* a forced init replaced the keystore while it started.
OwnersAgree == Up /\ ~daemon.replaced => \A s \in DOMAIN daemon.owner : daemon.owner[s] = daemon.owner["mesh"]

\* An identity whose record was printed, for an operator to publish, is one the keystore
\* holds, or held before a later one replaced it: never one that died with init.
PrintedIsStored == \A r \in printed : Exists(file) /\ r.ik <= file.id

\* The node's identity survives what may stop it, and is one for all its services.
IdentityIsKept == KeystoreWhole /\ OwnersAgree /\ PrintedIsStored

=============================================================================

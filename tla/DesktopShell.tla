---------------------------- MODULE DesktopShell -----------------------------
(***************************************************************************)
(* The desktop shell (desktop/src-tauri/src/lib.rs): it keeps its secrets  *)
(* in files, starts envoir-node as a child, asks it for a send token over  *)
(* HTTP and hands password and token to the window. The shell may quit,    *)
(* panic or be killed at any step and be launched again while the node of  *)
(* the launch before is still on its way out; all nodes want the same      *)
(* ports. One shell runs at a time. Node n is the child of launch n.       *)
(***************************************************************************)
EXTENDS Naturals

CONSTANTS
    MaxLaunches, MaxTokens,     \* bounds: launches, send keys minted
    Attempts                    \* SEND_TOKEN_ATTEMPTS

ShellAssumption == {MaxLaunches, MaxTokens, Attempts} \subseteq Nat \ {0}

VARIABLES
    password, admin,    \* the secret files: the launch that drew the secret, 0 without one
    keystore,           \* the node's keystore exists
    saved,              \* the send-token file, 0 without one
    launch,             \* launches so far
    pc, tries,          \* the shell's next step, and attempts at a token so far
    token,              \* what provision_send_token found, 0 for none
    minted,
    nodes,              \* the children
    met                 \* nodes that were serving at some moment of this launch

files == <<password, admin, keystore, saved>>
vars == <<password, admin, keystore, saved, launch, pc, tries, token, minted, nodes, met>>

NoNode == [is |-> "none", password |-> 0, admin |-> 0, keys |-> {}, supervised |-> FALSE, eof |-> FALSE]

Init ==
    /\ password = 0 /\ admin = 0 /\ keystore = FALSE /\ saved = 0
    /\ launch = 0 /\ pc = "off" /\ tries = 0 /\ token = 0 /\ minted = 0
    /\ nodes = [n \in 1..MaxLaunches |-> NoNode] /\ met = {}

Serving == {n \in DOMAIN nodes : nodes[n].is = "serving"}
Alive == {n \in DOMAIN nodes : nodes[n].is \in {"starting", "serving"}}

Goes(p) == pc' = p

-----------------------------------------------------------------------------
Launch ==
    /\ pc = "off" /\ launch < MaxLaunches
    /\ launch' = launch + 1 /\ Goes("password") /\ tries' = 0 /\ token' = 0
    /\ met' = Serving
    /\ UNCHANGED <<files, minted, nodes>>

\* Mutant: every launch draws its secrets anew.
LoadOrCreateAnew(file) == launch

\* load_or_create_secret: a file that holds anything is kept.
LoadOrCreate(file) == IF file = 0 THEN launch ELSE file

LoadPassword ==
    /\ pc = "password"
    /\ password' = LoadOrCreate(password) /\ Goes("admin")
    /\ UNCHANGED <<admin, keystore, saved, launch, tries, token, minted, nodes, met>>

LoadAdmin ==
    /\ pc = "admin"
    /\ admin' = LoadOrCreate(admin) /\ Goes("init")
    /\ UNCHANGED <<password, keystore, saved, launch, tries, token, minted, nodes, met>>

\* run_node_init, when there is no keystore; a failure is fatal (Panic).
RunNodeInit ==
    /\ pc = "init"
    /\ keystore' = TRUE /\ Goes("spawn")
    /\ UNCHANGED <<password, admin, saved, launch, tries, token, minted, nodes, met>>

\* Mutant: the child is not told that it is supervised.
NodeEnvPlain(n) == [NoNode EXCEPT !.is = "starting", !.password = password, !.admin = admin]

\* node_env: what the child is given.
NodeEnv(n) == [NoNode EXCEPT !.is = "starting", !.password = password, !.admin = admin,
                             !.supervised = TRUE]

SpawnNodeRun ==
    /\ pc = "spawn"
    /\ nodes' = [nodes EXCEPT ![launch] = NodeEnv(launch)]
    /\ Goes("verify")
    /\ UNCHANGED <<files, launch, tries, token, minted, met>>

-----------------------------------------------------------------------------
\* The next attempt, or none left.
TryAgain == IF tries + 1 < Attempts THEN tries' = tries + 1 /\ Goes("verify")
                                    ELSE UNCHANGED tries /\ Goes("window")

\* Mutant: a token from the file is used without asking the node.
HonouredUnasked(n) == saved # 0

\* POST /v1/keys/verify at whichever node has the port.
Honoured(n) == saved \in nodes[n].keys

\* One attempt of provision_send_token: verify what was persisted.
Verify ==
    /\ pc = "verify"
    /\ IF saved = 0 THEN Goes("mint") /\ UNCHANGED <<tries, token>>
       ELSE \/ Serving = {} /\ TryAgain /\ UNCHANGED token
            \/ \E n \in Serving :
                  CASE nodes[n].admin # admin -> Goes("window") /\ UNCHANGED <<tries, token>>
                    [] Honoured(n) -> token' = saved /\ Goes("window") /\ UNCHANGED tries
                    [] OTHER -> Goes("mint") /\ UNCHANGED <<tries, token>>
    /\ UNCHANGED <<files, launch, minted, nodes, met>>

\* POST /v1/keys, and the file, whose write may fail.
Mint ==
    /\ pc = "mint"
    /\ \/ /\ Serving = {}
          /\ TryAgain /\ UNCHANGED <<saved, token, minted, nodes>>
       \/ \E n \in Serving :
             IF nodes[n].admin # admin
             THEN Goes("window") /\ UNCHANGED <<saved, tries, token, minted, nodes>>
             ELSE /\ minted < MaxTokens /\ minted' = minted + 1
                  /\ nodes' = [nodes EXCEPT ![n].keys = @ \union {minted'}]
                  /\ saved' \in {saved, minted'}
                  /\ token' = minted' /\ Goes("window") /\ UNCHANGED tries
    /\ UNCHANGED <<password, admin, keystore, launch, met>>

\* The window is built with the password and the token.
BuildWindow ==
    /\ pc = "window"
    /\ Goes("running")
    /\ UNCHANGED <<files, launch, tries, token, minted, nodes, met>>

-----------------------------------------------------------------------------
\* kill_node: the child that is in NODE_CHILD gets SIGKILL.
KillNode == nodes' = [nodes EXCEPT ![launch].is = IF @ = "none" THEN @ ELSE "gone"]

\* RunEvent::Exit, or the panic hook at any step before: a setup that fails ends here too.
Quit ==
    /\ pc # "off"
    /\ KillNode /\ Goes("off")
    /\ UNCHANGED <<files, launch, tries, token, minted, met>>

\* The shell is killed: nothing of it runs, but the kernel closes the child's stdin.
Killed ==
    /\ pc # "off"
    /\ Goes("off")
    /\ nodes' = [nodes EXCEPT ![launch].eof = TRUE]
    /\ UNCHANGED <<files, launch, tries, token, minted, met>>

\* The child binds its ports, or ends because another node has them.
NodeBinds(n) ==
    /\ nodes[n].is = "starting"
    /\ nodes' = [nodes EXCEPT ![n].is = IF Serving = {} THEN "serving" ELSE "gone"]
    /\ met' = met \union {m \in {n} : Serving = {}}
    /\ UNCHANGED <<files, launch, pc, tries, token, minted>>

\* shutdown_signal_supervised: the poll finds the flag that EOF on stdin raised.
NodeSeesEof(n) ==
    /\ nodes[n].is \in {"starting", "serving"} /\ nodes[n].supervised /\ nodes[n].eof
    /\ nodes' = [nodes EXCEPT ![n].is = "gone"]
    /\ UNCHANGED <<files, launch, pc, tries, token, minted, met>>

\* A node ends by itself; the shell only logs it.
NodeEnds(n) ==
    /\ nodes[n].is \in {"starting", "serving"}
    /\ nodes' = [nodes EXCEPT ![n].is = "gone"]
    /\ UNCHANGED <<files, launch, pc, tries, token, minted, met>>

Next ==
    \/ Launch \/ LoadPassword \/ LoadAdmin \/ RunNodeInit \/ SpawnNodeRun
    \/ Verify \/ Mint \/ BuildWindow \/ Quit \/ Killed
    \/ \E n \in DOMAIN nodes : NodeBinds(n) \/ NodeSeesEof(n) \/ NodeEnds(n)

Spec == Init /\ [][Next]_vars

-----------------------------------------------------------------------------
\* Whichever node has the ports when the window is up takes the window's password, even
\* when it is the child of a launch that was killed.
PasswordIsStable == pc = "running" => \A n \in Serving : nodes[n].password = password

\* The window has no token but one that a node serving during this launch honours: never
\* one that was only read from the file.
TokenWasHonoured == pc = "running" /\ token # 0 => \E n \in met : token \in nodes[n].keys

\* A node whose shell is gone has seen its stdin close and obeys it.
StrayNodesStop ==
    \A n \in Alive : \/ n = launch /\ pc # "off"
                     \/ nodes[n].eof /\ nodes[n].supervised

\* "the client never gets a token that would 401 on every real send": the node of this
\* launch, when it serves, honours the window's token.  It was minted at whichever node had
\* the port, and a killed launch's may have had it: the code does not keep this.
TokenIsHonoured ==
    pc = "running" /\ token # 0 /\ launch \in Serving => token \in nodes[launch].keys

\* Whichever node a launch meets, its own or one left behind, takes its secrets, and
\* the one left behind stops.
LaunchesAgree == PasswordIsStable /\ TokenWasHonoured /\ StrayNodesStop

=============================================================================

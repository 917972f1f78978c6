------------------------------ MODULE ChainRead ------------------------------
(***************************************************************************)
(* The name-chain clients (crates/dmtap-namechain-rpc: ens.rs, sns.rs,     *)
(* rpc.rs). An .eth name is read in up to four calls, each against the     *)
(* chain as it is at that call ("latest"): the registry's resolver, that   *)
(* resolver's text record and, when the resolver answers off chain, a      *)
(* gateway and the resolver's callback on what the gateway said. A .sol    *)
(* name is one account. Meanwhile the owners of the name and of the        *)
(* resolvers write. The chain and the gateways are outside the program.    *)
(***************************************************************************)
EXTENDS Naturals

CONSTANTS
    Key, NoKey,             \* identity keys; an empty record
    Resolver, NoResolver,   \* resolver contracts; the zero address
    MaxWrites               \* bound: writes to the chain

ChainAssumption == MaxWrites \in Nat /\ NoKey \notin Key /\ NoResolver \notin Resolver

VARIABLES
    registry,   \* the resolver of the .eth name
    text,       \* what each resolver answers: a record on chain, or where to ask
    signed,     \* the off-chain answer each resolver's callback accepts
    account,    \* the key in the .sol name's account
    writes,
    pc, asked,  \* the client: its next call, and the resolver the registry gave
    reply,      \* what the gateway said
    result,     \* [found, key]
    moments,    \* keys the names have had since the resolution began
    moved       \* the name changed resolvers since then

chain == <<registry, text, signed, account, writes>>
client == <<pc, asked, reply, result>>
vars == <<registry, text, signed, account, writes, pc, asked, reply, result, moments, moved>>

OnChain(k) == [on |-> TRUE, key |-> k]
OffChain == [on |-> FALSE, key |-> NoKey]
Nothing == [found |-> FALSE, key |-> NoKey]

\* The key that the name of each kind has at this moment.
EthKey(reg, txt, sig) ==
    CASE reg = NoResolver -> NoKey
      [] reg # NoResolver /\ txt[reg].on -> txt[reg].key
      [] OTHER -> sig[reg]

Now(reg, txt, sig, acc) == {<<"eth", EthKey(reg, txt, sig)>>, <<"sol", acc>>}

Init ==
    /\ registry = NoResolver /\ account = NoKey /\ writes = 0
    /\ text = [r \in Resolver |-> OnChain(NoKey)]
    /\ signed = [r \in Resolver |-> NoKey]
    /\ pc = "idle" /\ asked = NoResolver /\ reply = NoKey /\ result = Nothing
    /\ moments = {} /\ moved = FALSE

-----------------------------------------------------------------------------
\* The owners.
Write ==
    /\ writes < MaxWrites /\ writes' = writes + 1
    /\ \/ \E r \in Resolver : registry' = r /\ UNCHANGED <<text, signed, account>>
       \/ \E r \in Resolver, k \in Key \union {NoKey} :
             text' = [text EXCEPT ![r] = OnChain(k)] /\ UNCHANGED <<registry, signed, account>>
       \/ \E r \in Resolver, k \in Key : /\ text' = [text EXCEPT ![r] = OffChain]
                                         /\ signed' = [signed EXCEPT ![r] = k]
                                         /\ UNCHANGED <<registry, account>>
       \/ \E k \in Key : account' = k /\ UNCHANGED <<registry, text, signed>>
    /\ moments' = moments \union Now(registry', text', signed', account')
    /\ moved' = (moved \/ registry' # registry)
    /\ UNCHANGED client

-----------------------------------------------------------------------------
\* resolve_result begins; a name of neither form ends at once.
Begin(kind) ==
    /\ pc = "idle"
    /\ pc' = kind
    /\ asked' = NoResolver /\ reply' = NoKey /\ result' = Nothing
    /\ moments' = Now(registry, text, signed, account) /\ moved' = FALSE
    /\ UNCHANGED chain

Ends(res) == pc' = "idle" /\ result' = res

\* Any call may fail: no answer, an answer that is no answer, a revert with no lookup.
CallFails ==
    /\ pc # "idle"
    /\ Ends(Nothing)
    /\ UNCHANGED <<chain, asked, reply, moments, moved>>

\* registry.resolver(node): the zero address is an unregistered name.
AskRegistry ==
    /\ pc = "registry"
    /\ asked' = registry
    /\ IF registry = NoResolver THEN Ends(Nothing) ELSE pc' = "text" /\ UNCHANGED result
    /\ UNCHANGED <<chain, reply, moments, moved>>

\* Mutant: an empty record is a key.
ParsedEmpty(k) == [found |-> TRUE, key |-> k]

\* parse_dmtap_text, parse_registry_record: an empty or zero record is no key.
Parsed(k) == IF k = NoKey THEN Nothing ELSE [found |-> TRUE, key |-> k]

\* resolver.text(node, "dmtap"): a record, or the revert that starts CCIP-Read.
AskText ==
    /\ pc = "text"
    /\ IF text[asked].on THEN Ends(Parsed(text[asked].key)) ELSE pc' = "gateway" /\ UNCHANGED result
    /\ UNCHANGED <<chain, asked, reply, moments, moved>>

\* The gateway may say anything.
AskGateway(k) ==
    /\ pc = "gateway"
    /\ pc' = "callback" /\ reply' = k
    /\ UNCHANGED <<chain, asked, result, moments, moved>>

\* Mutant: the gateway's word is taken.
AcceptsAny(r, k) == TRUE

\* The resolver's callback function decides about the gateway's answer.
Accepts(r, k) == signed[r] = k

AskCallback ==
    /\ pc = "callback"
    /\ Ends(IF Accepts(asked, reply) THEN Parsed(reply) ELSE Nothing)
    /\ UNCHANGED <<chain, asked, reply, moments, moved>>

\* get_account_info: an account that does not exist holds no key.
AccountInfo == account

\* SnsClient: the 32 bytes after the account's header.
AskAccount ==
    /\ pc = "account"
    /\ Ends(Parsed(AccountInfo))
    /\ UNCHANGED <<chain, asked, reply, moments, moved>>

Next ==
    \/ Write \/ Begin("registry") \/ Begin("account") \/ CallFails
    \/ AskRegistry \/ AskText \/ AskCallback \/ AskAccount
    \/ \E k \in Key : AskGateway(k)

Spec == Init /\ [][Next]_vars

-----------------------------------------------------------------------------
\* A key that is answered is a key the name had at one moment of the resolution, provided
\* that the name kept its resolver meanwhile: the calls are not made against one block.
AnswerWasCurrent ==
    result.found /\ ~moved =>
        /\ result.key # NoKey
        /\ <<IF asked = NoResolver THEN "sol" ELSE "eth", result.key>> \in moments

=============================================================================

------------------------------ MODULE Postage -------------------------------
(***************************************************************************)
(* Prepaid postage on a gateway: the patala ledger                         *)
(* (dmtap-postage-patala/src/lib.rs) credited from payment receipts, and   *)
(* the gate that charges a send to it (dmtap-seam/src/postage.rs) in front *)
(* of the operator's own rules (dmtap-operator/src/authz.rs).              *)
(***************************************************************************)
EXTENDS Integers, FiniteSets, Functions

CONSTANTS
    Account,
    NoAccount,  \* a credential that names no account
    Receipt,    \* payments: records [reference, amount, currency, settled]
    Currency,   \* the provider's currency
    Caller,     \* concurrent calls of credit_from_receipt
    Cost,       \* cost_per_send_minor_units
    Low,        \* low_balance_threshold_minor_units
    Full,       \* u64::MAX, where a balance saturates
    PowBits,    \* MIN_SELF_CONTAINED_POW_BITS
    MaxSends    \* bound: sends of an account

PostageAssumption ==
    /\ NoAccount \notin Account /\ IsFiniteSet(Account) /\ IsFiniteSet(Receipt)
    /\ \A r \in Receipt : r.amount \in Nat
    /\ \A r, s \in Receipt : r.reference = s.reference => r = s
    /\ {Cost, Low, Full, PowBits, MaxSends} \subseteq Nat

VARIABLES
    ledger,     \* PatalaPostage::ledger
    credited,   \* PatalaPostage::credited_references
    call,       \* where each call of credit_from_receipt is
    reminders,  \* the last reminder of each account
    allowed     \* sends let through on an account's balance

vars == <<ledger, credited, call, reminders, allowed>>

Idle == [at |-> "idle"]

Init ==
    /\ ledger = [a \in Account |-> 0] /\ credited = {} /\ call = [c \in Caller |-> Idle]
    /\ reminders = [a \in Account |-> "none"] /\ allowed = [a \in Account |-> 0]

\* top_up answers Pending (or Failed, in another currency) and moves nothing: the payer
\* pays what top_up_pay_request asks for and comes back with the receipt.
TopUp(r) == r.currency = Currency

\* Mutant: a reference that was credited already is not looked for.
AlreadyCreditedNever(r) == FALSE

AlreadyCredited(r) == r.reference \in credited

\* The checks before the rail is asked.  The locks are given back before the await.
CreditFromReceipt(c, a, r) ==
    /\ call[c] = Idle
    /\ TopUp(r) /\ ~AlreadyCredited(r)
    /\ call' = [call EXCEPT ![c] = [at |-> "verify", account |-> a, receipt |-> r]]
    /\ UNCHANGED <<ledger, credited, reminders, allowed>>

\* external: the rail's answer; only a payment that settled verifies.
RailVerify(r) == r.settled

Verified(c) ==
    /\ call[c].at = "verify"
    /\ call' = [call EXCEPT ![c] = IF RailVerify(call[c].receipt) THEN [@ EXCEPT !.at = "credit"] ELSE Idle]
    /\ UNCHANGED <<ledger, credited, reminders, allowed>>

SaturatingAdd(a, b) == IF a + b > Full THEN Full ELSE a + b

\* The two locks after the await, one after the other.
Credit(c) ==
    /\ call[c].at = "credit"
    /\ ledger' = [ledger EXCEPT ![call[c].account] = SaturatingAdd(@, call[c].receipt.amount)]
    /\ call' = [call EXCEPT ![c].at = "remember"]
    /\ UNCHANGED <<credited, reminders, allowed>>

Remember(c) ==
    /\ call[c].at = "remember"
    /\ credited' = credited \union {call[c].receipt.reference}
    /\ call' = [call EXCEPT ![c] = Idle]
    /\ UNCHANGED <<ledger, reminders, allowed>>

-----------------------------------------------------------------------------
SendCredential ==
    [account : Account \union {NoAccount}, token : BOOLEAN, stamp : BOOLEAN, pow : {0, PowBits}]

\* Mutant: an account has to prove work as well.
AuthorizeGatewayPow(cred) == cred.token \/ cred.stamp \/ cred.pow >= PowBits

AuthorizeGateway(cred) ==
    cred.account # NoAccount \/ cred.token \/ cred.stamp \/ cred.pow >= PowBits

ReminderForBalance(balance) ==
    IF balance = 0 THEN "exhausted" ELSE IF balance <= Low THEN "low" ELSE "none"

\* Mutant: the last send may overdraw.
SpendsOverdraft(a) == ledger[a] > 0

Spends(a) == ledger[a] >= Cost

\* PostageGatedAuthz::authorize: an account that attaches no stamp is charged first,
\* the operator's own rules come after.
Authorize(cred) ==
    /\ cred.account \in Account /\ ~cred.stamp
    /\ Spends(cred.account) /\ allowed[cred.account] < MaxSends
    /\ LET left == ledger[cred.account] - Cost
       IN  /\ ledger' = [ledger EXCEPT ![cred.account] = left]
           /\ reminders' = [reminders EXCEPT ![cred.account] =
                                IF ReminderForBalance(left) = "none" THEN @ ELSE ReminderForBalance(left)]
    /\ allowed' = [allowed EXCEPT ![cred.account] = IF AuthorizeGateway(cred) THEN @ + 1 ELSE @]
    /\ UNCHANGED <<credited, call>>

Next ==
    \/ \E c \in Caller, a \in Account, r \in Receipt : CreditFromReceipt(c, a, r)
    \/ \E c \in Caller : Verified(c) \/ Credit(c) \/ Remember(c)
    \/ \E cred \in SendCredential : Authorize(cred)

Spec == Init /\ [][Next]_vars

-----------------------------------------------------------------------------
Total(f) == SumFunctionOnSet(f, Account)
Worth(receipts) == SumFunctionOnSet([r \in Receipt |-> r.amount], receipts)

\* What the receipts that settled are worth, each once.
Paid == Worth({r \in Receipt : r.settled /\ r.currency = Currency})

\* No receipt is credited twice, and none that did not settle or is in another
\* currency: the balances and the sends made on them are worth no more than was paid,
\* and no balance goes below zero.
BalanceIsPaidFor ==
    Total(ledger) + Cost * Total(allowed) <= Paid /\ \A a \in Account : ledger[a] >= 0

\* Nobody is charged for a send that is then refused: what left the balances is the
\* cost of the sends let through.
ChargedIsAllowed ==
    Paid <= Full /\ (\A c \in Caller : call[c] = Idle) =>
        Total(ledger) + Cost * Total(allowed) = Worth({r \in Receipt : r.reference \in credited})

\* Balances are what was paid, less the sends let through.
PostageBalances == BalanceIsPaidFor /\ ChargedIsAllowed

=============================================================================

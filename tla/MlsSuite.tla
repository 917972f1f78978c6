------------------------------ MODULE MlsSuite ------------------------------
(***************************************************************************)
(* The ciphersuite ratchet of groups (dmtap-mls/src/ciphersuite.rs): a     *)
(* high-water mark per group that a handshake may not go below, and the    *)
(* rule that a group of post-quantum members selects a post-quantum suite. *)
(***************************************************************************)
EXTENDS Integers, Sequences

CONSTANTS
    Group,
    Suite,      \* MLS ciphersuite codes
    XWing,      \* the post-quantum one
    MaxSteps    \* bound: handshakes of a group

SuiteAssumption == XWing \in Suite /\ Suite \subseteq Nat /\ MaxSteps \in Nat

VARIABLES
    marks,      \* MlsCiphersuiteRatchet::marks, Unset where there is none
    history     \* what each group saw since it was last retired, in order

vars == <<marks, history>>

Unset == -1
Capability == [identity : BOOLEAN, mls : BOOLEAN]

Init == marks = [g \in Group |-> Unset] /\ history = [g \in Group |-> <<>>]

IsPq(cs) == cs = XWing

SecurityLevel(cs) == IF IsPq(cs) THEN 2 ELSE IF cs \in 4..7 THEN 1 ELSE 0

AllMembersPq(members) == members # {} /\ \A m \in members : m.identity /\ m.mls

Check(g, cs, members) ==
    /\ AllMembersPq(members) => IsPq(cs)
    /\ SecurityLevel(cs) >= marks[g]

\* Mutant: the mark follows the last suite seen.
RaisedLast(mark, cs) == SecurityLevel(cs)

Raised(mark, cs) == IF SecurityLevel(cs) > mark THEN SecurityLevel(cs) ELSE mark

Observe(g, cs, how) ==
    /\ Len(history[g]) < MaxSteps
    /\ marks' = [marks EXCEPT ![g] = Raised(@, cs)]
    /\ history' = [history EXCEPT ![g] = Append(@, [suite |-> cs, how |-> how])]

Accept(g, cs, members) == Check(g, cs, members) /\ Observe(g, cs, "accept")

\* retire_to: a declared re-keying sets the mark anew.
RetireTo(g, cs) ==
    /\ marks' = [marks EXCEPT ![g] = SecurityLevel(cs)]
    /\ history' = [history EXCEPT ![g] = <<>>]

Next ==
    \E g \in Group, cs \in Suite :
        \/ \E members \in SUBSET Capability : Accept(g, cs, members)
        \/ Observe(g, cs, "observe")
        \/ RetireTo(g, cs)

Spec == Init /\ [][Next]_vars

-----------------------------------------------------------------------------
\* accept lets no handshake below anything the group accepted or observed since
\* it was last retired, however the two are interleaved.
NoSuiteDowngrade ==
    \A g \in Group : \A i, j \in DOMAIN history[g] :
        i < j /\ history[g][j].how = "accept"
            => SecurityLevel(history[g][j].suite) >= SecurityLevel(history[g][i].suite)

=============================================================================

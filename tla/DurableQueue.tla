---------------------------- MODULE DurableQueue ----------------------------
(***************************************************************************)
(* What the durable outbound queue promises (node/src/journal.rs): seen    *)
(* through the journal, the fate of a MOTE only ever moves forward.        *)
(***************************************************************************)
CONSTANT Mote

VARIABLES
    status,     \* what the sender's journal says of each MOTE
    delivered,  \* MOTEs accepted by their recipient
    returned    \* MOTEs whose send call returned to its caller

Status == {"unsent", "pending", "acked", "expired", "collected"}

Forward == {<<"unsent", "pending">>, <<"pending", "acked">>, <<"pending", "expired">>,
            <<"acked", "collected">>, <<"expired", "collected">>}

Init ==
    /\ status = [m \in Mote |-> "unsent"]
    /\ delivered = {} /\ returned = {}

Deliver(m) ==
    /\ delivered' = delivered \cup {m}
    /\ UNCHANGED <<status, returned>>

\* One journal write may carry several MOTEs forward, each by one step; it
\* confirms only what was delivered, and a call returns only once its MOTE is
\* in the journal.
Commit ==
    /\ status' \in [Mote -> Status]
    /\ \A m \in Mote : \/ status'[m] = status[m]
                       \/ /\ <<status[m], status'[m]>> \in Forward
                          /\ status'[m] = "acked" => m \in delivered
    /\ returned \subseteq returned'
    /\ \A m \in returned' : m \in returned \/ (m \in Mote /\ status'[m] # "unsent")
    /\ UNCHANGED delivered

Next == (\E m \in Mote : Deliver(m)) \/ Commit

Spec == Init /\ [][Next]_<<status, delivered, returned>>
=============================================================================

---------------------------- MODULE OperatorDns -----------------------------
(***************************************************************************)
(* Publishing a gateway's DNS records (dmtap-operator/src/dns.rs) through  *)
(* an HTTP API that may fail at any call (http.rs), with the owner of the  *)
(* zone editing it between runs.  A run writes its records one by one, a   *)
(* lookup and a write each, and stops at the first error; the operator     *)
(* runs it again.                                                          *)
(***************************************************************************)
EXTENDS Integers, Sequences, SequencesExt

CONSTANTS
    Version,    \* contents of the gateway's records, as its keys and addresses change
    Foreign,    \* a record of the owner's: a TXT at the apex, say
    MaxForeign  \* bound: the owner's edits

DnsAssumption == Foreign \notin Version /\ MaxForeign \in Nat

VARIABLES
    zone,       \* the contents the zone holds under each type and name
    run,        \* the call in progress, or the last one and how it ended
    edits       \* the owner's edits so far

vars == <<zone, run, edits>>

\* The type and name of each record, in the order they are written.
GatewayZoneRecords == <<"A_mail", "MX_apex", "TXT_apex", "TXT_dkim", "TXT_dmarc", "TXT_dmtap">>
Slot == Range(GatewayZoneRecords)

Init ==
    /\ zone = [s \in Slot |-> <<>>]
    /\ run = [op |-> "none", version |-> Foreign, next |-> 0, at |-> "ended", ok |-> FALSE, id |-> 0]
    /\ edits = 0

Rec == GatewayZoneRecords[run.next]

\* upsert_records, delete_records: first the zone's id.
Start(op, v) ==
    /\ run.at = "ended"
    /\ run' = [op |-> op, version |-> v, next |-> 1, at |-> "zone", ok |-> FALSE, id |-> 0]
    /\ UNCHANGED <<zone, edits>>

\* external: what a call comes to.  A write whose answer is lost, too long or not JSON
\* has happened; a refused one has not.
Send == {"done", "refused", "lost"}

\* CloudflareDns::call: everything but a 2xx with success is an Err.
Call(answer) == answer = "done"

Failed == [run EXCEPT !.at = "ended"]
Ended(r) == IF r.next > Len(GatewayZoneRecords) THEN [r EXCEPT !.at = "ended", !.ok = TRUE] ELSE r

ZoneId(answer) ==
    /\ run.at = "zone"
    /\ run' = IF Call(answer) THEN [run EXCEPT !.at = "lookup"] ELSE Failed
    /\ UNCHANGED <<zone, edits>>

\* existing_record_id: the first record of that type and name the API lists.
ExistingRecordId(answer) ==
    /\ run.at = "lookup"
    /\ \/ ~Call(answer) /\ run' = Failed
       \/ /\ Call(answer)
          /\ \/ zone[Rec] = <<>> /\ run' = [run EXCEPT !.at = "write", !.id = 0]
             \/ \E i \in DOMAIN zone[Rec] : run' = [run EXCEPT !.at = "write", !.id = i]
    /\ UNCHANGED <<zone, edits>>

\* Mutant: a record is always created.
PutOrPostAlways == Append(zone[Rec], run.version)

\* PUT in place when the lookup found one, POST otherwise.
PutOrPost == IF run.id # 0 THEN ReplaceAt(zone[Rec], run.id, run.version)
             ELSE Append(zone[Rec], run.version)

Delete == IF run.id # 0 THEN RemoveAt(zone[Rec], run.id) ELSE zone[Rec]

\* Mutant: the run goes on with the next record whatever the answer.
GoesOnAlways(answer) == TRUE

GoesOn(answer) == Call(answer)

Write(answer) ==
    /\ run.at = "write"
    /\ zone' = IF answer = "refused" THEN zone
               ELSE [zone EXCEPT ![Rec] = IF run.op = "upsert" THEN PutOrPost ELSE Delete]
    /\ run' = IF GoesOn(answer) THEN Ended([run EXCEPT !.next = @ + 1, !.at = "lookup"]) ELSE Failed
    /\ UNCHANGED edits

\* external: the owner adds a TXT record of its own at the apex, between runs.
OwnerAdds ==
    /\ edits < MaxForeign /\ run.at = "ended"
    /\ zone' = [zone EXCEPT !["TXT_apex"] = Append(@, Foreign)]
    /\ edits' = edits + 1
    /\ UNCHANGED run

Next ==
    \/ \E v \in Version : Start("upsert", v)
    \/ Start("delete", Foreign)
    \/ \E answer \in Send : ZoneId(answer) \/ ExistingRecordId(answer) \/ Write(answer)
    \/ OwnerAdds

Spec == Init /\ [][Next]_vars

-----------------------------------------------------------------------------
\* How many records of a type and name are the owner's.
Owned(s) == IF s = "TXT_apex" THEN edits ELSE 0

\* An Ok is never a partial zone: each record is there with the contents asked for, or as
\* many are left as the owner added, whatever failed runs came before.  (At the apex one
\* TXT record goes, the first that is listed: the one left may be the gateway's, and the one
\* that is gone the owner's.)
OkIsWhole ==
    run.at = "ended" /\ run.ok =>
        \A s \in Slot :
            \/ run.op = "upsert" /\ Contains(zone[s], run.version)
            \/ run.op = "delete" /\ Len(zone[s]) <= Owned(s)

\* What a delete is for, and the code does not keep: nothing of the gateway's is left.  Of
\* "the records matching `records` (by name + type)" the first that is listed goes, and at
\* the apex that may be the owner's.
OnlyOwnersStay ==
    run.at = "ended" /\ run.ok /\ run.op = "delete" =>
        \A s \in Slot : Range(zone[s]) \subseteq {Foreign}

\* Runs that fail half way and are run again create no second record of a type and
\* name, so that no stale key or address stays published beside the new one.  (At the
\* apex the owner's TXT records may be taken for the gateway's.)
NoSecondRecord == \A s \in Slot : Len(zone[s]) <= 1 + Owned(s)

\* A zone that was published is whole and holds nothing twice.
ZoneIsWhole == OkIsWhole /\ NoSecondRecord

=============================================================================

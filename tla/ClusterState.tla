---------------------------- MODULE ClusterState ----------------------------
(***************************************************************************)
(* The synced metadata of a device cluster as a join of three CRDTs        *)
(* (crates/dmtap-clustersync/src/crdt.rs): an add-wins set of tagged adds  *)
(* and tombstones, last-writer-wins cells, and remove-wins death           *)
(* certificates that dominate the set.                                     *)
(*                                                                         *)
(* A hybrid clock is <<wall, counter, device>>; the tag of an add is its   *)
(* clock.  A cell is [hlc, val]; the value 0 of a certificate is `live',   *)
(* a positive one a durable-delete class.                                  *)
(***************************************************************************)
EXTENDS Integers, FiniteSetsExt

CONSTANTS
    Elem,       \* targets: objects, folders, labels
    Skew        \* HLC_SKEW_MS

ASSUME ClusterStateAssumption == Skew \in Nat

\* "malformed" stands for every op whose shape validate_op refuses: an unknown
\* kind or death token, a field that does not belong, an embedded deniable payload.
OpKind == {"add", "remove", "lww", "delete"}

Before(a, b) ==
    \/ a[1] < b[1]
    \/ a[1] = b[1] /\ a[2] < b[2]
    \/ a[1] = b[1] /\ a[2] = b[2] /\ a[3] < b[3]

NotAfter(a, b) == a = b \/ Before(a, b)

Zero == <<0, 0, 0>>

Latest(S) == CHOOSE a \in S \cup {Zero} : \A b \in S : NotAfter(b, a)

\* A remove may only cite adds it can have seen.
Validates(op, now) ==
    /\ op.kind \in OpKind
    /\ op.hlc[1] <= now + Skew
    /\ op.kind = "remove" => /\ op.observed # {}
                             /\ \A t \in op.observed : NotAfter(t, op.hlc)

NoCell == [hlc |-> Zero, val |-> 0]

EmptyState == [adds |-> [e \in Elem |-> {}], tombs |-> [e \in Elem |-> {}],
               lww |-> [e \in Elem |-> NoCell], death |-> [e \in Elem |-> NoCell]]

\* Mutant: the write that arrives last wins.
WinsByArrival(new, cur) == new.hlc # Zero

\* The later write wins; at the same clock the greater value does, so that a
\* deletion beats `live'.
Wins(new, cur) ==
    \/ Before(cur.hlc, new.hlc)
    \/ cur.hlc = new.hlc /\ new.val > cur.val

Join(cur, new) == IF Wins(new, cur) THEN new ELSE cur

\* Mutant: an add resurrects what a durable delete covered.
ApplyAddRevives(op, s) ==
    LET e == op.target cell == [hlc |-> op.hlc, val |-> op.val] IN
    CASE op.kind = "add"    -> [s EXCEPT !.adds[e] = @ \cup {op.hlc}, !.death[e] = NoCell]
      [] op.kind = "remove" -> [s EXCEPT !.tombs[e] = @ \cup op.observed]
      [] op.kind = "lww"    -> [s EXCEPT !.lww[e] = Join(@, cell)]
      [] op.kind = "delete" -> [s EXCEPT !.death[e] = Join(@, cell)]
      [] OTHER              -> s

\* A tombstone is recorded whether or not its add has arrived.
ApplyOp(op, s) ==
    LET e == op.target cell == [hlc |-> op.hlc, val |-> op.val] IN
    CASE op.kind = "add"    -> [s EXCEPT !.adds[e] = @ \cup {op.hlc}]
      [] op.kind = "remove" -> [s EXCEPT !.tombs[e] = @ \cup op.observed]
      [] op.kind = "lww"    -> [s EXCEPT !.lww[e] = Join(@, cell)]
      [] op.kind = "delete" -> [s EXCEPT !.death[e] = Join(@, cell)]
      [] OTHER              -> s

\* The ops of a frame, one after the other.
ApplyAll(ops, s) == FoldSet(ApplyOp, s, ops)

Merge(s, o) ==
    [adds  |-> [e \in Elem |-> s.adds[e] \cup o.adds[e]],
     tombs |-> [e \in Elem |-> s.tombs[e] \cup o.tombs[e]],
     lww   |-> [e \in Elem |-> Join(s.lww[e], o.lww[e])],
     death |-> [e \in Elem |-> Join(s.death[e], o.death[e])]]

IsDeleted(s, e) == s.death[e].val > 0

IsPresent(s, e) == ~IsDeleted(s, e) /\ s.adds[e] \ s.tombs[e] # {}

\* The observable state: members, winning values, durable deletes.
Snapshot(s) ==
    [members |-> {e \in Elem : IsPresent(s, e)},
     cells   |-> [e \in Elem |-> s.lww[e].val],
     deleted |-> [e \in Elem |-> s.death[e].val]]

\* The collapsed pairs at or below the cut.
Reclaimable(s, e, cut) == {t \in s.adds[e] \cap s.tombs[e] : NotAfter(t, cut)}

PruneStable(s, cut) ==
    [s EXCEPT !.adds  = [e \in Elem |-> @[e] \ Reclaimable(s, e, cut)],
              !.tombs = [e \in Elem |-> @[e] \ Reclaimable(s, e, cut)]]

\* Every stamp the state still holds; a remove leaves no stamp of its own.
Stamps(s) ==
    (UNION {s.adds[e] \cup s.tombs[e] \cup {s.lww[e].hlc, s.death[e].hlc} : e \in Elem}) \ {Zero}

MaxHlc(s) == Latest(Stamps(s))

-----------------------------------------------------------------------------
\* What a set of ops means, whatever order they arrived in: the reference the
\* incremental state is compared with.
Newest(ops, kind, e) ==
    LET W == {op \in ops : op.kind = kind /\ op.target = e}
    IN  IF W = {} THEN 0 ELSE (CHOOSE op \in W : \A o \in W : NotAfter(o.hlc, op.hlc)).val

LiveTags(ops, e) ==
    {op.hlc : op \in {o \in ops : o.kind = "add" /\ o.target = e}}
    \ UNION {op.observed : op \in {o \in ops : o.kind = "remove" /\ o.target = e}}

Meaning(ops) ==
    [members |-> {e \in Elem : Newest(ops, "delete", e) = 0 /\ LiveTags(ops, e) # {}},
     cells   |-> [e \in Elem |-> Newest(ops, "lww", e)],
     deleted |-> [e \in Elem |-> Newest(ops, "delete", e)]]

=============================================================================

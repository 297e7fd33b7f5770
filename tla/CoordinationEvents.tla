------------------------- MODULE CoordinationEvents -------------------------
(***************************************************************************)
(* The coordination_events table of the solver-guard ledger, and           *)
(* append_event_in_transaction: the optimistic, idempotent append that     *)
(* every audited operation of the ledger runs inside its own transaction.  *)
(*                                                                         *)
(* A table is the set of its rows.  An event is what the caller presents:  *)
(* its event id, its idempotency key, the aggregate it belongs to, its     *)
(* type and payload (one abstract body) and its occurred_at_ms.  A row is  *)
(* an event together with the state_version it was given.                  *)
(***************************************************************************)
EXTENDS Naturals, FiniteSetsExt

Event(id, key, agg, body, at) ==
    [id |-> id, key |-> key, agg |-> agg, body |-> body, at |-> at]

Row(e, version) ==
    [id |-> e.id, key |-> e.key, agg |-> e.agg, body |-> e.body,
     at |-> e.at, version |-> version]

Versions(rows, agg) == {r.version : r \in {q \in rows : q.agg = agg}}

\* SELECT COALESCE(MAX(state_version), 0) ... WHERE aggregate = ?
CurrentVersion(rows, agg) == Max({0} \cup Versions(rows, agg))

KeyBound(rows, key) == \E r \in rows : r.key = key

(***************************************************************************)
(* The three outcomes of an append.  A bound idempotency key replays only  *)
(* when every column, occurred_at_ms and the version included, is the one  *)
(* stored; any other use of the key is an error.  An unbound key appends   *)
(* only at the expected version (and event_id is the primary key).         *)
(***************************************************************************)
Replays(rows, e, expected) == Row(e, expected + 1) \in rows

\* Mutant: the optimistic version check is dropped.
AppendsAtAnyVersion(rows, e, expected) ==
    /\ ~KeyBound(rows, e.key)
    /\ \A r \in rows : r.id # e.id

Appends(rows, e, expected) ==
    /\ ~KeyBound(rows, e.key)
    /\ CurrentVersion(rows, e.agg) = expected
    /\ \A r \in rows : r.id # e.id

\* Mutant: the row keeps the expected version instead of the next one.
AppendWithoutBump(rows, e, expected) == rows \cup {Row(e, expected)}

Append1(rows, e, expected) == rows \cup {Row(e, expected + 1)}

(***************************************************************************)
(* What the append promises: within an aggregate the versions are 1..n     *)
(* without a gap, and no version, key or event id is used twice.           *)
(***************************************************************************)
Contiguous(rows, agg) ==
    \A r \in rows : r.agg = agg =>
        \A v \in 1..r.version : \E q \in rows : q.agg = agg /\ q.version = v

UniqueRows(rows) ==
    \A r, q \in rows :
        \/ r.key = q.key
        \/ r.id = q.id
        \/ r.agg = q.agg /\ r.version = q.version
        => r = q
=============================================================================

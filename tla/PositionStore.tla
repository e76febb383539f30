---------------------------- MODULE PositionStore ----------------------------
(***************************************************************************)
(* What the pud position cache promises (spec section 4.3): one record per *)
(* remote main address, replaced only by a record with a strictly greater  *)
(* timestamp, never one for ourselves, entries never removed; and one own *)
(* record, replaced likewise only by a strictly newer one.  Timestamps are *)
(* plain naturals here: the promise is a monotonic clock.  Distances and   *)
(* multipliers are derived data and not part of the promise.               *)
(***************************************************************************)
EXTENDS Naturals, TLC

CONSTANTS
    Key,        \* main addresses
    Self,       \* our own main address
    Record,     \* [time, pos] records
    InitialOwn  \* the own record before the first fix

VARIABLES store, own

-----------------------------------------------------------------------------
Init ==
    /\ store = [k \in {} |-> InitialOwn]
    /\ own = InitialOwn

(* update_remote for main address k: create the entry, or replace its     *)
(* record by a strictly newer one.                                          *)
UpdateRemote(k, r) ==
    /\ k # Self
    /\ k \notin DOMAIN store \/ r.time > store[k].time
    /\ store' = (k :> r) @@ store
    /\ UNCHANGED own

(* update_local: replace the own record by a strictly newer one. *)
UpdateLocal(r) ==
    /\ r.time > own.time
    /\ own' = r
    /\ UNCHANGED store

Next ==
    \/ \E k \in Key, r \in Record : UpdateRemote(k, r)
    \/ \E r \in Record : UpdateLocal(r)

(* Discarded reports and cache-internal work are stuttering steps. *)
Spec == Init /\ [][Next]_<<store, own>>
=============================================================================

------------------------------ MODULE DeliveryLog ------------------------------
(***************************************************************************)
(* What worker and aggregator together promise of the events of a run      *)
(* (docs/api.md 17-19 and 65-68): the aggregator stores the next event of  *)
(* a run, once; the worker counts an event that is stored.  There is no    *)
(* network, no clock and no restart here.  EdgeSystem implements it.       *)
(***************************************************************************)
EXTENDS Naturals, Sequences

CONSTANT Runs

VARIABLES
    rows,    \* the events stored, each <<run, number>>
    counted  \* per run: the events the worker has counted

Due(r)    == <<r, counted[r] + 1>>
Stored(k) == \E i \in DOMAIN rows : rows[i] = k

Init == rows = <<>> /\ counted = [r \in Runs |-> 0]

Store(r) == /\ ~Stored(Due(r))
            /\ rows' = Append(rows, Due(r))
            /\ UNCHANGED counted

Count(r) == /\ Stored(Due(r))
            /\ counted' = [counted EXCEPT ![r] = @ + 1]
            /\ UNCHANGED rows

Next == \E r \in Runs : Store(r) \/ Count(r)

Spec == Init /\ [][Next]_<<rows, counted>>
=============================================================================

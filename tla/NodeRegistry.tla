------------------------------ MODULE NodeRegistry ------------------------------
(***************************************************************************)
(* What seed_node_registry promises (secureedge/persistence.py,            *)
(* docs/configuration.md 45-48): the registry of node keys only grows; a   *)
(* start that serves has registered its whole batch, in one step; one that *)
(* was refused has registered nothing, and a batch that contradicts itself *)
(* or the registry is refused.  AggregatorStartup implements it.           *)
(***************************************************************************)
CONSTANTS
    Starts,   \* runs of the aggregator
    BatchOf,  \* the <<node, key>> pairs each is given
    Nodes,
    None      \* a node that is not registered

VARIABLES
    keys,    \* per node: its key, or None
    verdict  \* per start: "running", "seeded", "refused" or "ended"

Contradictory(b) == \E x, y \in b : x[1] = y[1] /\ x[2] # y[2]
Conflict(b)      == \E x \in b : keys[x[1]] \notin {None, x[2]}

Init == /\ keys = [n \in Nodes |-> None]
        /\ verdict = [p \in Starts |-> "running"]

Conclude(p, v) == /\ verdict[p] = "running"
                  /\ verdict' = [verdict EXCEPT ![p] = v]

\* The batch is registered as a whole.  A start whose COMMIT raises or that is
\* killed right then may have registered it too.
Seed(p) ==
    /\ ~Contradictory(BatchOf[p]) /\ ~Conflict(BatchOf[p])
    /\ \E v \in {"seeded", "ended"} : Conclude(p, v)
    /\ keys' = [n \in Nodes |-> IF \E x \in BatchOf[p] : x[1] = n
                                THEN (CHOOSE x \in BatchOf[p] : x[1] = n)[2]
                                ELSE keys[n]]

\* The schema or the batch is refused, or another start got there first.
Refuse(p) == Conclude(p, "refused") /\ UNCHANGED keys

\* A start gives up, or stops serving.
End(p) == /\ verdict[p] \in {"running", "seeded"}
          /\ verdict' = [verdict EXCEPT ![p] = "ended"]
          /\ UNCHANGED keys

Next == \E p \in Starts : Seed(p) \/ Refuse(p) \/ End(p)

Spec == Init /\ [][Next]_<<keys, verdict>>
=============================================================================

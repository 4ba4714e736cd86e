----------------------- MODULE MCReplayFreshnessPolicy -----------------------
(***************************************************************************)
(* Small instances of ReplayFreshnessPolicy for TLC.                       *)
(***************************************************************************)
EXTENDS ReplayFreshnessPolicy, TLC

Event(n, i, x, t) == [node |-> n, event_id |-> i, nonce |-> x, timestamp |-> t]

\* An event, a later event of the same ID, a later one of the same nonce, and
\* one of another node that shares both identifiers with the first.
MCEvents == {Event("n1", "i1", "x1", 2), Event("n1", "i1", "x2", 4),
             Event("n1", "i2", "x1", 4), Event("n2", "i1", "x1", 2)}

\* Enough to have a caller overtaken between its reading and the lock.
MCPairOfEvents == {Event("n1", "i1", "x1", 2), Event("n1", "i2", "x2", 2)}

CallerSymmetry == Permutations(Callers)
=============================================================================

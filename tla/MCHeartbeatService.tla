-------------------------- MODULE MCHeartbeatService --------------------------
(***************************************************************************)
(* Small instances of HeartbeatService for TLC.                           *)
(***************************************************************************)
EXTENDS HeartbeatService

Beat(n, t, s) == [node |-> n, timestamp |-> t, status |-> s]

\* Two heartbeats of one instant that disagree, an older one, a newer one, and
\* one of a node that is not registered.
MCHeartbeats == {Beat("n1", 1, "healthy"), Beat("n1", 2, "healthy"),
                 Beat("n1", 2, "degraded"), Beat("n1", 3, "unhealthy"),
                 Beat("n9", 2, "healthy")}
MCInstants == 0 .. 4
=============================================================================

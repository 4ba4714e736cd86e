----------------------------- MODULE NodeRegister -----------------------------
(***************************************************************************)
(* What HeartbeatService promises: a register per node that heartbeats can *)
(* only advance.  Each call takes effect at most once and at one instant,  *)
(* on the whole register.  There is no row with two columns, no lock, no   *)
(* transaction and no process that may die.                                *)
(***************************************************************************)
EXTENDS Integers

CONSTANTS
    Requests,    \* calls of record
    Heartbeats,  \* what clients send: [node, timestamp, status]
    Nodes,       \* the registered nodes
    None         \* nothing yet

VARIABLES
    register,  \* per node: the heartbeat it shows, or None
    heard,     \* per request: the heartbeat it carries, or None
    answer     \* per request: what its client is told

vars == <<register, heard, answer>>

Init == /\ register = [n \in Nodes |-> None]
        /\ heard = [r \in Requests |-> None]
        /\ answer = [r \in Requests |-> "none"]

Tell(r, a) == answer' = [answer EXCEPT ![r] = a]

Newer(h) == register[h.node] = None \/ register[h.node].timestamp < h.timestamp

\* A heartbeat comes in.  It is refused for its node or its time, or considered.
Hear(r, h) ==
    /\ heard[r] = None /\ answer[r] = "none"
    /\ heard' = [heard EXCEPT ![r] = h]
    /\ IF h.node \notin Nodes THEN Tell(r, "unknown_node")
       ELSE UNCHANGED answer \/ Tell(r, "stale_timestamp") \/ Tell(r, "future_timestamp")
    /\ UNCHANGED register

\* A heartbeat that is being considered and is newer takes effect, once; its
\* client may yet be told that the service is unavailable.
Advance(r) ==
    /\ heard[r] # None /\ answer[r] = "none"
    /\ Newer(heard[r])
    /\ register' = [register EXCEPT ![heard[r].node] = heard[r]]
    /\ Tell(r, "accepted") \/ Tell(r, "service_unavailable")
    /\ UNCHANGED heard

\* One that is not newer is refused, and for that reason only.
Refuse(r) ==
    /\ heard[r] # None /\ answer[r] = "none"
    /\ ~Newer(heard[r])
    /\ Tell(r, "out_of_order_heartbeat")
    /\ UNCHANGED <<register, heard>>

\* Anything may fail, even what has been done.
Unavailable(r) ==
    /\ Tell(r, "service_unavailable")
    /\ UNCHANGED <<register, heard>>

Next == \E r \in Requests :
           \/ \E h \in Heartbeats : Hear(r, h)
           \/ Advance(r) \/ Refuse(r) \/ Unavailable(r)

Spec == Init /\ [][Next]_vars
=============================================================================

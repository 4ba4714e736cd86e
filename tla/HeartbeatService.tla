--------------------------- MODULE HeartbeatService ---------------------------
(***************************************************************************)
(* Advisory heartbeats on the aggregator: HeartbeatService.record of       *)
(* secureedge/monitoring.py behind the POST handler of apps/aggregator     *)
(* /api.py, over the node rows of a SQLite file.                           *)
(*                                                                         *)
(* Heartbeats are unsigned, may come in any order and may race.  A request *)
(* is one call of record.  It judges freshness on its own reading of the   *)
(* clock, then issues one conditional UPDATE, which takes SQLite's write   *)
(* lock, and commits; the lock is held until the commit or the rollback.   *)
(***************************************************************************)
EXTENDS Integers

CONSTANTS
    Requests,    \* calls of record
    Heartbeats,  \* what clients send: [node, timestamp, status]
    Nodes,       \* the registered nodes
    Skew,        \* SecuritySettings.max_clock_skew_seconds
    Instants,    \* the readings of the wall clock
    None         \* NULL

ASSUME HeartbeatAssumption ==
    /\ Skew \in Nat \ {0}
    /\ Instants \subseteq Int
    /\ \A h \in Heartbeats : /\ h.timestamp \in Int
                             /\ h = [node |-> h.node, timestamp |-> h.timestamp,
                                     status |-> h.status]

ASSUME NoneAssumption ==
    None \notin Int /\ None \notin Requests /\ None \notin Heartbeats

VARIABLES
    lastSeen, \* nodes.last_seen_at_utc, committed
    health,   \* nodes.health_status, committed
    writer,   \* the request that holds the write lock with its UPDATE, or None
    heard,    \* per request: the heartbeat it carries, or None
    phase,    \* per request: where its call of record is
    result    \* per request: how it ends

rowVars == <<lastSeen, health, writer>>
vars    == <<rowVars, heard, phase, result>>

Init == /\ lastSeen = [n \in Nodes |-> None]
        /\ health = [n \in Nodes |-> None]
        /\ writer = None
        /\ heard = [r \in Requests |-> None]
        /\ phase = [r \in Requests |-> "new"]
        /\ result = [r \in Requests |-> "none"]
-----------------------------------------------------------------------------
Goto(r, p)       == phase' = [phase EXCEPT ![r] = p]
Raise(r, reason) == result' = [result EXCEPT ![r] = reason]

\* The lookup and the freshness window of record, in its order.
Judgement(h, now) ==
    IF h.node \notin Nodes THEN "unknown_node"
    ELSE IF h.timestamp < now - Skew THEN "stale_timestamp"
    ELSE IF h.timestamp > now + Skew THEN "future_timestamp"
    ELSE "fresh"

\* A request looks its node up and judges the timestamp on its reading of
\* the clock, which may be anything: the wall clock can be set at any time.
Arrive(r, h, now) ==
    /\ phase[r] = "new"
    /\ heard' = [heard EXCEPT ![r] = h]
    /\ IF Judgement(h, now) = "fresh"
       THEN Goto(r, "update") /\ UNCHANGED result
       ELSE Goto(r, "close") /\ Raise(r, Judgement(h, now))
    /\ UNCHANGED rowVars

\* The session, the lookup or the clock raises.
ArriveFails(r) ==
    /\ phase[r] = "new"
    /\ Goto(r, "close") /\ Raise(r, "service_unavailable")
    /\ UNCHANGED <<rowVars, heard>>

\* Mutants: equal timestamps pass; every timestamp passes.
NewerOrEqual(h) == lastSeen[h.node] = None \/ lastSeen[h.node] =< h.timestamp
NewerAlways(h)  == TRUE

\* The WHERE clause of the UPDATE.
Newer(h) == lastSeen[h.node] = None \/ lastSeen[h.node] < h.timestamp

\* Mutant: the UPDATE does not wait for the writer before it.
UpdateUnlocked(r) ==
    /\ phase[r] = "update"
    /\ IF Newer(heard[r])
       THEN writer' = r /\ Goto(r, "commit") /\ UNCHANGED result
       ELSE Goto(r, "close") /\ Raise(r, "out_of_order_heartbeat") /\ UNCHANGED writer
    /\ UNCHANGED <<lastSeen, health, heard>>

\* The UPDATE takes the write lock and matches the row or matches nothing.
Update(r) ==
    /\ phase[r] = "update" /\ writer = None
    /\ IF Newer(heard[r])
       THEN writer' = r /\ Goto(r, "commit") /\ UNCHANGED result
       ELSE Goto(r, "close") /\ Raise(r, "out_of_order_heartbeat") /\ UNCHANGED writer
    /\ UNCHANGED <<lastSeen, health, heard>>

\* Mutant: only the timestamp is written.
StoreTimestampOnly(h) ==
    /\ lastSeen' = [lastSeen EXCEPT ![h.node] = h.timestamp]
    /\ UNCHANGED health

\* What the UPDATE makes of the row.
Store(h) ==
    /\ lastSeen' = [lastSeen EXCEPT ![h.node] = h.timestamp]
    /\ health' = [health EXCEPT ![h.node] = h.status]

\* The commit makes the row durable and releases the lock.
Commit(r) ==
    /\ phase[r] = "commit"
    /\ Store(heard[r])
    /\ writer' = None
    /\ Goto(r, "close") /\ Raise(r, "accepted")
    /\ UNCHANGED heard

\* Mutant: a failed write is tried again.
WriteFailsRetries(r) ==
    /\ \/ phase[r] = "update" /\ UNCHANGED rowVars
       \/ phase[r] = "commit" /\ UNCHANGED <<lastSeen, health>> /\ writer' = None
    /\ Goto(r, "update") /\ UNCHANGED result
    /\ UNCHANGED heard

\* The database is locked, or the UPDATE or the COMMIT raises; a COMMIT that
\* raises may have reached the disk.
WriteFails(r) ==
    /\ \/ phase[r] = "update" /\ UNCHANGED rowVars
       \/ phase[r] = "commit" /\ UNCHANGED rowVars
       \/ phase[r] = "commit" /\ Store(heard[r]) /\ writer' = None
    /\ Goto(r, "close") /\ Raise(r, "service_unavailable")
    /\ UNCHANGED heard

\* Rollback and close release the lock; either may raise.
Close(r) ==
    /\ phase[r] = "close"
    /\ writer' = IF writer = r THEN None ELSE writer
    /\ Goto(r, "done")
    /\ UNCHANGED result \/ Raise(r, "service_unavailable")
    /\ UNCHANGED <<lastSeen, health, heard>>

\* The process dies and starts again: calls and locks are gone, rows are not.
Restart ==
    /\ \E r \in Requests : phase[r] \notin {"new", "done", "lost"}
    /\ writer' = None
    /\ phase' = [r \in Requests |->
                    IF phase[r] \in {"new", "done"} THEN phase[r] ELSE "lost"]
    /\ UNCHANGED <<lastSeen, health, heard, result>>

Next == \/ \E r \in Requests :
              \/ \E h \in Heartbeats, now \in Instants : Arrive(r, h, now)
              \/ ArriveFails(r)
              \/ Update(r)
              \/ Commit(r)
              \/ WriteFails(r)
              \/ Close(r)
        \/ Restart

\* Each statement returns or raises: SQLite's busy timeout bounds the wait for
\* the write lock, so an UPDATE that never gets it fails.
Fairness == \A r \in Requests : WF_vars(Update(r) \/ Commit(r) \/ WriteFails(r) \/ Close(r))

Spec == Init /\ [][Next]_vars /\ Fairness
-----------------------------------------------------------------------------
\* The shape of the state; a request that commits holds the write lock.
TypeOK ==
    /\ lastSeen \in [Nodes -> {h.timestamp : h \in Heartbeats} \cup {None}]
    /\ health \in [Nodes -> {h.status : h \in Heartbeats} \cup {None}]
    /\ writer \in Requests \cup {None}
    /\ writer # None => phase[writer] \in {"commit", "close"}
    /\ heard \in [Requests -> Heartbeats \cup {None}]
    /\ phase \in [Requests -> {"new", "update", "commit", "close", "done", "lost"}]
    /\ result \in [Requests -> {"none", "unknown_node", "stale_timestamp", "future_timestamp",
                                "out_of_order_heartbeat", "accepted", "service_unavailable"}]
    /\ \A r \in Requests :
          /\ phase[r] = "commit" => writer = r
          /\ phase[r] \in {"update", "commit"} => heard[r] # None /\ heard[r].node \in Nodes

\* The state of a node never goes back in time, and at one instant it never
\* changes: of two heartbeats with one timestamp the first to commit stays.
NodeStateAdvances ==
    [][\A n \in Nodes : lastSeen[n] # None =>
          \/ lastSeen'[n] # None /\ lastSeen'[n] > lastSeen[n]
          \/ lastSeen'[n] = lastSeen[n] /\ health'[n] = health[n]]_<<lastSeen, health>>

\* Timestamp and status of a node come from one heartbeat, never a mixture,
\* and both are there or neither is (NodeRecord.to_heartbeat fails otherwise).
RowIsOneHeartbeat ==
    \A n \in Nodes :
       \/ lastSeen[n] = None /\ health[n] = None
       \/ \E r \in Requests : heard[r] = [node |-> n, timestamp |-> lastSeen[n],
                                          status |-> health[n]]

\* 202, and 409 out_of_order_heartbeat as well, are answered only when the
\* committed state of the node is at least as new as the heartbeat.
AnswersAreTrue ==
    \A r \in Requests : result[r] \in {"accepted", "out_of_order_heartbeat"} =>
       LET n == heard[r].node IN
          lastSeen[n] # None /\ lastSeen[n] >= heard[r].timestamp

\* A row as the register it stands for: empty, or the heartbeat whose timestamp
\* and status it holds.
Row(n) == IF lastSeen[n] = None /\ health[n] = None THEN None
          ELSE [node |-> n, timestamp |-> lastSeen[n], status |-> health[n]]

\* The conditional UPDATE and its COMMIT implement a register per node that only
\* advances, as a whole and at most once per request: neither two columns, nor
\* racing writers, nor a commit that fails after it took effect, nor a restart
\* can be seen in it.
Register == INSTANCE NodeRegister WITH register <- [n \in Nodes |-> Row(n)],
                                       answer <- result
ImplementsRegister == Register!Spec

\* Every heartbeat is answered, unless the process dies: no request waits for
\* the lock of another for ever.
EveryHeartbeatAnswered ==
    \A r \in Requests : (phase[r] = "update") ~> (phase[r] \in {"done", "lost"})
=============================================================================

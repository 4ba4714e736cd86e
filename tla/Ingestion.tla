------------------------------ MODULE Ingestion ------------------------------
(***************************************************************************)
(* Ingestion of signed detection events: DetectionEventIngestor.ingest of  *)
(* secureedge/ingestion.py behind the POST handler of apps/aggregator      *)
(* /api.py, with the replay policy, the SQLite database and the process.   *)
(*                                                                         *)
(* A request is one call of ingest.  Its steps are the points where other  *)
(* requests, readers, the clock or a crash can come between: the lookup    *)
(* and signature check, the two steps of the policy, the INSERT that       *)
(* Session.commit flushes, the COMMIT, and the close of the session.  Each *)
(* request is a caller of ReplayFreshnessPolicy, which this module extends.*)
(***************************************************************************)
EXTENDS ReplayFreshnessPolicy, FiniteSets

CONSTANTS
    Envelopes,         \* what clients send: [event, signer]
    Registry,          \* nodes table: function from node to its stored key
    BadKey,            \* a stored key that load_public_key refuses
    Readers,           \* GET handlers, which run in a thread pool
    SharedConnection,  \* TRUE for sqlite :memory: (StaticPool), FALSE for a file
    OneAtATime,        \* TRUE when ingest runs on the event loop (api.py), FALSE in threads
    MaxBoots           \* bound on the starts of the process

ASSUME IngestionAssumption ==
    /\ SharedConnection \in BOOLEAN
    /\ OneAtATime \in BOOLEAN
    /\ MaxBoots \in Nat \ {0}
    /\ \A v \in Envelopes : v.event \in Events
    /\ None \notin Envelopes
    /\ Readers \cap Callers = {}

Requests == Callers

VARIABLES
    envelope,  \* per request: the envelope it carries, or None
    phase,     \* per request: where its call of ingest is
    result,    \* per request: what ingest returns or raises once it has closed
    dirty,     \* per connection: the rows inserted in its open transaction
    durable,   \* the committed rows
    boot       \* which start of the process this is

callVars == <<envelope, phase, result>>
dbVars   == <<dirty, durable>>
allVars  == <<vars, callVars, dbVars, boot>>
-----------------------------------------------------------------------------
\* The connection a request or a reader works on.
Connection(p) == IF SharedConnection THEN "shared" ELSE p
Connections   == {Connection(p) : p \in Requests \cup Readers}

IngestInit == /\ Init
              /\ envelope = [r \in Requests |-> None]
              /\ phase = [r \in Requests |-> "new"]
              /\ result = [r \in Requests |-> "none"]
              /\ dirty = [k \in Connections |-> {}]
              /\ durable = {}
              /\ boot = 1

InProgress(r) == phase[r] \notin {"new", "done", "lost"}

Registered(v) == v.event.node \in DOMAIN Registry

\* Mutant: an envelope is taken for authentic without its signature.
AuthenticUnchecked(v) == Registered(v)

Authentic(v) == Registered(v) /\ Registry[v.event.node] = v.signer

\* The node lookup and the signature check of ingest, in its order.
Identify(v) ==
    IF ~Registered(v) THEN "unknown_node"
    ELSE IF Registry[v.event.node] = BadKey THEN "service_unavailable"
    ELSE IF ~Authentic(v) THEN "invalid_signature"
    ELSE "authentic"

Goto(r, p) == phase' = [phase EXCEPT ![r] = p]
Raise(r, reason) == result' = [result EXCEPT ![r] = reason]

\* What a call that will return or raise reason does next: a rejection writes
\* its alert first, anything else goes on to roll back and close.
PhaseAfter(reason) == IF reason = "service_unavailable" THEN "close" ELSE "alert"

\* A request arrives, opens its session, looks its node up and checks the
\* signature.  On the event loop it waits for the request before it to end.
Identification(r, v) ==
    /\ phase[r] = "new"
    /\ OneAtATime => \A q \in Requests : ~InProgress(q)
    /\ envelope' = [envelope EXCEPT ![r] = v]
    /\ IF Identify(v) = "authentic"
       THEN Goto(r, "policy") /\ UNCHANGED result
       ELSE Goto(r, PhaseAfter(Identify(v))) /\ Raise(r, Identify(v))
    /\ UNCHANGED <<vars, dbVars, boot>>

\* The session factory or the lookup raises.
SessionFails(r) ==
    /\ phase[r] = "new"
    /\ OneAtATime => \A q \in Requests : ~InProgress(q)
    /\ Raise(r, "service_unavailable")
    /\ Goto(r, "done")
    /\ UNCHANGED <<vars, envelope, dbVars, boot>>

\* _SECURITY_REASON_MAP: what ingest makes of the answer of the policy.
ReasonOf(answer) ==
    IF answer \in {"stale_timestamp", "future_timestamp",
                   "replayed_event_id", "replayed_nonce"}
    THEN answer ELSE "service_unavailable"

\* The policy is called, reads its clock and goes on to its lock.
PolicyStamp(r) ==
    /\ phase[r] = "policy"
    /\ Stamp(r, envelope[r].event)
    /\ UNCHANGED <<callVars, dbVars, boot>>

\* The policy refuses, before or under its lock.
PolicyRefuses(r) ==
    /\ phase[r] = "policy"
    /\ ClockFails(r) \/ RefuseByTime(r, envelope[r].event) \/ RefuseInLock(r)
    /\ Raise(r, ReasonOf(reply'[r]))
    /\ Goto(r, PhaseAfter(ReasonOf(reply'[r])))
    /\ UNCHANGED <<envelope, dbVars, boot>>

\* The policy accepts: both identifiers are reserved, nothing is stored yet.
PolicyAccepts(r) ==
    /\ phase[r] = "policy"
    /\ Accept(r)
    /\ Goto(r, "row")
    /\ UNCHANGED <<envelope, result, dbVars, boot>>

\* What the request inserts: the event, or the alert of its rejection.
RowOf(r) == IF phase[r] = "row"
            THEN [table |-> "detection_events", request |-> r, boot |-> boot,
                  event |-> envelope[r].event, reason |-> "accepted"]
            ELSE [table |-> "security_alerts", request |-> r, boot |-> boot,
                  event |-> envelope[r].event, reason |-> result[r]]

\* Mutant: the handler answers after the flush, without the commit.
FlushAnswers(r) ==
    /\ phase[r] \in {"row", "alert"}
    /\ dirty' = [dirty EXCEPT ![Connection(r)] = @ \cup {RowOf(r)}]
    /\ Goto(r, "close")
    /\ IF phase[r] = "row" THEN Raise(r, "accepted") ELSE UNCHANGED result
    /\ UNCHANGED <<vars, envelope, durable, boot>>

\* session.commit flushes the INSERT into the transaction of the connection.
Flush(r) ==
    /\ phase[r] \in {"row", "alert"}
    /\ dirty' = [dirty EXCEPT ![Connection(r)] = @ \cup {RowOf(r)}]
    /\ Goto(r, IF phase[r] = "row" THEN "commit_row" ELSE "commit_alert")
    /\ UNCHANGED <<vars, envelope, result, durable, boot>>

\* session.commit commits whatever the transaction of the connection holds;
\* only then does the call have its result.
Commit(r) ==
    /\ phase[r] \in {"commit_row", "commit_alert"}
    /\ durable' = durable \cup dirty[Connection(r)]
    /\ dirty' = [dirty EXCEPT ![Connection(r)] = {}]
    /\ Goto(r, "close")
    /\ IF phase[r] = "commit_row" THEN Raise(r, "accepted") ELSE UNCHANGED result
    /\ UNCHANGED <<vars, envelope, boot>>

\* Mutants: the failure of a write is swallowed; it is recorded as an alert.
WriteFailsIgnored(r) ==
    /\ phase[r] \in {"row", "alert", "commit_row", "commit_alert"}
    /\ UNCHANGED dbVars
    /\ Goto(r, "close")
    /\ UNCHANGED <<vars, envelope, result, boot>>
WriteFailsAlerts(r) ==
    /\ phase[r] \in {"row", "alert", "commit_row", "commit_alert"}
    /\ \/ UNCHANGED dbVars
       \/ /\ phase[r] \in {"commit_row", "commit_alert"}
          /\ durable' = durable \cup dirty[Connection(r)]
          /\ dirty' = [dirty EXCEPT ![Connection(r)] = {}]
    /\ Raise(r, "service_unavailable")
    /\ Goto(r, IF phase[r] = "commit_row" THEN "alert" ELSE "close")
    /\ UNCHANGED <<vars, envelope, boot>>

\* Building the row, its INSERT or the COMMIT raises; the last may have
\* reached the disk all the same.
WriteFails(r) ==
    /\ phase[r] \in {"row", "alert", "commit_row", "commit_alert"}
    /\ \/ UNCHANGED dbVars
       \/ /\ phase[r] \in {"commit_row", "commit_alert"}
          /\ durable' = durable \cup dirty[Connection(r)]
          /\ dirty' = [dirty EXCEPT ![Connection(r)] = {}]
    /\ Raise(r, "service_unavailable")
    /\ Goto(r, "close")
    /\ UNCHANGED <<vars, envelope, boot>>

\* session.rollback on an exception and session.close at the end: the open
\* transaction of the connection is rolled back.  Either call may raise, and
\* then the handler answers 503 whatever ingest had to say.
Close(r) ==
    /\ phase[r] = "close"
    /\ dirty' = [dirty EXCEPT ![Connection(r)] = {}]
    /\ Goto(r, "done")
    /\ UNCHANGED result \/ Raise(r, "service_unavailable")
    /\ UNCHANGED <<vars, envelope, durable, boot>>

\* A GET handler ends: its session closes, which rolls its connection back.
ReaderCloses(g) ==
    /\ dirty' = [dirty EXCEPT ![Connection(g)] = {}]
    /\ UNCHANGED <<vars, callVars, durable, boot>>

\* The process dies and starts again: the policy, the open transactions and
\* the requests in progress are gone, the database is not.
Restart ==
    /\ boot < MaxBoots
    /\ boot' = boot + 1
    /\ seen' = <<>> /\ latest' = None /\ log' = <<>>
    /\ pending' = [r \in Requests |-> None]
    /\ reply' = [r \in Requests |-> "none"]
    /\ phase' = [r \in Requests |-> IF InProgress(r) THEN "lost" ELSE phase[r]]
    /\ dirty' = [k \in Connections |-> {}]
    /\ UNCHANGED <<clock, setBack, envelope, result, durable>>

IngestNext ==
    \/ MoveClock /\ UNCHANGED <<callVars, dbVars, boot>>
    \/ \E r \in Requests :
          \/ \E v \in Envelopes : Identification(r, v)
          \/ SessionFails(r)
          \/ PolicyStamp(r)
          \/ PolicyRefuses(r)
          \/ PolicyAccepts(r)
          \/ Flush(r)
          \/ Commit(r)
          \/ WriteFails(r)
          \/ Close(r)
    \/ \E g \in Readers : ReaderCloses(g)
    \/ Restart

IngestSpec == IngestInit /\ [][IngestNext]_allVars
-----------------------------------------------------------------------------
\* The status the POST handler answers with (api.py 237-250).
Status(reason) == CASE reason = "accepted" -> 202
                    [] reason \in {"unknown_node", "invalid_signature"} -> 401
                    [] reason = "service_unavailable" -> 503
                    [] OTHER -> 409

Answered(r, codes) == phase[r] = "done" /\ Status(result[r]) \in codes

Rows(t) == {w \in durable : w.table = t}

\* 202 is answered only for an event that is in the database (docs/api.md 17-19:
\* "returned only after its metadata transaction commits").
AcceptedIsDurable ==
    \A r \in Requests : Answered(r, {202}) =>
       \E w \in Rows("detection_events") : w.request = r

\* A client told that it was refused, and why, left an alert of that reason.
RefusalIsRecorded ==
    \A r \in Requests : Answered(r, {401, 409}) =>
       \E w \in Rows("security_alerts") : w.request = r /\ w.reason = result[r]

\* One start of the process stores a signed event once, however often it is
\* sent and however many of the sends race (the table has no such constraint).
StoredOncePerBoot ==
    \A w, x \in Rows("detection_events") :
       (w.boot = x.boot /\ w.event = x.event) => w.request = x.request

\* A request leaves one row at most: never both an event and an alert.
OneRowPerRequest == \A w, x \in durable : w.request = x.request => w = x

\* What the policy has accepted is stored, is being stored, or was reported
\* as failed: a burnt reservation is never answered with anything but 503.
NoSilentLoss ==
    \A i \in DOMAIN log : \E r \in Requests :
       /\ envelope[r] # None /\ envelope[r].event = log[i].event
       /\ reply[r] = "accepted"
       /\ \/ InProgress(r)
          \/ Answered(r, {503})
          \/ \E w \in Rows("detection_events") : w.request = r

\* Only an envelope signed by the key its node is registered with reserves
\* identifiers or stores an event.
OnlySignedEventsCount ==
    \A r \in Requests :
       (reply[r] # "none" \/ pending[r] # None
          \/ \E w \in Rows("detection_events") : w.request = r) =>
       /\ envelope[r].event.node \in DOMAIN Registry
       /\ Registry[envelope[r].event.node] = envelope[r].signer
=============================================================================

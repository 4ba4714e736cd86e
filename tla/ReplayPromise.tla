---------------------------- MODULE ReplayPromise ----------------------------
(***************************************************************************)
(* What the replay policy of secureedge/security.py promises, stated with  *)
(* no cache at all: the policy behaves as if it remembered every event it  *)
(* ever accepted, and refuses a second use of an event ID or of a nonce of *)
(* the same node for as long as an earlier acceptance protects it.         *)
(* ReplayFreshnessPolicy, which prunes its dictionary, implements this.    *)
(***************************************************************************)
EXTENDS Integers, Sequences

CONSTANTS
    Callers,  \* threads that call accept_verified_event
    Events,   \* verified events: [node, event_id, nonce, timestamp]
    Instants, \* the representable readings of the clock
    Skew,     \* SecuritySettings.max_clock_skew_seconds
    Ttl,      \* SecuritySettings.nonce_ttl_seconds
    None      \* no event

VARIABLES
    log,      \* the acceptances so far, oldest first: [event, at]
    pending,  \* per caller: the fresh event it presents, [event, now], or None
    reply     \* what the latest finished call of each caller returned

promiseVars == <<log, pending, reply>>

\* The last instant at which an event accepted at t is protected.
ProtectedUntil(e, t) == IF t + Ttl >= e.timestamp + Skew
                        THEN t + Ttl ELSE e.timestamp + Skew

\* The two replay keys an event reserves, both scoped to its node.
EventKey(e) == <<"event_id", e.node, e.event_id>>
NonceKey(e) == <<"nonce", e.node, e.nonce>>
Keys(e)     == {EventKey(e), NonceKey(e)}

\* Key k is in use at instant t by an acceptance in the log.
InUse(k, t) == \E i \in DOMAIN log :
                  /\ k \in Keys(log[i].event)
                  /\ t <= ProtectedUntil(log[i].event, log[i].at)

Fresh(e, t) == t - Skew <= e.timestamp /\ e.timestamp <= t + Skew

Init == /\ log = <<>>
        /\ pending = [c \in Callers |-> None]
        /\ reply = [c \in Callers |-> "none"]

\* A caller presents an event that is fresh at the instant of its call.
Present(c, e, t) ==
    /\ pending[c] = None
    /\ Fresh(e, t)
    /\ pending' = [pending EXCEPT ![c] = [event |-> e, now |-> t]]
    /\ reply' = [reply EXCEPT ![c] = "none"]
    /\ UNCHANGED log

\* A call that presents nothing of the kind is refused for that.
RefuseEarly(c) ==
    /\ pending[c] = None
    /\ \E r \in {"stale_timestamp", "future_timestamp", "clock_failed", "out_of_range"} :
          reply' = [reply EXCEPT ![c] = r]
    /\ UNCHANGED <<log, pending>>

Answer(c, r) ==
    /\ pending' = [pending EXCEPT ![c] = None]
    /\ reply' = [reply EXCEPT ![c] = r]

\* An event is accepted if no acceptance is later than its call and neither of
\* its keys is in use.
Accept(c) ==
    /\ pending[c] # None
    /\ \A k \in Keys(pending[c].event) : ~InUse(k, pending[c].now)
    /\ \A i \in DOMAIN log : log[i].at <= pending[c].now
    /\ log' = Append(log, [event |-> pending[c].event, at |-> pending[c].now])
    /\ Answer(c, "accepted")

\* A call refused as a replay is one: the key it names is in use.
RefuseReplay(c) ==
    /\ pending[c] # None
    /\ \/ /\ InUse(EventKey(pending[c].event), pending[c].now)
          /\ Answer(c, "replayed_event_id")
       \/ /\ InUse(NonceKey(pending[c].event), pending[c].now)
          /\ Answer(c, "replayed_nonce")
    /\ UNCHANGED log

\* A call is refused for its clock if some acceptance is later than it.
RefuseClock(c) ==
    /\ pending[c] # None
    /\ \E i \in DOMAIN log : pending[c].now < log[i].at
    /\ Answer(c, "clock_backwards")
    /\ UNCHANGED log

Next == \E c \in Callers :
           \/ RefuseEarly(c)
           \/ \E e \in Events, t \in Instants : Present(c, e, t)
           \/ Accept(c)
           \/ RefuseReplay(c)
           \/ RefuseClock(c)

Spec == Init /\ [][Next]_promiseVars
=============================================================================

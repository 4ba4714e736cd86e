------------------------ MODULE ReplayFreshnessPolicy ------------------------
(***************************************************************************)
(* The replay and freshness policy of secureedge/security.py: one object,  *)
(* called by several threads, that accepts a verified event when its       *)
(* timestamp is fresh and neither its event ID nor its nonce is reserved.  *)
(*                                                                         *)
(* A call has two steps.  Outside the lock it reads the wall clock and     *)
(* judges freshness on that reading (lines 141-189); under the lock it     *)
(* compares the reading with the latest acceptance, prunes and reserves    *)
(* (lines 191-212).  Other callers run, and the clock moves, in between.   *)
(* Instants are integers; MinInstant..MaxInstant stands for the range of   *)
(* Python's datetime, outside which arithmetic raises OverflowError.       *)
(***************************************************************************)
EXTENDS Integers, Sequences

CONSTANTS
    Callers,             \* threads that call accept_verified_event
    Events,              \* verified events: [node, event_id, nonce, timestamp]
    Skew,                \* SecuritySettings.max_clock_skew_seconds
    Ttl,                 \* SecuritySettings.nonce_ttl_seconds
    MinInstant,          \* datetime.min
    MaxInstant,          \* datetime.max
    ClockMayStepBack,    \* whether the wall clock may be set back
    None                 \* Python's None

Instants == MinInstant .. MaxInstant

ASSUME SettingsAssumption ==
    /\ Skew \in Nat \ {0}
    /\ Ttl \in Nat \ {0}

ASSUME ClockAssumption ==
    /\ MinInstant \in Int
    /\ MaxInstant \in Int
    /\ MinInstant =< MaxInstant
    /\ ClockMayStepBack \in BOOLEAN

ASSUME EventsAssumption == \A e \in Events : e.timestamp \in Instants

ASSUME NoneAssumption ==
    /\ None \notin Int
    /\ None \notin [event : Events, now : Instants]

VARIABLES
    clock,    \* what the injected clock would return now
    seen,     \* _seen: the reserved keys with the instants they expire
    latest,   \* _latest_accepted_at_utc
    pending,  \* per caller: the event and reading it takes to the lock, or None
    reply,    \* per caller: what its latest call returned or raised
    log,      \* history: the acceptances, oldest first
    setBack   \* history: whether the clock was ever set back

vars == <<clock, seen, latest, pending, reply, log, setBack>>

\* Mutant: the freshness horizon of the event is forgotten.
ProtectedUntilTtlOnly(e, t) == t + Ttl

\* replay_expiry: the later of the TTL and the last instant the event is fresh.
ProtectedUntil(e, t) == IF t + Ttl >= e.timestamp + Skew
                        THEN t + Ttl ELSE e.timestamp + Skew

\* Mutant: the event ID is not scoped by its node.
EventKeyUnscoped(e) == <<"event_id", "any", e.event_id>>

EventKey(e) == <<"event_id", e.node, e.event_id>>
NonceKey(e) == <<"nonce", e.node, e.nonce>>
Keys(e)     == {EventKey(e), NonceKey(e)}
-----------------------------------------------------------------------------
Init == /\ clock \in Instants
        /\ seen = <<>>
        /\ latest = None
        /\ pending = [c \in Callers |-> None]
        /\ reply = [c \in Callers |-> "none"]
        /\ log = <<>>
        /\ setBack = FALSE

\* The environment: time passes, or the wall clock is set back.
MoveClock ==
    /\ \E t \in Instants \ {clock} :
          /\ t < clock => ClockMayStepBack
          /\ setBack' = (setBack \/ t < clock)
          /\ clock' = t
    /\ UNCHANGED <<seen, latest, pending, reply, log>>

\* Mutant: the expiry is not checked for overflow.
JudgementUnranged(e, t) ==
    IF e.timestamp < t - Skew THEN "stale_timestamp"
    ELSE IF e.timestamp > t + Skew THEN "future_timestamp"
    ELSE "fresh"

\* What the code before the lock concludes from the reading t, in its order.
Judgement(e, t) ==
    IF t - Skew < MinInstant \/ t + Skew > MaxInstant THEN "out_of_range"
    ELSE IF e.timestamp < t - Skew THEN "stale_timestamp"
    ELSE IF e.timestamp > t + Skew THEN "future_timestamp"
    ELSE IF t + Ttl > MaxInstant \/ e.timestamp + Skew > MaxInstant THEN "out_of_range"
    ELSE "fresh"

Return(c, r) == reply' = [reply EXCEPT ![c] = r]

\* The injected clock raises, or returns something that is not a UTC datetime.
ClockFails(c) ==
    /\ pending[c] = None
    /\ Return(c, "clock_failed")
    /\ UNCHANGED <<clock, seen, latest, pending, log, setBack>>

\* The call raises before it takes the lock.
RefuseByTime(c, e) ==
    /\ pending[c] = None
    /\ Judgement(e, clock) # "fresh"
    /\ Return(c, Judgement(e, clock))
    /\ UNCHANGED <<clock, seen, latest, pending, log, setBack>>

\* The event is fresh on the present reading, which the call keeps.
Stamp(c, e) ==
    /\ pending[c] = None
    /\ Judgement(e, clock) = "fresh"
    /\ pending' = [pending EXCEPT ![c] = [event |-> e, now |-> clock]]
    /\ Return(c, "none")
    /\ UNCHANGED <<clock, seen, latest, log, setBack>>

\* Mutant: a reading behind the high-water mark is not refused.
BehindLatestIgnored(t) == FALSE

BehindLatest(t) == latest # None /\ t < latest

\* Mutant: expiry is exclusive.
RetainedKeysExclusive(t) == {k \in DOMAIN seen : seen[k] > t}

\* The reservations that have not expired at t (expiry is inclusive).
RetainedKeys(t) == {k \in DOMAIN seen : seen[k] >= t}

\* Mutant: only the event ID is reserved.
PublishHalf(e, t) ==
    /\ seen' = [k \in RetainedKeys(t) \cup {EventKey(e)} |->
                   IF k = EventKey(e) THEN ProtectedUntil(e, t) ELSE seen[k]]
    /\ latest' = t

\* The lock is taken, _seen becomes the retained keys and both keys of e.
Publish(e, t) ==
    /\ seen' = [k \in RetainedKeys(t) \cup Keys(e) |->
                   IF k \in Keys(e) THEN ProtectedUntil(e, t) ELSE seen[k]]
    /\ latest' = t

LockVerdict(e, t) ==
    IF BehindLatest(t) THEN "clock_backwards"
    ELSE IF EventKey(e) \in RetainedKeys(t) THEN "replayed_event_id"
    ELSE IF NonceKey(e) \in RetainedKeys(t) THEN "replayed_nonce"
    ELSE "accepted"

\* The call raises inside the lock and publishes nothing, pruning included.
RefuseInLock(c) ==
    /\ pending[c] # None
    /\ LET v == LockVerdict(pending[c].event, pending[c].now)
       IN  v # "accepted" /\ Return(c, v)
    /\ pending' = [pending EXCEPT ![c] = None]
    /\ UNCHANGED <<clock, seen, latest, log, setBack>>

Accept(c) ==
    /\ pending[c] # None
    /\ LockVerdict(pending[c].event, pending[c].now) = "accepted"
    /\ Publish(pending[c].event, pending[c].now)
    /\ log' = Append(log, [event |-> pending[c].event, at |-> pending[c].now])
    /\ Return(c, "accepted")
    /\ pending' = [pending EXCEPT ![c] = None]
    /\ UNCHANGED <<clock, setBack>>

Next == \/ MoveClock
        \/ \E c \in Callers :
              \/ ClockFails(c)
              \/ \E e \in Events : RefuseByTime(c, e) \/ Stamp(c, e)
              \/ RefuseInLock(c)
              \/ Accept(c)

Spec == Init /\ [][Next]_vars
-----------------------------------------------------------------------------
Replies == {"none", "clock_failed", "out_of_range", "stale_timestamp",
            "future_timestamp", "clock_backwards", "replayed_event_id",
            "replayed_nonce", "accepted"}

Stamps      == [event : Events, now : Instants]
Acceptances == [event : Events, at : Instants]

\* The shape of the policy's state.  A stamp that waits for the lock, unlike
\* an arbitrary pair, is fresh and in range on its reading.
TypeOK ==
    /\ clock \in Instants
    /\ DOMAIN seen \subseteq UNION {Keys(e) : e \in Events}
    /\ \A k \in DOMAIN seen : seen[k] \in Instants
    /\ latest \in Instants \cup {None}
    /\ pending \in [Callers -> Stamps \cup {None}]
    /\ \A c \in Callers : pending[c] # None =>
          Judgement(pending[c].event, pending[c].now) = "fresh"
    /\ reply \in [Callers -> Replies]
    /\ log \in Seq(Acceptances)
    /\ setBack \in BOOLEAN

\* The same signed event is accepted at most once in the life of the policy,
\* however the clock jumps and the callers interleave: pruning (security.py
\* 198-202) never reopens an event that could still pass the freshness check.
NeverAcceptedTwice ==
    \A i, j \in DOMAIN log : log[i].event = log[j].event => i = j

\* Two acceptances that share an event ID or a nonce of a node are more than
\* the TTL apart, and the later one carries a later timestamp.
ReuseOnlyAfterExpiry ==
    \A i, j \in DOMAIN log :
       (i < j /\ Keys(log[i].event) \cap Keys(log[j].event) # {}) =>
          /\ log[j].at > log[i].at + Ttl
          /\ log[j].event.timestamp > log[i].event.timestamp

\* An acceptance is forgotten only once it has expired: until the high-water
\* mark passes its horizon, both its keys are held until exactly then.
RememberedUntilExpiry ==
    \A i \in DOMAIN log :
       LET until == ProtectedUntil(log[i].event, log[i].at) IN
          \/ latest # None /\ until < latest
          \/ \A k \in Keys(log[i].event) : k \in DOMAIN seen /\ seen[k] = until

\* Reservations come in pairs: each key is held by one acceptance, whose
\* other key is held with it until the same instant (security.py 208-211).
ReservedTogether ==
    \A k \in DOMAIN seen : \E i \in DOMAIN log :
       /\ k \in Keys(log[i].event)
       /\ \A m \in Keys(log[i].event) :
             m \in DOMAIN seen /\ seen[m] = ProtectedUntil(log[i].event, log[i].at)

\* What the policy holds had not expired at the latest acceptance, so the
\* dictionary is bounded by the events accepted in one protection period.
NothingExpiredIsHeld == \A k \in DOMAIN seen : latest # None /\ seen[k] >= latest

\* The dictionary holds the reservations that can still matter, in pairs, and
\* nothing else, however pruning and acceptances interleave.
DictionaryIsExact == RememberedUntilExpiry /\ ReservedTogether /\ NothingExpiredIsHeld

\* The high-water mark never falls, though callers reach the lock in another
\* order than they read the clock and the clock itself may be set back.
HighWaterMarkRises == [][latest # None => latest' # None /\ latest' >= latest]_latest

\* The policy with its pruned dictionary implements the policy that remembers
\* every acceptance: no reuse is missed and no refusal is invented.
Promise == INSTANCE ReplayPromise
ImplementsPromise == Promise!Spec

\* The error "security clock moved backwards" (security.py 196) is raised only
\* if the clock did move backwards.
BackwardsClockIsTrue ==
    \A c \in Callers : reply[c] = "clock_backwards" => setBack
=============================================================================

---------------------------- MODULE IngestionProofs ----------------------------
(***************************************************************************)
(* What the ingestion of signed events guarantees for every set of         *)
(* requests, envelopes and readers, however they race, fail and are cut    *)
(* short.  The first part is about the replay and freshness policy alone,  *)
(* for every set of callers and events, every skew and TTL and every       *)
(* behaviour of the clock.                                                 *)
(***************************************************************************)
EXTENDS Ingestion, SequenceTheorems, TLAPS

USE SettingsAssumption, ClockAssumption, EventsAssumption, NoneAssumption

\* An event that is fresh on reading t is within the skew of it, and every
\* instant the policy computes from it is representable.
LEMMA FreshInRange ==
    ASSUME NEW e \in Events, NEW t \in Instants, Judgement(e, t) = "fresh"
    PROVE  /\ t - Skew =< e.timestamp
           /\ e.timestamp =< t + Skew
           /\ ProtectedUntil(e, t) \in Instants
           /\ ProtectedUntil(e, t) >= t + Ttl
           /\ ProtectedUntil(e, t) >= e.timestamp + Skew
  <1>1. e.timestamp \in Instants
    OBVIOUS
  <1>2. /\ ~(t - Skew < MinInstant \/ t + Skew > MaxInstant)
        /\ ~(e.timestamp < t - Skew)
        /\ ~(e.timestamp > t + Skew)
        /\ ~(t + Ttl > MaxInstant \/ e.timestamp + Skew > MaxInstant)
    BY DEF Judgement
  <1> QED
    BY <1>1, <1>2 DEF ProtectedUntil, Instants

\* What publishing the reservations of e at t makes of the dictionary.
LEMMA PublishedKeys ==
    ASSUME NEW e \in Events, NEW t \in Instants, Publish(e, t)
    PROVE  /\ DOMAIN seen' = RetainedKeys(t) \cup Keys(e)
           /\ \A k \in Keys(e) : seen'[k] = ProtectedUntil(e, t)
           /\ \A k \in RetainedKeys(t) \ Keys(e) : seen'[k] = seen[k]
           /\ latest' = t
  BY Zenon DEF Publish

\* Every step keeps the shape of the state.
LEMMA NextKeepsType ==
    ASSUME TypeOK, [Next]_vars
    PROVE  TypeOK'
  <1> USE DEF TypeOK
  <1>1. CASE MoveClock
    BY <1>1 DEF MoveClock
  <1>2. ASSUME NEW c \in Callers, ClockFails(c)
        PROVE  TypeOK'
    BY <1>2 DEF ClockFails, Return, Replies
  <1>3. ASSUME NEW c \in Callers, NEW e \in Events, RefuseByTime(c, e)
        PROVE  TypeOK'
    <2>1. Judgement(e, clock) \in Replies
      BY <1>3 DEF RefuseByTime, Judgement, Replies
    <2> QED
      BY <1>3, <2>1 DEF RefuseByTime, Return
  <1>4. ASSUME NEW c \in Callers, NEW e \in Events, Stamp(c, e)
        PROVE  TypeOK'
    <2>1. [event |-> e, now |-> clock] \in Stamps
      BY DEF Stamps
    <2>2. pending' \in [Callers -> Stamps \cup {None}]
      BY <1>4, <2>1 DEF Stamp
    <2>3. \A d \in Callers : pending'[d] # None =>
             Judgement(pending'[d].event, pending'[d].now) = "fresh"
      BY <1>4 DEF Stamp
    <2>4. reply' \in [Callers -> Replies]
      BY <1>4 DEF Stamp, Return, Replies
    <2> QED
      BY <1>4, <2>2, <2>3, <2>4 DEF Stamp, Judgement
  <1>5. ASSUME NEW c \in Callers, RefuseInLock(c)
        PROVE  TypeOK'
    <2>1. LockVerdict(pending[c].event, pending[c].now) \in Replies
      BY DEF LockVerdict, Replies
    <2> QED
      BY <1>5, <2>1 DEF RefuseInLock, Return, Judgement
  <1>6. ASSUME NEW c \in Callers, Accept(c)
        PROVE  TypeOK'
    <2> DEFINE e == pending[c].event
               t == pending[c].now
    <2>1. e \in Events /\ t \in Instants /\ Judgement(e, t) = "fresh"
      BY <1>6 DEF Accept, Stamps
    <2>2. ProtectedUntil(e, t) \in Instants
      BY <2>1, FreshInRange
    <2>3. Publish(e, t)
      BY <1>6 DEF Accept
    <2> HIDE DEF e, t
    <2>4. /\ DOMAIN seen' \subseteq UNION {Keys(f) : f \in Events}
          /\ \A k \in DOMAIN seen' : seen'[k] \in Instants
          /\ latest' \in Instants \cup {None}
      <3>1. RetainedKeys(t) \subseteq DOMAIN seen
        BY DEF RetainedKeys
      <3>2. /\ DOMAIN seen' = RetainedKeys(t) \cup Keys(e)
            /\ \A k \in Keys(e) : seen'[k] = ProtectedUntil(e, t)
            /\ \A k \in RetainedKeys(t) \ Keys(e) : seen'[k] = seen[k]
            /\ latest' = t
        BY <2>1, <2>3, PublishedKeys
      <3>3. \A k \in DOMAIN seen' : seen'[k] \in Instants
        BY <3>2, <2>2, <3>1
      <3>4. DOMAIN seen' \subseteq UNION {Keys(f) : f \in Events}
        BY <3>2, <2>1, <3>1
      <3> QED
        BY <3>2, <3>3, <3>4, <2>1
    <2>5. log' \in Seq(Acceptances)
      <3>1. [event |-> e, at |-> t] \in Acceptances
        BY <2>1 DEF Acceptances
      <3>2. log' = Append(log, [event |-> e, at |-> t])
        BY <1>6 DEF Accept, e, t
      <3> QED
        BY <3>1, <3>2, AppendProperties
    <2>6. /\ pending' \in [Callers -> Stamps \cup {None}]
          /\ \A d \in Callers : pending'[d] # None =>
                Judgement(pending'[d].event, pending'[d].now) = "fresh"
      BY <1>6 DEF Accept
    <2>7. reply' \in [Callers -> Replies]
      BY <1>6 DEF Accept, Return, Replies
    <2> QED
      BY <1>6, <2>4, <2>5, <2>6, <2>7 DEF Accept, Judgement
  <1>7. CASE UNCHANGED vars
    BY <1>7 DEF vars, Judgement
  <1> QED
    BY <1>1, <1>2, <1>3, <1>4, <1>5, <1>6, <1>7 DEF Next

\* The state keeps its shape.
THEOREM TypeCorrect == Spec => []TypeOK
  <1>1. Init => TypeOK
    <2>1. DOMAIN <<>> = {}
      OBVIOUS
    <2>2. <<>> \in Seq(Acceptances)
      BY EmptySeq
    <2> QED
      BY <2>1, <2>2 DEF Init, TypeOK, Replies
  <1> QED
    BY <1>1, NextKeepsType, PTL DEF Spec
-----------------------------------------------------------------------------
\* No acceptance is later than the high-water mark, and each was fresh.
AcceptedInTheWindow ==
    \A i \in DOMAIN log :
       /\ latest # None /\ log[i].at =< latest
       /\ log[i].at - Skew =< log[i].event.timestamp
       /\ log[i].event.timestamp =< log[i].at + Skew

\* The high-water mark is the instant of an acceptance.
MarkIsAnAcceptance == latest # None => \E i \in DOMAIN log : log[i].at = latest

\* The inductive invariant: the dictionary and the log of all acceptances
\* agree on everything that has not expired at the high-water mark.
IInv == /\ TypeOK
        /\ AcceptedInTheWindow
        /\ MarkIsAnAcceptance
        /\ RememberedUntilExpiry
        /\ ReservedTogether
        /\ NothingExpiredIsHeld
        /\ ReuseOnlyAfterExpiry

\* The log is a sequence of acceptances, whose instants can be compared.
LEMMA LogShape ==
    ASSUME TypeOK
    PROVE  /\ Len(log) \in Nat
           /\ DOMAIN log = 1 .. Len(log)
           /\ \A i \in DOMAIN log : /\ log[i] \in Acceptances
                                    /\ log[i].event \in Events
                                    /\ log[i].event.timestamp \in Int
                                    /\ log[i].at \in Int
                                    /\ ProtectedUntil(log[i].event, log[i].at) \in Int
  <1>1. log \in Seq(Acceptances)
    BY DEF TypeOK
  <1>2. /\ Len(log) \in Nat
        /\ DOMAIN log = 1 .. Len(log)
        /\ \A i \in DOMAIN log : log[i] \in Acceptances
    BY <1>1, LenProperties, ElementOfSeq
  <1>3. ASSUME NEW a \in Acceptances
        PROVE  /\ a.event \in Events
               /\ a.event.timestamp \in Int
               /\ a.at \in Int
               /\ ProtectedUntil(a.event, a.at) \in Int
    <2>1. a.event \in Events /\ a.at \in Instants
      BY DEF Acceptances
    <2> QED
      BY <2>1 DEF ProtectedUntil, Instants
  <1> QED
    BY <1>2, <1>3

\* What an acceptance does to the log, with the facts its guard gives.
LEMMA AcceptedEntry ==
    ASSUME TypeOK, NEW c \in Callers, Accept(c)
    PROVE  LET e == pending[c].event
               t == pending[c].now
           IN  /\ e \in Events /\ t \in Instants /\ Judgement(e, t) = "fresh"
               /\ Publish(e, t)
               /\ ~BehindLatest(t)
               /\ Keys(e) \cap RetainedKeys(t) = {}
               /\ DOMAIN log' = DOMAIN log \cup {Len(log) + 1}
               /\ \A i \in DOMAIN log : log'[i] = log[i]
               /\ log'[Len(log) + 1] = [event |-> e, at |-> t]
               /\ Len(log) + 1 \notin DOMAIN log
  <1> DEFINE e == pending[c].event
             t == pending[c].now
  <1>1. e \in Events /\ t \in Instants /\ Judgement(e, t) = "fresh"
    BY DEF Accept, TypeOK, Stamps
  <1>2. Publish(e, t) /\ LockVerdict(e, t) = "accepted"
    BY DEF Accept
  <1>3. ~BehindLatest(t) /\ Keys(e) \cap RetainedKeys(t) = {}
    BY <1>2 DEF LockVerdict, Keys
  <1>4. log' = Append(log, [event |-> e, at |-> t])
    BY DEF Accept
  <1>5. log \in Seq(Acceptances) /\ [event |-> e, at |-> t] \in Acceptances
    BY <1>1 DEF TypeOK, Acceptances
  <1>6. /\ log' \in Seq(Acceptances)
        /\ Len(log') = Len(log) + 1
        /\ \A i \in 1 .. Len(log) : log'[i] = log[i]
        /\ log'[Len(log) + 1] = [event |-> e, at |-> t]
    BY <1>4, <1>5, AppendProperties
  <1>7. DOMAIN log = 1 .. Len(log) /\ Len(log) \in Nat /\ DOMAIN log' = 1 .. Len(log) + 1
    BY <1>5, <1>6, LenProperties
  <1> QED
    BY <1>1, <1>2, <1>3, <1>6, <1>7

\* The invariant speaks of the log, the dictionary and the mark only, so it
\* survives every step that leaves the three alone.
LEMMA KeptWhenNothingIsPublished ==
    ASSUME IInv, TypeOK', UNCHANGED <<seen, latest, log>>
    PROVE  IInv'
  BY DEF IInv, AcceptedInTheWindow, MarkIsAnAcceptance, RememberedUntilExpiry, ReservedTogether,
         NothingExpiredIsHeld, ReuseOnlyAfterExpiry, ProtectedUntil

\* An acceptance, the only step that publishes, keeps the invariant.
LEMMA AcceptKeepsInvariant ==
    ASSUME IInv, TypeOK', NEW c \in Callers, Accept(c)
    PROVE  IInv'
  <1> DEFINE e == pending[c].event
             t == pending[c].now
             n == Len(log) + 1
             U(i) == ProtectedUntil(log[i].event, log[i].at)
  <1>1. /\ e \in Events /\ t \in Instants /\ Judgement(e, t) = "fresh"
        /\ Publish(e, t)
        /\ ~BehindLatest(t)
        /\ Keys(e) \cap RetainedKeys(t) = {}
        /\ DOMAIN log' = DOMAIN log \cup {n}
        /\ \A i \in DOMAIN log : log'[i] = log[i]
        /\ log'[n] = [event |-> e, at |-> t]
        /\ n \notin DOMAIN log
    BY AcceptedEntry DEF IInv
  <1>2. /\ DOMAIN seen' = RetainedKeys(t) \cup Keys(e)
        /\ \A k \in Keys(e) : seen'[k] = ProtectedUntil(e, t)
        /\ \A k \in RetainedKeys(t) \ Keys(e) : seen'[k] = seen[k]
        /\ latest' = t
    BY <1>1, PublishedKeys
  <1>3. /\ t - Skew =< e.timestamp
        /\ e.timestamp =< t + Skew
        /\ ProtectedUntil(e, t) \in Int
        /\ ProtectedUntil(e, t) >= t + Ttl
        /\ ProtectedUntil(e, t) >= e.timestamp + Skew
        /\ e.timestamp \in Int
        /\ t \in Int
    <2>1. /\ t - Skew =< e.timestamp /\ e.timestamp =< t + Skew
          /\ ProtectedUntil(e, t) \in Instants
          /\ ProtectedUntil(e, t) >= t + Ttl
          /\ ProtectedUntil(e, t) >= e.timestamp + Skew
      BY <1>1, FreshInRange
    <2>2. t \in Instants /\ e.timestamp \in Instants
      BY <1>1
    <2>3. \A x \in Instants : x \in Int
      BY DEF Instants
    <2> HIDE DEF e, t
    <2> QED
      BY <2>1, <2>2, <2>3
  <1>4. /\ n - 1 = Len(log) /\ DOMAIN log = 1 .. Len(log) /\ Len(log) \in Nat
        /\ \A i \in DOMAIN log : log[i].event.timestamp \in Int /\ log[i].at \in Int /\ U(i) \in Int
    BY LogShape DEF IInv
  <1>5. latest # None => latest \in Int /\ latest =< t
    BY <1>1, <1>3 DEF IInv, TypeOK, BehindLatest, Instants
  <1>6. \A k \in DOMAIN seen : seen[k] \in Int
    BY DEF IInv, TypeOK, Instants
  <1>7. ProtectedUntil(log'[n].event, log'[n].at) = ProtectedUntil(e, t)
    BY <1>1
  <1>8. t # None
    BY <1>3
  <1>9. \A i \in DOMAIN log : U(i) >= log[i].at + Ttl /\ U(i) >= log[i].event.timestamp + Skew
    BY <1>4 DEF ProtectedUntil
  \* A key of an earlier acceptance that is still protected at t is retained.
  <1>10. ASSUME NEW i \in DOMAIN log, t =< U(i), NEW k \in Keys(log[i].event)
         PROVE  k \in RetainedKeys(t) /\ seen[k] = U(i) /\ k \notin Keys(e)
    <2>1. ~(latest # None /\ U(i) < latest)
      BY <1>10, <1>5, <1>4, <1>3
    <2>2. k \in DOMAIN seen /\ seen[k] = U(i)
      BY <2>1, <1>10 DEF IInv, RememberedUntilExpiry
    <2>3. k \in RetainedKeys(t)
      BY <2>2, <1>10, <1>4, <1>3 DEF RetainedKeys
    <2> QED
      BY <2>2, <2>3, <1>1
  <1> HIDE DEF e, t, n, U
  <1>11. AcceptedInTheWindow'
    <2>1. ASSUME NEW i \in DOMAIN log
          PROVE  /\ latest' # None /\ log'[i].at =< latest'
                 /\ log'[i].at - Skew =< log'[i].event.timestamp
                 /\ log'[i].event.timestamp =< log'[i].at + Skew
      <3>1. /\ latest # None /\ log[i].at =< latest
            /\ log[i].at - Skew =< log[i].event.timestamp
            /\ log[i].event.timestamp =< log[i].at + Skew
        BY DEF IInv, AcceptedInTheWindow
      <3>2. log'[i] = log[i] /\ latest' = t /\ t # None
        BY <1>1, <1>2, <1>8
      <3>3. log[i].at \in Int /\ latest \in Int /\ latest =< t /\ t \in Int
        BY <3>1, <1>3, <1>4, <1>5
      <3>4. log[i].at =< t
        BY <3>1, <3>3
      <3> QED
        BY <3>1, <3>2, <3>4
    <2>2. /\ latest' # None /\ log'[n].at =< latest'
          /\ log'[n].at - Skew =< log'[n].event.timestamp
          /\ log'[n].event.timestamp =< log'[n].at + Skew
      BY <1>1, <1>2, <1>3, <1>8
    <2> QED
      BY <2>1, <2>2, <1>1 DEF AcceptedInTheWindow
  <1>12. RememberedUntilExpiry'
    <2>1. ASSUME NEW i \in DOMAIN log, t =< U(i), NEW k \in Keys(log[i].event)
          PROVE  k \in DOMAIN seen' /\ seen'[k] = U(i)
      BY <2>1, <1>10, <1>2
    <2>2. \A k \in Keys(e) : k \in DOMAIN seen' /\ seen'[k] = ProtectedUntil(e, t)
      BY <1>2
    <2>3. ASSUME NEW i \in DOMAIN log'
          PROVE  \/ latest' # None /\ ProtectedUntil(log[i].event, log[i].at)' < latest'
                 \/ \A k \in Keys(log[i].event)' :
                       k \in DOMAIN seen' /\ seen'[k] = ProtectedUntil(log[i].event, log[i].at)'
      <3>1. CASE i = n
        <4>1. Keys(log[i].event)' = Keys(e) /\ ProtectedUntil(log[i].event, log[i].at)' = ProtectedUntil(e, t)
          BY <3>1, <1>1 DEF Keys, EventKey, NonceKey, ProtectedUntil
        <4> QED
          BY <4>1, <2>2
      <3>2. CASE i \in DOMAIN log
        <4>1. Keys(log[i].event)' = Keys(log[i].event) /\ ProtectedUntil(log[i].event, log[i].at)' = U(i)
          BY <3>2, <1>1 DEF Keys, EventKey, NonceKey, ProtectedUntil, U
        <4>2. U(i) \in Int
          BY <3>2, <1>4
        <4> QED
          BY <4>1, <4>2, <3>2, <2>1, <1>2, <1>3, <1>8
      <3> QED
        BY <3>1, <3>2, <1>1
    <2> QED
      BY <2>3 DEF RememberedUntilExpiry
  <1>13. ReservedTogether'
    <2>1. ASSUME NEW k \in DOMAIN seen'
          PROVE  \E i \in DOMAIN log' :
                    /\ k \in Keys(log'[i].event)
                    /\ \A m \in Keys(log'[i].event) :
                          m \in DOMAIN seen' /\ seen'[m] = ProtectedUntil(log'[i].event, log'[i].at)
      <3>1. CASE k \in Keys(e)
        <4>1. log'[n].event = e /\ log'[n].at = t /\ n \in DOMAIN log'
          BY <1>1
        <4> QED
          BY <4>1, <3>1, <1>2
      <3>2. CASE k \in RetainedKeys(t) \ Keys(e)
        <4>1. k \in DOMAIN seen /\ seen[k] >= t
          BY <3>2 DEF RetainedKeys
        <4>2. PICK i \in DOMAIN log :
                 /\ k \in Keys(log[i].event)
                 /\ \A m \in Keys(log[i].event) : m \in DOMAIN seen /\ seen[m] = U(i)
          BY <4>1 DEF IInv, ReservedTogether, U
        <4>3. t =< U(i)
          BY <4>1, <4>2, <1>3, <1>4, <1>6
        <4>4. \A m \in Keys(log[i].event) : m \in DOMAIN seen' /\ seen'[m] = U(i)
          BY <4>3, <1>10, <1>2
        <4>5. log'[i] = log[i] /\ i \in DOMAIN log'
          BY <1>1
        <4> QED
          BY <4>2, <4>4, <4>5 DEF U
      <3> QED
        BY <3>1, <3>2, <1>2
    <2> QED
      BY <2>1 DEF ReservedTogether, Keys, EventKey, NonceKey, ProtectedUntil
  <1>14. NothingExpiredIsHeld'
    <2>1. ASSUME NEW k \in DOMAIN seen'
          PROVE  seen'[k] >= t
      <3>1. CASE k \in Keys(e)
        BY <3>1, <1>2, <1>3
      <3>2. CASE k \in RetainedKeys(t) \ Keys(e)
        BY <3>2, <1>2 DEF RetainedKeys
      <3> QED
        BY <3>1, <3>2, <1>2
    <2> QED
      BY <2>1, <1>2, <1>8 DEF NothingExpiredIsHeld
  <1>15. ReuseOnlyAfterExpiry'
    <2>1. ASSUME NEW i \in DOMAIN log, Keys(log[i].event) \cap Keys(e) # {}
          PROVE  t > log[i].at + Ttl /\ e.timestamp > log[i].event.timestamp
      <3>1. U(i) < t
        BY <2>1, <1>10, <1>3, <1>4
      <3>2. /\ log[i].event.timestamp \in Int /\ log[i].at \in Int /\ U(i) \in Int
            /\ U(i) >= log[i].at + Ttl /\ U(i) >= log[i].event.timestamp + Skew
        BY <1>4, <1>9
      <3>3. log[i].at + Ttl < t
        BY <3>1, <3>2, <1>3
      <3>4. log[i].event.timestamp < t - Skew
        BY <3>1, <3>2, <1>3
      <3> QED
        BY <3>2, <3>3, <3>4, <1>3
    <2>2. ASSUME NEW i \in DOMAIN log', NEW j \in DOMAIN log', i < j,
                 Keys(log'[i].event) \cap Keys(log'[j].event) # {}
          PROVE  /\ log'[j].at > log'[i].at + Ttl
                 /\ log'[j].event.timestamp > log'[i].event.timestamp
      <3>1. i \in DOMAIN log
        BY <2>2, <1>1, <1>4 DEF n
      <3>2. CASE j = n
        BY <3>1, <3>2, <2>1, <2>2, <1>1
      <3>3. CASE j \in DOMAIN log
        BY <3>1, <3>3, <2>2, <1>1 DEF IInv, ReuseOnlyAfterExpiry
      <3> QED
        BY <3>2, <3>3, <1>1
    <2> QED
      BY <2>2 DEF ReuseOnlyAfterExpiry, Keys, EventKey, NonceKey
  <1>16. MarkIsAnAcceptance'
    BY <1>1, <1>2 DEF MarkIsAnAcceptance
  <1> QED
    BY <1>11, <1>12, <1>13, <1>14, <1>15, <1>16 DEF IInv

\* A policy that has accepted nothing, as every start of the process makes one.
Unused == /\ clock \in Instants /\ setBack \in BOOLEAN
          /\ seen = <<>> /\ latest = None /\ log = <<>>
          /\ pending = [c \in Callers |-> None]
          /\ reply = [c \in Callers |-> "none"]

\* A policy that has accepted nothing satisfies the invariant.
LEMMA UnusedIsSound == Unused => IInv
  <1>1. DOMAIN <<>> = {}
    OBVIOUS
  <1>2. <<>> \in Seq(Acceptances)
    BY EmptySeq
  <1> QED
    BY <1>1, <1>2 DEF Unused, IInv, TypeOK, Replies, AcceptedInTheWindow,
       MarkIsAnAcceptance, RememberedUntilExpiry, ReservedTogether, NothingExpiredIsHeld,
       ReuseOnlyAfterExpiry

\* Every step of the policy keeps the invariant.
LEMMA NextKeepsInvariant ==
    ASSUME IInv, [Next]_vars
    PROVE  IInv'
  <1>1. TypeOK'
    BY NextKeepsType DEF IInv
  <1>2. CASE MoveClock
    BY <1>1, <1>2, KeptWhenNothingIsPublished DEF MoveClock
  <1>3. ASSUME NEW c \in Callers, ClockFails(c)
        PROVE  IInv'
    BY <1>1, <1>3, KeptWhenNothingIsPublished DEF ClockFails
  <1>4. ASSUME NEW c \in Callers, NEW e \in Events, RefuseByTime(c, e) \/ Stamp(c, e)
        PROVE  IInv'
    BY <1>1, <1>4, KeptWhenNothingIsPublished DEF RefuseByTime, Stamp
  <1>5. ASSUME NEW c \in Callers, RefuseInLock(c)
        PROVE  IInv'
    BY <1>1, <1>5, KeptWhenNothingIsPublished DEF RefuseInLock
  <1>6. ASSUME NEW c \in Callers, Accept(c)
        PROVE  IInv'
    BY <1>1, <1>6, AcceptKeepsInvariant
  <1>7. CASE UNCHANGED vars
    BY <1>1, <1>7, KeptWhenNothingIsPublished DEF vars
  <1> QED
    BY <1>2, <1>3, <1>4, <1>5, <1>6, <1>7 DEF Next

\* The log and the dictionary agree at every state, for every instance.
THEOREM Invariance == Spec => []IInv
  <1>1. Init => Unused
    BY DEF Init, Unused
  <1> QED
    BY <1>1, UnusedIsSound, NextKeepsInvariant, PTL DEF Spec

\* Two acceptances of one event would each have to carry a later timestamp
\* than the other.
LEMMA InvariantMeansOnce == IInv => NeverAcceptedTwice
  <1> SUFFICES ASSUME IInv, NEW i \in DOMAIN log, NEW j \in DOMAIN log,
                      log[i].event = log[j].event, i # j
               PROVE  FALSE
    BY DEF NeverAcceptedTwice
  <1>1. /\ i \in Int /\ j \in Int
        /\ log[i].event.timestamp \in Int
    BY LogShape DEF IInv
  <1>2. /\ Keys(log[i].event) \cap Keys(log[j].event) # {}
        /\ Keys(log[j].event) \cap Keys(log[i].event) # {}
    BY DEF Keys
  <1>3. \/ log[j].event.timestamp > log[i].event.timestamp
        \/ log[i].event.timestamp > log[j].event.timestamp
    BY <1>1, <1>2 DEF IInv, ReuseOnlyAfterExpiry
  <1> QED
    BY <1>1, <1>3

\* No event is accepted twice.
THEOREM AcceptedAtMostOnce == Spec => []NeverAcceptedTwice
  BY InvariantMeansOnce, Invariance, PTL

\* An identifier of a node is reusable only after the TTL of its last use, and
\* then only by an event with a later timestamp.
THEOREM ReuseNeedsExpiry == Spec => []ReuseOnlyAfterExpiry
  <1>1. IInv => ReuseOnlyAfterExpiry
    BY DEF IInv
  <1> QED
    BY <1>1, Invariance, PTL

\* The reservations of an event stand and fall together, and nothing is
\* forgotten early or held late.
THEOREM ReservationsAreExact == Spec => []DictionaryIsExact
  <1>1. IInv => DictionaryIsExact
    BY DEF IInv, DictionaryIsExact
  <1> QED
    BY <1>1, Invariance, PTL

\* The high-water mark never falls, whatever the order in which callers that
\* read the clock reach the lock.
THEOREM MarkIsMonotone == Spec => HighWaterMarkRises
  <1>1. TypeOK /\ [Next]_vars => [latest # None => latest' # None /\ latest' >= latest]_latest
    <2> SUFFICES ASSUME TypeOK, [Next]_vars, latest' # latest, latest # None
                 PROVE  latest' # None /\ latest' >= latest
      OBVIOUS
    <2>1. PICK c \in Callers : Accept(c)
      BY DEF Next, MoveClock, ClockFails, RefuseByTime, Stamp, RefuseInLock, vars
    <2> DEFINE e == pending[c].event
               t == pending[c].now
    <2>2. e \in Events /\ t \in Instants /\ Publish(e, t) /\ ~BehindLatest(t)
      BY <2>1, AcceptedEntry
    <2>3. latest' = t
      BY <2>2, PublishedKeys
    <2> HIDE DEF e, t
    <2> QED
      BY <2>2, <2>3 DEF BehindLatest, TypeOK, Instants
  <1> QED
    BY <1>1, TypeCorrect, PTL DEF Spec, HighWaterMarkRises
-----------------------------------------------------------------------------
(***************************************************************************)
(* The policy implements the policy that forgets nothing (ReplayPromise).  *)
(***************************************************************************)
\* At an instant the mark is not past, a key is retained by the dictionary
\* exactly if some acceptance of the log still has it in use.
LEMMA RetainedIsInUse ==
    ASSUME IInv, NEW t \in Instants, ~BehindLatest(t), NEW k
    PROVE  k \in RetainedKeys(t) <=> Promise!InUse(k, t)
  <1> DEFINE U(i) == ProtectedUntil(log[i].event, log[i].at)
  <1>1. /\ \A i \in DOMAIN log : U(i) \in Int
        /\ t \in Int
        /\ latest # None => latest \in Int /\ latest =< t
    BY LogShape DEF IInv, TypeOK, BehindLatest, Instants
  <1>2. Promise!InUse(k, t) <=> \E i \in DOMAIN log : k \in Keys(log[i].event) /\ t =< U(i)
    BY DEF Promise!InUse, Promise!Keys, Promise!EventKey, Promise!NonceKey,
           Promise!ProtectedUntil, Keys, EventKey, NonceKey, ProtectedUntil
  <1>3. ASSUME k \in RetainedKeys(t)
        PROVE  \E i \in DOMAIN log : k \in Keys(log[i].event) /\ t =< U(i)
    <2>1. k \in DOMAIN seen /\ seen[k] >= t
      BY <1>3 DEF RetainedKeys
    <2>2. PICK i \in DOMAIN log : k \in Keys(log[i].event) /\ seen[k] = U(i)
      BY <2>1 DEF IInv, ReservedTogether
    <2> QED
      BY <2>1, <2>2, <1>1
  <1>4. ASSUME NEW i \in DOMAIN log, k \in Keys(log[i].event), t =< U(i)
        PROVE  k \in RetainedKeys(t)
    <2>1. ~(latest # None /\ U(i) < latest)
      BY <1>4, <1>1
    <2>2. k \in DOMAIN seen /\ seen[k] = U(i)
      BY <2>1, <1>4 DEF IInv, RememberedUntilExpiry
    <2> QED
      BY <2>2, <1>4, <1>1 DEF RetainedKeys
  <1> QED
    BY <1>2, <1>3, <1>4

\* An acceptance is one the promise allows.
LEMMA AcceptIsPromised ==
    ASSUME IInv, NEW c \in Callers, Accept(c)
    PROVE  Promise!Accept(c)
  <1> DEFINE e == pending[c].event
             t == pending[c].now
  <1>0. TypeOK
    BY DEF IInv
  <1>1. /\ e \in Events /\ t \in Instants /\ Judgement(e, t) = "fresh"
        /\ Publish(e, t)
        /\ ~BehindLatest(t)
        /\ Keys(e) \cap RetainedKeys(t) = {}
    BY <1>0, AcceptedEntry, Zenon
  <1>2. /\ log' = Append(log, [event |-> e, at |-> t])
        /\ Promise!Answer(c, "accepted")
        /\ pending[c] # None
    BY DEF Accept, Return, Promise!Answer
  <1>3. pending[c].event = e /\ pending[c].now = t
    OBVIOUS
  <1> HIDE DEF e, t
  <1>4. \A k \in Promise!Keys(e) : ~Promise!InUse(k, t)
    <2>1. Promise!Keys(e) = Keys(e)
      BY DEF Promise!Keys, Promise!EventKey, Promise!NonceKey, Keys, EventKey, NonceKey
    <2> QED
      BY <2>1, <1>1, RetainedIsInUse
  <1>5. \A i \in DOMAIN log : log[i].at =< t
    <2>1. latest # None => latest \in Int /\ latest =< t
      BY <1>1 DEF BehindLatest, IInv, TypeOK, Instants
    <2>2. \A i \in DOMAIN log : log[i].at \in Int /\ latest # None /\ log[i].at =< latest
      BY LogShape DEF IInv, AcceptedInTheWindow
    <2>3. t \in Int
      BY <1>1 DEF Instants
    <2> QED
      BY <2>1, <2>2, <2>3
  <1> QED
    BY <1>2, <1>3, <1>4, <1>5 DEF Promise!Accept

\* A refusal under the lock is one the promise allows.
LEMMA RefusalIsPromised ==
    ASSUME IInv, NEW c \in Callers, RefuseInLock(c)
    PROVE  Promise!RefuseClock(c) \/ Promise!RefuseReplay(c)
  <1> DEFINE e == pending[c].event
             t == pending[c].now
             v == LockVerdict(e, t)
  <1>1. e \in Events /\ t \in Instants /\ Judgement(e, t) = "fresh"
    BY DEF RefuseInLock, IInv, TypeOK, Stamps
  <1>2. v # "accepted" /\ Promise!Answer(c, v) /\ UNCHANGED log /\ pending[c] # None
    BY DEF RefuseInLock, Return, Promise!Answer
  <1>3. v = LockVerdict(e, t) /\ pending[c].event = e /\ pending[c].now = t
    OBVIOUS
  <1> HIDE DEF e, t, v
  <1>4. CASE BehindLatest(t)
    <2>1. v = "clock_backwards"
      BY <1>3, <1>4 DEF LockVerdict
    <2>2. latest # None /\ latest \in Int /\ t < latest
      BY <1>4 DEF BehindLatest, IInv, TypeOK, Instants
    <2>3. \E i \in DOMAIN log : t < log[i].at
      BY <2>2 DEF IInv, MarkIsAnAcceptance
    <2> QED
      BY <2>1, <2>3, <1>2, <1>3 DEF Promise!RefuseClock
  <1>5. CASE ~BehindLatest(t)
    <2>1. \/ EventKey(e) \in RetainedKeys(t) /\ v = "replayed_event_id"
          \/ NonceKey(e) \in RetainedKeys(t) /\ v = "replayed_nonce"
      BY <1>2, <1>3, <1>5 DEF LockVerdict
    <2>2. \/ Promise!InUse(EventKey(e), t) /\ v = "replayed_event_id"
          \/ Promise!InUse(NonceKey(e), t) /\ v = "replayed_nonce"
      BY <2>1, <1>1, <1>5, RetainedIsInUse
    <2>3. Promise!EventKey(e) = EventKey(e) /\ Promise!NonceKey(e) = NonceKey(e)
      BY DEF Promise!EventKey, Promise!NonceKey, EventKey, NonceKey
    <2> QED
      BY <2>2, <2>3, <1>2, <1>3 DEF Promise!RefuseReplay
  <1> QED
    BY <1>4, <1>5

\* The pruned dictionary is as good as remembering every acceptance: the policy
\* accepts nothing the promise forbids and refuses nothing it does not.
THEOREM Refinement == Spec => ImplementsPromise
  <1>1. Init => Promise!Init
    BY DEF Init, Promise!Init
  <1>2. IInv /\ [Next]_vars => [Promise!Next]_(Promise!promiseVars)
    <2> SUFFICES ASSUME IInv, [Next]_vars
                 PROVE  [Promise!Next]_(Promise!promiseVars)
      OBVIOUS
    <2>1. CASE MoveClock
      BY <2>1 DEF MoveClock, Promise!promiseVars
    <2>2. ASSUME NEW c \in Callers, ClockFails(c)
          PROVE  Promise!Next
      BY <2>2 DEF ClockFails, Return, Promise!Next, Promise!RefuseEarly
    <2>3. ASSUME NEW c \in Callers, NEW e \in Events, RefuseByTime(c, e)
          PROVE  Promise!Next
      <3>1. Judgement(e, clock) \in {"out_of_range", "stale_timestamp", "future_timestamp"}
        BY <2>3 DEF RefuseByTime, Judgement
      <3>2. Promise!RefuseEarly(c)
        BY <2>3, <3>1 DEF RefuseByTime, Return, Promise!RefuseEarly
      <3> QED
        BY <3>2 DEF Promise!Next
    <2>4. ASSUME NEW c \in Callers, NEW e \in Events, Stamp(c, e)
          PROVE  Promise!Next
      <3>1. clock \in Instants
        BY DEF IInv, TypeOK
      <3>2. Promise!Fresh(e, clock)
        BY <2>4, <3>1, FreshInRange DEF Stamp, Promise!Fresh
      <3>3. Promise!Present(c, e, clock)
        BY <2>4, <3>2 DEF Stamp, Return, Promise!Present
      <3> QED
        BY <3>1, <3>3 DEF Promise!Next
    <2>5. ASSUME NEW c \in Callers, RefuseInLock(c)
          PROVE  Promise!Next
      BY <2>5, RefusalIsPromised DEF Promise!Next
    <2>6. ASSUME NEW c \in Callers, Accept(c)
          PROVE  Promise!Next
      BY <2>6, AcceptIsPromised DEF Promise!Next
    <2>7. CASE UNCHANGED vars
      BY <2>7 DEF vars, Promise!promiseVars
    <2> QED
      BY <2>1, <2>2, <2>3, <2>4, <2>5, <2>6, <2>7 DEF Next
  <1> QED
    BY <1>1, <1>2, Invariance, PTL DEF Spec, ImplementsPromise, Promise!Spec
-----------------------------------------------------------------------------
USE IngestionAssumption

Phases  == {"new", "policy", "row", "commit_row", "alert", "commit_alert",
            "close", "done", "lost"}
Refused == {"unknown_node", "invalid_signature", "stale_timestamp", "future_timestamp",
            "replayed_event_id", "replayed_nonce"}
Results == {"none", "accepted", "service_unavailable"} \cup Refused

AnyRow == [table : {"detection_events", "security_alerts"}, request : Requests,
           boot : 1 .. MaxBoots, event : Events, reason : Results]

\* The shape of the state outside the policy.
Shape == /\ envelope \in [Requests -> Envelopes \cup {None}]
         /\ phase \in [Requests -> Phases]
         /\ result \in [Requests -> Results]
         /\ dirty \in [Connections -> SUBSET AnyRow]
         /\ durable \subseteq AnyRow
         /\ boot \in 1 .. MaxBoots

\* Where a request is says what it carries, what the policy told it and what
\* it will answer.
CallsAreSound ==
    \A r \in Requests :
       /\ phase[r] = "new" => envelope[r] = None /\ reply[r] = "none"
       /\ phase[r] \notin {"new", "done", "lost"} => envelope[r] # None
       /\ pending[r] # None => phase[r] = "policy" /\ pending[r].event = envelope[r].event
       /\ phase[r] = "policy" => Authentic(envelope[r]) /\ reply[r] = "none"
       /\ reply[r] # "none" => envelope[r] # None /\ Authentic(envelope[r])
       /\ phase[r] \in {"row", "commit_row"} => reply[r] = "accepted"
       /\ reply[r] = "accepted" =>
             \/ phase[r] \in {"row", "commit_row"}
             \/ phase[r] \in {"close", "done"} /\ result[r] \in {"accepted", "service_unavailable"}
       /\ phase[r] \in {"alert", "commit_alert"} => result[r] \in Refused
       /\ phase[r] \in {"close", "done"} => result[r] # "none"

\* The acceptances of the policy are those of the requests it has accepted,
\* one for each.
LogIsOfRequests ==
    /\ \A i \in DOMAIN log : \E r \in Requests :
          reply[r] = "accepted" /\ envelope[r].event = log[i].event
    /\ \A r \in Requests : reply[r] = "accepted" =>
          \E i \in DOMAIN log : log[i].event = envelope[r].event
    /\ \A q, r \in Requests :
          reply[q] = "accepted" /\ reply[r] = "accepted" /\ envelope[q].event = envelope[r].event
             => q = r

\* Every row, committed or not.
AllRows == durable \cup UNION {dirty[k] : k \in Connections}

\* A request has one row, once it has flushed it.
RowsAreOwned ==
    /\ \A w \in AllRows :
          /\ phase[w.request] \in {"commit_row", "commit_alert", "close", "done", "lost"}
          /\ w.boot =< boot
    /\ \A w, x \in AllRows : w.request = x.request => w = x

\* The row of an event is that of a request the policy accepted in that start.
EventsAreAccepted ==
    /\ \A w \in AllRows : w.table = "detection_events" =>
          /\ envelope[w.request] # None /\ Authentic(envelope[w.request])
          /\ w.event = envelope[w.request].event
          /\ w.boot = boot => reply[w.request] = "accepted"
    /\ \A w, x \in AllRows :
          w.table = "detection_events" /\ x.table = "detection_events"
             /\ w.boot = x.boot /\ w.event = x.event => w.request = x.request

\* The inductive invariant of ingestion, on any database.
NInv == /\ IInv
        /\ Shape
        /\ CallsAreSound
        /\ LogIsOfRequests
        /\ RowsAreOwned
        /\ EventsAreAccepted

HasRow(rows, r, t, reason) == \E w \in rows : w.request = r /\ w.table = t /\ w.reason = reason

\* With a connection of its own, a request commits the row that it flushed, and
\* an outcome other than 503 has its row.
OutcomesAreStored ==
    \A r \in Requests :
       /\ phase[r] = "commit_row" => HasRow(dirty[r], r, "detection_events", "accepted")
       /\ phase[r] = "commit_alert" => HasRow(dirty[r], r, "security_alerts", result[r])
       /\ phase[r] \in {"close", "done"} /\ result[r] = "accepted" =>
             HasRow(durable, r, "detection_events", "accepted")
       /\ phase[r] \in {"close", "done"} /\ result[r] \in Refused =>
             HasRow(durable, r, "security_alerts", result[r])
-----------------------------------------------------------------------------
\* The first state.
LEMMA IngestStarts == IngestInit => NInv /\ OutcomesAreStored
  <1> SUFFICES ASSUME IngestInit PROVE NInv /\ OutcomesAreStored
    OBVIOUS
  <1>1. IInv
    BY UnusedIsSound DEF IngestInit, Init, Unused
  <1>2. Shape
    BY DEF IngestInit, Shape, Phases, Results, Refused
  <1>3. AllRows = {}
    <2>1. \A k \in Connections : dirty[k] = {}
      BY DEF IngestInit
    <2>2. UNION {dirty[k] : k \in Connections} = {}
      BY <2>1
    <2> QED
      BY <2>2 DEF IngestInit, AllRows
  <1>4. DOMAIN log = {}
    <2>1. DOMAIN <<>> = {}
      OBVIOUS
    <2> QED
      BY <2>1 DEF IngestInit, Init
  <1>5. CallsAreSound
    BY DEF IngestInit, Init, CallsAreSound, Requests
  <1>6. LogIsOfRequests
    BY <1>4 DEF IngestInit, Init, LogIsOfRequests, Requests
  <1>7. RowsAreOwned /\ EventsAreAccepted
    BY <1>3 DEF RowsAreOwned, EventsAreAccepted
  <1>8. OutcomesAreStored
    BY DEF IngestInit, OutcomesAreStored
  <1> QED
    BY <1>1, <1>2, <1>5, <1>6, <1>7, <1>8 DEF NInv

\* The envelope of a request that is past its identification.
LEMMA CarriesAnEvent ==
    ASSUME NInv, NEW r \in Requests, envelope[r] # None
    PROVE  envelope[r] \in Envelopes /\ envelope[r].event \in Events
  BY DEF NInv, Shape

\* To the policy, a step of ingestion is a step of its own, a new start of the
\* process, or nothing.
LEMMA PolicySteps ==
    ASSUME NInv, [IngestNext]_allVars
    PROVE  IInv'
  <1>1. CASE [Next]_vars
    BY <1>1, NextKeepsInvariant DEF NInv
  <1>2. CASE Restart
    <2>1. Unused'
      BY <1>2 DEF Restart, Unused, NInv, IInv, TypeOK, Requests
    <2> QED
      BY <2>1, UnusedIsSound, PTL
  <1>3. ASSUME NEW r \in Requests, PolicyStamp(r) \/ PolicyRefuses(r) \/ PolicyAccepts(r)
        PROVE  Next
    <2>1. phase[r] = "policy"
      BY <1>3 DEF PolicyStamp, PolicyRefuses, PolicyAccepts
    <2>2. envelope[r].event \in Events
      BY <2>1, CarriesAnEvent DEF NInv, CallsAreSound
    <2> QED
      BY <1>3, <2>2 DEF PolicyStamp, PolicyRefuses, PolicyAccepts, Next, Requests
  <1>4. ASSUME NEW r \in Requests, NEW v \in Envelopes, Identification(r, v)
        PROVE  UNCHANGED vars
    BY <1>4 DEF Identification
  <1>5. ASSUME NEW r \in Requests,
               SessionFails(r) \/ Flush(r) \/ Commit(r) \/ WriteFails(r) \/ Close(r)
        PROVE  UNCHANGED vars
    BY <1>5 DEF SessionFails, Flush, Commit, WriteFails, Close
  <1>6. ASSUME NEW g \in Readers, ReaderCloses(g)
        PROVE  UNCHANGED vars
    BY <1>6 DEF ReaderCloses
  <1>7. CASE UNCHANGED allVars
    BY <1>1, <1>7 DEF allVars
  <1> QED
    BY <1>1, <1>2, <1>3, <1>4, <1>5, <1>6, <1>7 DEF IngestNext, Next

\* The row of a request.
LEMMA RowIsARow ==
    ASSUME NInv, NEW r \in Requests, phase[r] \in {"row", "alert"}
    PROVE  /\ RowOf(r) \in AnyRow
           /\ RowOf(r).request = r /\ RowOf(r).boot = boot
           /\ RowOf(r).event = envelope[r].event
           /\ phase[r] = "row" => RowOf(r).table = "detection_events" /\ RowOf(r).reason = "accepted"
           /\ phase[r] = "alert" => RowOf(r).table = "security_alerts" /\ RowOf(r).reason = result[r]
  <1>1. envelope[r].event \in Events
    BY CarriesAnEvent DEF NInv, CallsAreSound
  <1>2. boot \in 1 .. MaxBoots /\ result[r] \in Results /\ "accepted" \in Results
    BY DEF NInv, Shape, Results
  <1> QED
    BY <1>1, <1>2 DEF RowOf, AnyRow

\* What Identify may say, and what it means to be authentic.
LEMMA IdentifySays ==
    ASSUME NEW v
    PROVE  /\ Identify(v) \in {"unknown_node", "service_unavailable", "invalid_signature", "authentic"}
           /\ Identify(v) = "authentic" => Authentic(v)
  BY DEF Identify

\* What a refusal of the policy comes to.
LEMMA RefusalSays ==
    ASSUME NInv, NEW r \in Requests, PolicyRefuses(r)
    PROVE  /\ phase[r] = "policy"
           /\ reply'[r] # "accepted" /\ reply' = [reply EXCEPT ![r] = reply'[r]]
           /\ pending' \in {pending, [pending EXCEPT ![r] = None]}
           /\ UNCHANGED log
           /\ \E reason \in Refused \cup {"service_unavailable"} :
                 Raise(r, reason) /\ Goto(r, PhaseAfter(reason))
           /\ UNCHANGED <<envelope, dbVars, boot>>
  <1>1. reply \in [Requests -> Replies]
    BY DEF NInv, IInv, TypeOK, Requests
  <1>2. /\ phase[r] = "policy" /\ UNCHANGED <<envelope, dbVars, boot>>
        /\ Raise(r, ReasonOf(reply'[r])) /\ Goto(r, PhaseAfter(ReasonOf(reply'[r])))
    BY DEF PolicyRefuses
  <1>3. /\ \E v : v # "accepted" /\ Return(r, v)
        /\ pending' \in {pending, [pending EXCEPT ![r] = None]}
        /\ UNCHANGED log
    <2>1. CASE ClockFails(r)
      BY <2>1 DEF ClockFails
    <2>2. CASE RefuseByTime(r, envelope[r].event)
      <3>1. Judgement(envelope[r].event, clock) # "accepted"
        BY DEF Judgement
      <3> QED
        BY <2>2, <3>1 DEF RefuseByTime
    <2>3. CASE RefuseInLock(r)
      BY <2>3 DEF RefuseInLock
    <2> QED
      BY <2>1, <2>2, <2>3 DEF PolicyRefuses
  <1>4. ReasonOf(reply'[r]) \in Refused \cup {"service_unavailable"}
    BY DEF ReasonOf, Refused
  <1> QED
    BY <1>1, <1>2, <1>3, <1>4 DEF Return, Requests

\* What an acceptance of the policy does: one more entry of the log.
LEMMA AcceptanceSays ==
    ASSUME NInv, NEW r \in Requests, PolicyAccepts(r)
    PROVE  /\ phase[r] = "policy" /\ Goto(r, "row")
           /\ reply' = [reply EXCEPT ![r] = "accepted"]
           /\ pending' = [pending EXCEPT ![r] = None]
           /\ UNCHANGED <<envelope, result, dbVars, boot>>
           /\ DOMAIN log' = DOMAIN log \cup {Len(log) + 1} /\ Len(log) + 1 \notin DOMAIN log
           /\ \A i \in DOMAIN log : log'[i] = log[i]
           /\ log'[Len(log) + 1].event = envelope[r].event
  <1>1. Accept(r) /\ r \in Callers /\ TypeOK
    BY DEF PolicyAccepts, Requests, NInv, IInv
  <1>2. /\ DOMAIN log' = DOMAIN log \cup {Len(log) + 1} /\ Len(log) + 1 \notin DOMAIN log
        /\ \A i \in DOMAIN log : log'[i] = log[i]
        /\ log'[Len(log) + 1] = [event |-> pending[r].event, at |-> pending[r].now]
    BY <1>1, AcceptedEntry
  <1>3. pending[r] # None /\ pending[r].event = envelope[r].event
    BY <1>1 DEF Accept, NInv, CallsAreSound, Requests
  <1> QED
    BY <1>1, <1>2, <1>3 DEF PolicyAccepts, Accept, Return

\* Every step keeps the shape of the state.
LEMMA NextKeepsShape ==
    ASSUME NInv, [IngestNext]_allVars
    PROVE  Shape'
  <1> USE DEF NInv, Shape, Goto, Raise, Phases, dbVars, callVars
  <1>1. ASSUME NEW r \in Requests, NEW v \in Envelopes, Identification(r, v)
        PROVE  Shape'
    <2>1. Identify(v) # "authentic" =>
             Identify(v) \in Results /\ PhaseAfter(Identify(v)) \in Phases
      BY IdentifySays DEF Results, Refused, PhaseAfter
    <2> QED
      BY <1>1, <2>1 DEF Identification
  <1>2. ASSUME NEW r \in Requests, SessionFails(r) \/ Close(r)
        PROVE  Shape'
    BY <1>2 DEF SessionFails, Close, Results
  <1>3. ASSUME NEW r \in Requests, PolicyStamp(r)
        PROVE  Shape'
    BY <1>3 DEF PolicyStamp
  <1>4. ASSUME NEW r \in Requests, PolicyRefuses(r)
        PROVE  Shape'
    BY <1>4, RefusalSays DEF Results, PhaseAfter
  <1>5. ASSUME NEW r \in Requests, PolicyAccepts(r)
        PROVE  Shape'
    BY <1>5, AcceptanceSays
  <1>6. ASSUME NEW r \in Requests, Flush(r)
        PROVE  Shape'
    <2>1. RowOf(r) \in AnyRow
      BY <1>6, RowIsARow DEF Flush
    <2>2. dirty' \in [Connections -> SUBSET AnyRow]
      BY <1>6, <2>1 DEF Flush
    <2> QED
      BY <1>6, <2>2 DEF Flush
  <1>7. ASSUME NEW r \in Requests, Commit(r) \/ WriteFails(r)
        PROVE  Shape'
    <2>1. Connection(r) \in Connections
      BY DEF Connections
    <2>2. dirty[Connection(r)] \subseteq AnyRow
      BY <2>1
    <2>3. /\ dirty' \in {dirty, [dirty EXCEPT ![Connection(r)] = {}]}
          /\ durable' \in {durable, durable \cup dirty[Connection(r)]}
          /\ Goto(r, "close") /\ UNCHANGED <<envelope, boot>>
          /\ result' = result \/ \E reason \in Results : Raise(r, reason)
      BY <1>7 DEF Commit, WriteFails, Results
    <2>4. dirty' \in [Connections -> SUBSET AnyRow] /\ durable' \subseteq AnyRow
      BY <2>2, <2>3
    <2> QED
      BY <2>3, <2>4
  <1>8. ASSUME NEW g \in Readers, ReaderCloses(g)
        PROVE  Shape'
    BY <1>8 DEF ReaderCloses
  <1>9. CASE Restart
    <2>1. boot' \in 1 .. MaxBoots
      BY <1>9 DEF Restart
    <2> QED
      BY <1>9, <2>1 DEF Restart
  <1>10. CASE (MoveClock /\ UNCHANGED <<callVars, dbVars, boot>>) \/ UNCHANGED allVars
    BY <1>10 DEF allVars
  <1> QED
    BY <1>1, <1>2, <1>3, <1>4, <1>5, <1>6, <1>7, <1>8, <1>9, <1>10 DEF IngestNext

\* Every step keeps what is said of the calls.
LEMMA NextKeepsCalls ==
    ASSUME NInv, [IngestNext]_allVars
    PROVE  CallsAreSound'
  <1> USE DEF NInv, CallsAreSound, Shape, Goto, Raise, callVars, Requests
  <1>0. reply \in [Requests -> Replies] /\ pending \in [Requests -> Stamps \cup {None}]
    BY DEF IInv, TypeOK
  <1>a. \A v : Authentic(v)' <=> Authentic(v)
    BY DEF Authentic, Registered
  <1>1. ASSUME NEW r \in Requests, NEW v \in Envelopes, Identification(r, v)
        PROVE  CallsAreSound'
    <2>1. /\ phase[r] = "new" /\ envelope' = [envelope EXCEPT ![r] = v]
          /\ UNCHANGED <<reply, pending>> /\ v # None
          /\ \/ Identify(v) = "authentic" /\ Goto(r, "policy") /\ UNCHANGED result
             \/ \E reason \in {"unknown_node", "invalid_signature"} :
                   Goto(r, "alert") /\ Raise(r, reason)
             \/ Goto(r, "close") /\ Raise(r, "service_unavailable")
      BY <1>1, IdentifySays DEF Identification, PhaseAfter, vars
    <2>2. \A q \in Requests \ {r} : /\ envelope'[q] = envelope[q] /\ phase'[q] = phase[q]
                                    /\ result'[q] = result[q]
      BY <2>1
    <2> QED
      BY <1>0, <1>a, <2>1, <2>2, IdentifySays DEF Refused
  <1>2. ASSUME NEW r \in Requests, SessionFails(r) \/ Close(r)
        PROVE  CallsAreSound'
    BY <1>0, <1>a, <1>2 DEF SessionFails, Close, vars
  <1>3. ASSUME NEW r \in Requests, PolicyStamp(r)
        PROVE  CallsAreSound'
    BY <1>0, <1>a, <1>3 DEF PolicyStamp, Stamp, Return
  <1>4. ASSUME NEW r \in Requests, PolicyRefuses(r)
        PROVE  CallsAreSound'
    <2>1. PICK reason \in Refused \cup {"service_unavailable"} :
             /\ Raise(r, reason) /\ Goto(r, PhaseAfter(reason))
             /\ phase[r] = "policy" /\ reply'[r] # "accepted"
             /\ reply' = [reply EXCEPT ![r] = reply'[r]]
             /\ pending' \in {pending, [pending EXCEPT ![r] = None]}
             /\ UNCHANGED envelope
      BY <1>4, RefusalSays
    <2>2. \/ phase'[r] = "close" /\ result'[r] = "service_unavailable"
          \/ phase'[r] = "alert" /\ result'[r] \in Refused
      BY <2>1 DEF PhaseAfter
    <2>3. pending[r] = None \/ pending' = [pending EXCEPT ![r] = None]
      BY <1>4 DEF PolicyRefuses, ClockFails, RefuseByTime, RefuseInLock
    <2>4. \A q \in Requests \ {r} : /\ phase'[q] = phase[q] /\ result'[q] = result[q]
                                    /\ reply'[q] = reply[q] /\ pending'[q] = pending[q]
      BY <1>0, <2>1
    <2>5. pending'[r] = None
      BY <1>0, <2>1, <2>3
    <2> QED
      BY <1>0, <1>a, <2>1, <2>2, <2>4, <2>5 DEF Refused
  <1>5. ASSUME NEW r \in Requests, PolicyAccepts(r)
        PROVE  CallsAreSound'
    BY <1>0, <1>a, <1>5, AcceptanceSays
  <1>6. ASSUME NEW r \in Requests, Flush(r) \/ Commit(r) \/ WriteFails(r)
        PROVE  CallsAreSound'
    <2>1. UNCHANGED <<envelope, reply, pending>>
      BY <1>6 DEF Flush, Commit, WriteFails, vars
    <2>2. CASE Flush(r)
      BY <1>a, <2>1, <2>2 DEF Flush
    <2>3. CASE Commit(r) \/ WriteFails(r)
      <3>1. /\ phase[r] \in {"row", "commit_row", "alert", "commit_alert"} /\ Goto(r, "close")
            /\ \/ Raise(r, "accepted") \/ Raise(r, "service_unavailable")
               \/ phase[r] = "commit_alert" /\ UNCHANGED result
        BY <2>3 DEF Commit, WriteFails
      <3> QED
        BY <1>a, <2>1, <3>1 DEF Refused
    <2> QED
      BY <1>6, <2>2, <2>3
  <1>7. ASSUME NEW g \in Readers, ReaderCloses(g)
        PROVE  CallsAreSound'
    BY <1>a, <1>7 DEF ReaderCloses, vars
  <1>8. CASE Restart
    BY <1>a, <1>8 DEF Restart, InProgress, Phases
  <1>9. CASE (MoveClock /\ UNCHANGED <<callVars, dbVars, boot>>) \/ UNCHANGED allVars
    BY <1>a, <1>9 DEF MoveClock, allVars, vars
  <1> QED
    BY <1>1, <1>2, <1>3, <1>4, <1>5, <1>6, <1>7, <1>8, <1>9 DEF IngestNext

\* Every step keeps the acceptances in step with the requests.
LEMMA NextKeepsLog ==
    ASSUME NInv, [IngestNext]_allVars
    PROVE  LogIsOfRequests'
  <1> USE DEF NInv, LogIsOfRequests, Requests
  <1>0. reply \in [Requests -> Replies]
    BY DEF IInv, TypeOK
  <1>1. ASSUME NEW r \in Requests, PolicyAccepts(r)
        PROVE  LogIsOfRequests'
    <2> DEFINE n == Len(log) + 1
    <2>1. /\ reply' = [reply EXCEPT ![r] = "accepted"] /\ UNCHANGED envelope
          /\ DOMAIN log' = DOMAIN log \cup {n} /\ n \notin DOMAIN log
          /\ \A i \in DOMAIN log : log'[i] = log[i]
          /\ log'[n].event = envelope[r].event
      BY <1>1, AcceptanceSays
    <2> HIDE DEF n
    <2>2. NeverAcceptedTwice'
      BY PolicySteps, InvariantMeansOnce, PTL
    <2>3. reply'[r] = "accepted" /\ \A q \in Requests \ {r} : reply'[q] = reply[q]
      BY <1>0, <2>1
    <2>4. \A i \in DOMAIN log' : \E q \in Requests :
             reply'[q] = "accepted" /\ envelope'[q].event = log'[i].event
      BY <2>1, <2>3
    <2>5. \A q \in Requests : reply'[q] = "accepted" =>
             \E i \in DOMAIN log' : log'[i].event = envelope'[q].event
      BY <2>1, <2>3
    <2>6. \A q \in Requests \ {r} : reply[q] = "accepted" => envelope[q].event # envelope[r].event
      BY <2>1, <2>2 DEF NeverAcceptedTwice
    <2> QED
      BY <2>1, <2>3, <2>4, <2>5, <2>6
  <1>2. ASSUME \A q \in Requests : (reply'[q] = "accepted" <=> reply[q] = "accepted"),
               \A q \in Requests : reply[q] = "accepted" => envelope'[q] = envelope[q],
               UNCHANGED log
        PROVE  LogIsOfRequests'
    BY <1>2
  <1>3. ASSUME NEW r \in Requests, NEW v \in Envelopes, Identification(r, v)
        PROVE  LogIsOfRequests'
    <2>1. /\ reply[r] = "none" /\ envelope' = [envelope EXCEPT ![r] = v]
          /\ UNCHANGED <<reply, log>>
      BY <1>3 DEF Identification, vars, CallsAreSound
    <2> QED
      BY <1>2, <2>1 DEF Shape
  <1>4. ASSUME NEW r \in Requests, PolicyStamp(r)
        PROVE  LogIsOfRequests'
    <2>1. /\ reply[r] = "none" /\ reply' = [reply EXCEPT ![r] = "none"]
          /\ UNCHANGED <<envelope, log>>
      BY <1>4 DEF PolicyStamp, Stamp, Return, CallsAreSound, callVars
    <2> QED
      BY <1>0, <1>2, <2>1
  <1>5. ASSUME NEW r \in Requests, PolicyRefuses(r)
        PROVE  LogIsOfRequests'
    <2>1. /\ reply[r] = "none" /\ reply'[r] # "accepted"
          /\ reply' = [reply EXCEPT ![r] = reply'[r]]
          /\ UNCHANGED <<envelope, log>>
      BY <1>5, RefusalSays DEF CallsAreSound
    <2>2. \A q \in Requests \ {r} : reply'[q] = reply[q]
      BY <1>0, <2>1
    <2> QED
      BY <1>2, <2>1, <2>2
  <1>6. CASE UNCHANGED <<envelope, reply, log>>
    BY <1>2, <1>6
  <1>7. ASSUME NEW r \in Requests,
               SessionFails(r) \/ Flush(r) \/ Commit(r) \/ WriteFails(r) \/ Close(r)
        PROVE  UNCHANGED <<envelope, reply, log>>
    BY <1>7 DEF SessionFails, Flush, Commit, WriteFails, Close, vars
  <1>8. ASSUME NEW g \in Readers, ReaderCloses(g)
        PROVE  UNCHANGED <<envelope, reply, log>>
    BY <1>8 DEF ReaderCloses, vars, callVars
  <1>9. CASE Restart
    <2>1. DOMAIN <<>> = {}
      OBVIOUS
    <2> QED
      BY <1>9, <2>1 DEF Restart
  <1>10. CASE (MoveClock /\ UNCHANGED <<callVars, dbVars, boot>>) \/ UNCHANGED allVars
    BY <1>6, <1>10 DEF MoveClock, allVars, vars, callVars
  <1> QED
    BY <1>1, <1>3, <1>4, <1>5, <1>6, <1>7, <1>8, <1>9, <1>10 DEF IngestNext
-----------------------------------------------------------------------------
\* The rows are those of before, less what is rolled back, and the one that a
\* request flushes.  A commit moves rows and adds none.
LEMMA RowsOfStep ==
    ASSUME NInv, [IngestNext]_allVars
    PROVE  /\ durable \subseteq durable'
           /\ \/ AllRows' \subseteq AllRows
              \/ \E r \in Requests : Flush(r) /\ AllRows' \subseteq AllRows \cup {RowOf(r)}
  <1> USE DEF NInv, Shape
  <1>0. AllRows' = durable' \cup UNION {dirty'[k] : k \in Connections}
    BY DEF AllRows, Connections, Connection, Requests
  <1>1. ASSUME NEW k \in Connections, durable' \in {durable, durable \cup dirty[k]},
               dirty' \in {dirty, [dirty EXCEPT ![k] = {}]}
        PROVE  durable \subseteq durable' /\ AllRows' \subseteq AllRows
    <2>1. \A m \in Connections : dirty'[m] \subseteq dirty[m]
      BY <1>1
    <2>2. UNION {dirty'[m] : m \in Connections} \subseteq AllRows
      BY <2>1 DEF AllRows
    <2>3. durable \subseteq AllRows /\ dirty[k] \subseteq AllRows
      BY DEF AllRows
    <2> QED
      BY <1>0, <1>1, <2>2, <2>3
  <1>2. CASE UNCHANGED dbVars
    BY <1>2 DEF dbVars, AllRows
  <1>3. ASSUME NEW r \in Requests, Flush(r)
        PROVE  durable \subseteq durable' /\ AllRows' \subseteq AllRows \cup {RowOf(r)}
    <2>1. /\ UNCHANGED durable
          /\ dirty' = [dirty EXCEPT ![Connection(r)] = @ \cup {RowOf(r)}]
      BY <1>3 DEF Flush
    <2>2. \A m \in Connections : dirty'[m] \subseteq dirty[m] \cup {RowOf(r)}
      BY <2>1
    <2>3. UNION {dirty'[m] : m \in Connections} \subseteq AllRows \cup {RowOf(r)}
      BY <2>2 DEF AllRows
    <2>4. durable \subseteq AllRows
      BY DEF AllRows
    <2> QED
      BY <1>0, <2>1, <2>3, <2>4
  <1>4. ASSUME NEW r \in Requests, Commit(r) \/ WriteFails(r) \/ Close(r)
        PROVE  durable \subseteq durable' /\ AllRows' \subseteq AllRows
    <2>1. Connection(r) \in Connections
      BY DEF Connections
    <2> QED
      BY <1>1, <1>4, <2>1 DEF Commit, WriteFails, Close, dbVars
  <1>5. ASSUME NEW g \in Readers, ReaderCloses(g)
        PROVE  durable \subseteq durable' /\ AllRows' \subseteq AllRows
    <2>1. Connection(g) \in Connections
      BY DEF Connections
    <2> QED
      BY <1>1, <1>5, <2>1 DEF ReaderCloses
  <1>6. CASE Restart
    <2>1. \A m \in Connections : dirty'[m] = {}
      BY <1>6 DEF Restart
    <2>2. UNION {dirty'[m] : m \in Connections} = {}
      BY <2>1
    <2> QED
      BY <1>0, <1>6, <2>2 DEF Restart, AllRows
  <1>7. ASSUME NEW r \in Requests,
               \/ \E v \in Envelopes : Identification(r, v)
               \/ SessionFails(r) \/ PolicyStamp(r) \/ PolicyRefuses(r) \/ PolicyAccepts(r)
        PROVE  UNCHANGED dbVars
    BY <1>7 DEF Identification, SessionFails, PolicyStamp, PolicyRefuses, PolicyAccepts
  <1>8. CASE (MoveClock /\ UNCHANGED <<callVars, dbVars, boot>>) \/ UNCHANGED allVars
    BY <1>2, <1>8 DEF allVars
  <1> QED
    BY <1>2, <1>3, <1>4, <1>5, <1>6, <1>7, <1>8 DEF IngestNext

\* A row is a row.
LEMMA RowTypes ==
    ASSUME Shape, NEW w \in AllRows
    PROVE  w \in AnyRow /\ w.request \in Requests /\ w.boot \in Nat
  <1>1. w \in AnyRow
    BY DEF Shape, AllRows
  <1> QED
    BY <1>1 DEF AnyRow

\* A request that has written stays one; it keeps its envelope, and the answer
\* of the policy until the process starts anew.
LEMMA WrittenStays ==
    ASSUME NInv, [IngestNext]_allVars, NEW q \in Requests,
           phase[q] \in {"commit_row", "commit_alert", "close", "done", "lost"}
    PROVE  /\ phase'[q] \in {"commit_row", "commit_alert", "close", "done", "lost"}
           /\ UNCHANGED envelope[q]
           /\ UNCHANGED boot => UNCHANGED reply[q]
           /\ boot' \in {boot, boot + 1}
  <1> USE DEF NInv, Shape, Requests, Goto
  <1>0. reply \in [Requests -> Replies]
    BY DEF IInv, TypeOK
  <1>1. ASSUME NEW r \in Requests, NEW v \in Envelopes, Identification(r, v)
        PROVE  UNCHANGED <<phase[q], envelope[q], reply[q], boot>>
    <2>1. /\ phase[r] = "new" /\ \E l : Goto(r, l)
          /\ envelope' = [envelope EXCEPT ![r] = v] /\ UNCHANGED <<reply, boot>>
      BY <1>1 DEF Identification, vars
    <2> QED
      BY <2>1
  <1>2. ASSUME NEW r \in Requests, SessionFails(r) \/ Flush(r)
        PROVE  UNCHANGED <<phase[q], envelope[q], reply[q], boot>>
    BY <1>2 DEF SessionFails, Flush, vars
  <1>3. ASSUME NEW r \in Requests, PolicyStamp(r)
        PROVE  UNCHANGED <<phase[q], envelope[q], reply[q], boot>>
    BY <1>0, <1>3 DEF PolicyStamp, Stamp, Return, callVars
  <1>4. ASSUME NEW r \in Requests, PolicyRefuses(r)
        PROVE  UNCHANGED <<phase[q], envelope[q], reply[q], boot>>
    BY <1>0, <1>4, RefusalSays
  <1>5. ASSUME NEW r \in Requests, PolicyAccepts(r)
        PROVE  UNCHANGED <<phase[q], envelope[q], reply[q], boot>>
    BY <1>0, <1>5, AcceptanceSays
  <1>6. ASSUME NEW r \in Requests, Commit(r) \/ WriteFails(r) \/ Close(r)
        PROVE  /\ phase'[q] \in {phase[q], "close", "done"}
               /\ UNCHANGED <<envelope[q], reply[q], boot>>
    BY <1>6 DEF Commit, WriteFails, Close, vars
  <1>7. ASSUME NEW g \in Readers, ReaderCloses(g)
        PROVE  UNCHANGED <<phase[q], envelope[q], reply[q], boot>>
    BY <1>7 DEF ReaderCloses, vars, callVars
  <1>8. CASE Restart
    BY <1>8 DEF Restart, InProgress
  <1>9. CASE (MoveClock /\ UNCHANGED <<callVars, dbVars, boot>>) \/ UNCHANGED allVars
    BY <1>9 DEF MoveClock, allVars, vars, callVars
  <1> QED
    BY <1>1, <1>2, <1>3, <1>4, <1>5, <1>6, <1>7, <1>8, <1>9 DEF IngestNext

\* Every step keeps the rows apart.
LEMMA NextKeepsRows ==
    ASSUME NInv, [IngestNext]_allVars
    PROVE  RowsAreOwned'
  <1> USE DEF NInv, RowsAreOwned
  <1>1. ASSUME NEW w \in AllRows
        PROVE  /\ phase'[w.request] \in {"commit_row", "commit_alert", "close", "done", "lost"}
               /\ w.boot =< boot'
    <2>1. w.request \in Requests /\ w.boot \in Nat /\ boot \in Nat
      BY RowTypes DEF Shape
    <2> QED
      BY <2>1, WrittenStays
  <1>2. CASE AllRows' \subseteq AllRows
    BY <1>1, <1>2
  <1>3. ASSUME NEW r \in Requests, Flush(r), AllRows' \subseteq AllRows \cup {RowOf(r)}
        PROVE  RowsAreOwned'
    <2>1. /\ phase[r] \in {"row", "alert"} /\ UNCHANGED boot
          /\ phase'[r] \in {"commit_row", "commit_alert"}
      BY <1>3 DEF Flush, Goto, Shape
    <2>2. RowOf(r).request = r /\ RowOf(r).boot = boot
      BY <2>1, RowIsARow
    <2>3. \A w \in AllRows : w.request # r
      BY <2>1
    <2>4. boot \in Nat
      BY DEF Shape
    <2> QED
      BY <1>1, <1>3, <2>1, <2>2, <2>3, <2>4
  <1> QED
    BY <1>2, <1>3, RowsOfStep

\* Every step keeps the rows of events to what the policy has accepted, once.
LEMMA NextKeepsEvents ==
    ASSUME NInv, [IngestNext]_allVars
    PROVE  EventsAreAccepted'
  <1> USE DEF NInv, EventsAreAccepted
  <1>0. /\ \A v : Authentic(v)' <=> Authentic(v)
        /\ boot \in Nat
    BY DEF Authentic, Registered, Shape
  <1>1. ASSUME NEW w \in AllRows, w.table = "detection_events"
        PROVE  /\ envelope'[w.request] # None /\ Authentic(envelope'[w.request])
               /\ w.event = envelope'[w.request].event
               /\ w.boot = boot' => reply'[w.request] = "accepted"
    <2>1. /\ w.request \in Requests /\ w.boot \in Nat /\ w.boot =< boot
          /\ phase[w.request] \in {"commit_row", "commit_alert", "close", "done", "lost"}
      BY RowTypes DEF RowsAreOwned
    <2> QED
      BY <1>0, <1>1, <2>1, WrittenStays
  <1>2. CASE AllRows' \subseteq AllRows
    BY <1>0, <1>1, <1>2
  <1>3. ASSUME NEW r \in Requests, Flush(r), AllRows' \subseteq AllRows \cup {RowOf(r)}
        PROVE  EventsAreAccepted'
    <2>1. phase[r] \in {"row", "alert"} /\ UNCHANGED <<boot, envelope, reply>>
      BY <1>3 DEF Flush, vars
    <2>2. /\ RowOf(r).request = r /\ RowOf(r).boot = boot
          /\ RowOf(r).event = envelope[r].event
          /\ RowOf(r).table = "detection_events" => phase[r] = "row"
      BY <2>1, RowIsARow
    <2>3. phase[r] = "row" =>
             reply[r] = "accepted" /\ envelope[r] # None /\ Authentic(envelope[r])
      BY DEF CallsAreSound
    <2>4. ASSUME NEW w \in AllRows, w.table = "detection_events", w.boot = boot,
                 phase[r] = "row", w.event = envelope[r].event
          PROVE  w.request = r
      BY <2>3, <2>4, RowTypes DEF LogIsOfRequests
    <2> QED
      BY <1>0, <1>1, <1>3, <2>1, <2>2, <2>3, <2>4
  <1> QED
    BY <1>2, <1>3, RowsOfStep

\* The invariant holds in every behaviour, on any database.
THEOREM IngestInvariance == IngestSpec => []NInv
  <1>1. IngestInit => NInv
    BY IngestStarts
  <1>2. NInv /\ [IngestNext]_allVars => NInv'
    <2> SUFFICES ASSUME NInv, [IngestNext]_allVars
                 PROVE  NInv'
      OBVIOUS
    <2>1. IInv' /\ Shape' /\ CallsAreSound'
      BY PolicySteps, NextKeepsShape, NextKeepsCalls
    <2>2. LogIsOfRequests' /\ RowsAreOwned' /\ EventsAreAccepted'
      BY NextKeepsLog, NextKeepsRows, NextKeepsEvents
    <2> QED
      BY <2>1, <2>2 DEF NInv
  <1> QED
    BY <1>1, <1>2, PTL DEF IngestSpec

\* One start of the process stores a signed event once, whoever sends it and
\* however often, however the sends race.
THEOREM EventsAreStoredOnce == IngestSpec => []StoredOncePerBoot
  <1>1. NInv => StoredOncePerBoot
    BY DEF NInv, EventsAreAccepted, StoredOncePerBoot, Rows, AllRows
  <1> QED
    BY <1>1, IngestInvariance, PTL

\* No request leaves an event and an alert, or two of either.
THEOREM RequestsLeaveOneRow == IngestSpec => []OneRowPerRequest
  <1>1. NInv => OneRowPerRequest
    BY DEF NInv, RowsAreOwned, OneRowPerRequest, AllRows
  <1> QED
    BY <1>1, IngestInvariance, PTL

\* Only what the key of its node has signed reserves identifiers or is stored.
THEOREM SignaturesAreChecked == IngestSpec => []OnlySignedEventsCount
  <1>1. NInv => OnlySignedEventsCount
    <2> SUFFICES ASSUME NInv, NEW r \in Requests,
                        \/ reply[r] # "none" \/ pending[r] # None
                        \/ \E w \in Rows("detection_events") : w.request = r
                 PROVE  Authentic(envelope[r])
      BY DEF OnlySignedEventsCount, Authentic, Registered
    <2>1. CASE reply[r] # "none" \/ pending[r] # None
      BY <2>1 DEF NInv, CallsAreSound
    <2>2. CASE \E w \in Rows("detection_events") : w.request = r
      BY <2>2 DEF NInv, EventsAreAccepted, Rows, AllRows
    <2> QED
      BY <2>1, <2>2
  <1> QED
    BY <1>1, IngestInvariance, PTL
-----------------------------------------------------------------------------
\* With a file database every request has a connection of its own.
LEMMA ConnectionIsOwn ==
    ASSUME ~SharedConnection
    PROVE  /\ \A r \in Requests : Connection(r) = r /\ r \in Connections
           /\ \A g \in Readers : Connection(g) = g /\ g \in Connections /\ g \notin Requests
  BY DEF Connection, Connections, Requests

\* Every step keeps the outcomes stored.
LEMMA NextKeepsOutcomes ==
    ASSUME ~SharedConnection, NInv, OutcomesAreStored, [IngestNext]_allVars
    PROVE  OutcomesAreStored'
  <1> USE DEF NInv, Shape, OutcomesAreStored, Goto, Raise
  <1>0. \A rows, more, r, t, reason :
           HasRow(rows, r, t, reason) /\ rows \subseteq more => HasRow(more, r, t, reason)
    BY DEF HasRow
  <1>1. ASSUME NEW r \in Requests, NEW v \in Envelopes, Identification(r, v)
        PROVE  OutcomesAreStored'
    <2>1. /\ UNCHANGED dbVars
          /\ \/ Goto(r, "policy") /\ UNCHANGED result
             \/ \E reason \in Results : Goto(r, "alert") /\ Raise(r, reason)
             \/ Goto(r, "close") /\ Raise(r, "service_unavailable")
      BY <1>1, IdentifySays DEF Identification, PhaseAfter, Results, Refused
    <2> QED
      BY <2>1 DEF dbVars, Refused
  <1>2. ASSUME NEW r \in Requests, SessionFails(r)
        PROVE  OutcomesAreStored'
    BY <1>2 DEF SessionFails, dbVars, Refused
  <1>3. ASSUME NEW r \in Requests, PolicyStamp(r)
        PROVE  OutcomesAreStored'
    BY <1>3 DEF PolicyStamp, dbVars, callVars
  <1>4. ASSUME NEW r \in Requests, PolicyRefuses(r)
        PROVE  OutcomesAreStored'
    <2>1. PICK reason \in Refused \cup {"service_unavailable"} :
             Raise(r, reason) /\ Goto(r, PhaseAfter(reason)) /\ UNCHANGED dbVars
      BY <1>4, RefusalSays
    <2>2. \/ Goto(r, "close") /\ Raise(r, "service_unavailable")
          \/ Goto(r, "alert") /\ Raise(r, reason)
      BY <2>1 DEF PhaseAfter
    <2> QED
      BY <2>1, <2>2 DEF dbVars, Refused
  <1>5. ASSUME NEW r \in Requests, PolicyAccepts(r)
        PROVE  OutcomesAreStored'
    BY <1>5, AcceptanceSays DEF dbVars
  <1>6. ASSUME NEW r \in Requests, Flush(r)
        PROVE  OutcomesAreStored'
    <2>1. /\ phase[r] \in {"row", "alert"} /\ UNCHANGED <<result, durable>>
          /\ dirty' = [dirty EXCEPT ![r] = @ \cup {RowOf(r)}]
          /\ Goto(r, IF phase[r] = "row" THEN "commit_row" ELSE "commit_alert")
      BY <1>6, ConnectionIsOwn DEF Flush
    <2>2. RowOf(r) \in dirty'[r] /\ \A q \in Requests \ {r} : dirty'[q] = dirty[q]
      BY <2>1, ConnectionIsOwn
    <2>3. /\ phase'[r] = "commit_row" => HasRow(dirty'[r], r, "detection_events", "accepted")
          /\ phase'[r] = "commit_alert" => HasRow(dirty'[r], r, "security_alerts", result[r])
      BY <2>1, <2>2, RowIsARow DEF HasRow
    <2>4. \A q \in Requests \ {r} : phase'[q] = phase[q]
      BY <2>1
    <2>5. phase'[r] \in {"commit_row", "commit_alert"}
      BY <2>1
    <2> QED
      BY <2>1, <2>2, <2>3, <2>4, <2>5
  <1>7. ASSUME NEW r \in Requests, Commit(r)
        PROVE  OutcomesAreStored'
    <2>1. /\ phase[r] \in {"commit_row", "commit_alert"} /\ Goto(r, "close")
          /\ durable' = durable \cup dirty[r] /\ dirty' = [dirty EXCEPT ![r] = {}]
          /\ phase[r] = "commit_row" => Raise(r, "accepted")
          /\ phase[r] = "commit_alert" => UNCHANGED result
      BY <1>7, ConnectionIsOwn DEF Commit
    <2>2. \A q \in Requests \ {r} : /\ dirty'[q] = dirty[q] /\ phase'[q] = phase[q]
                                    /\ result'[q] = result[q]
      BY <2>1, ConnectionIsOwn
    <2>3. CASE phase[r] = "commit_row"
      <3>1. phase'[r] = "close" /\ result'[r] = "accepted"
        BY <2>1, <2>3
      <3>2. HasRow(durable', r, "detection_events", "accepted")
        BY <1>0, <2>1, <2>3
      <3> QED
        BY <1>0, <2>1, <2>2, <3>1, <3>2 DEF Refused
    <2>4. CASE phase[r] = "commit_alert"
      <3>1. phase'[r] = "close" /\ result'[r] = result[r] /\ result[r] \in Refused
        BY <2>1, <2>4 DEF CallsAreSound
      <3>2. HasRow(durable', r, "security_alerts", result[r])
        BY <1>0, <2>1, <2>4
      <3> QED
        BY <1>0, <2>1, <2>2, <3>1, <3>2 DEF Refused
    <2> QED
      BY <2>1, <2>3, <2>4
  <1>8. ASSUME NEW r \in Requests, WriteFails(r)
        PROVE  OutcomesAreStored'
    <2>1. /\ Goto(r, "close") /\ Raise(r, "service_unavailable")
          /\ durable \subseteq durable'
          /\ dirty' \in {dirty, [dirty EXCEPT ![r] = {}]}
      BY <1>8, ConnectionIsOwn DEF WriteFails, dbVars
    <2>2. \A q \in Requests \ {r} : /\ dirty'[q] = dirty[q] /\ phase'[q] = phase[q]
                                    /\ result'[q] = result[q]
      BY <2>1, ConnectionIsOwn
    <2>3. phase'[r] = "close" /\ result'[r] = "service_unavailable"
      BY <2>1
    <2> QED
      BY <1>0, <2>1, <2>2, <2>3 DEF Refused
  <1>9. ASSUME NEW r \in Requests, Close(r)
        PROVE  OutcomesAreStored'
    <2>1. /\ phase[r] = "close" /\ Goto(r, "done") /\ UNCHANGED durable
          /\ dirty' = [dirty EXCEPT ![r] = {}]
          /\ UNCHANGED result \/ Raise(r, "service_unavailable")
      BY <1>9, ConnectionIsOwn DEF Close
    <2>2. \A q \in Requests \ {r} : /\ dirty'[q] = dirty[q] /\ phase'[q] = phase[q]
                                    /\ result'[q] = result[q]
      BY <2>1, ConnectionIsOwn
    <2>3. phase'[r] = "done" /\ result'[r] \in {result[r], "service_unavailable"}
      BY <2>1
    <2> QED
      BY <2>1, <2>2, <2>3 DEF Refused
  <1>10. ASSUME NEW g \in Readers, ReaderCloses(g)
         PROVE  OutcomesAreStored'
    <2>1. UNCHANGED <<phase, result, durable>> /\ dirty' = [dirty EXCEPT ![g] = {}]
      BY <1>10, ConnectionIsOwn DEF ReaderCloses, callVars
    <2>2. \A q \in Requests : dirty'[q] = dirty[q]
      BY <2>1, ConnectionIsOwn
    <2> QED
      BY <2>1, <2>2
  <1>11. CASE Restart
    <2>1. /\ UNCHANGED <<result, durable>>
          /\ \A q \in Requests : phase'[q] \in {"new", "done", "lost"}
          /\ \A q \in Requests : phase'[q] = "done" => phase[q] = "done"
      BY <1>11 DEF Restart, InProgress
    <2> QED
      BY <2>1
  <1>12. CASE (MoveClock /\ UNCHANGED <<callVars, dbVars, boot>>) \/ UNCHANGED allVars
    BY <1>12 DEF allVars, callVars, dbVars
  <1> QED
    BY <1>1, <1>2, <1>3, <1>4, <1>5, <1>6, <1>7, <1>8, <1>9, <1>10, <1>11, <1>12 DEF IngestNext

\* Together with the invariant, the outcomes stay stored.
LEMMA OutcomesInvariance ==
    ASSUME ~SharedConnection
    PROVE  IngestSpec => [](NInv /\ OutcomesAreStored)
  BY IngestStarts, IngestInvariance, NextKeepsOutcomes, PTL DEF IngestSpec

\* The status of each answer.
LEMMA StatusSays ==
    ASSUME NEW reason \in Results \ {"none"}
    PROVE  /\ Status(reason) = 202 <=> reason = "accepted"
           /\ Status(reason) \in {401, 409} <=> reason \in Refused
           /\ Status(reason) = 503 <=> reason = "service_unavailable"
  BY DEF Status, Results, Refused

\* A request that is answered has a result.
LEMMA AnsweredSays ==
    ASSUME NInv, NEW r \in Requests, phase[r] = "done"
    PROVE  result[r] \in Results \ {"none"}
  BY DEF NInv, Shape, CallsAreSound

\* On a file database, 202 means that the event is in it.
THEOREM AcceptedEventsAreDurable ==
    ASSUME ~SharedConnection
    PROVE  IngestSpec => []AcceptedIsDurable
  <1>1. NInv /\ OutcomesAreStored => AcceptedIsDurable
    BY StatusSays, AnsweredSays
       DEF AcceptedIsDurable, Answered, OutcomesAreStored, HasRow, Rows
  <1> QED
    BY <1>1, OutcomesInvariance, PTL

\* On a file database, a refusal that gives its reason has left an alert of it.
THEOREM RefusalsAreRecorded ==
    ASSUME ~SharedConnection
    PROVE  IngestSpec => []RefusalIsRecorded
  <1>1. NInv /\ OutcomesAreStored => RefusalIsRecorded
    BY StatusSays, AnsweredSays
       DEF RefusalIsRecorded, Answered, OutcomesAreStored, HasRow, Rows
  <1> QED
    BY <1>1, OutcomesInvariance, PTL

\* On a file database, what the policy has accepted is stored, on its way, or
\* was answered with 503.
THEOREM NothingIsLostSilently ==
    ASSUME ~SharedConnection
    PROVE  IngestSpec => []NoSilentLoss
  <1>1. ASSUME NInv, OutcomesAreStored
        PROVE  NoSilentLoss
    <2> SUFFICES ASSUME NEW i \in DOMAIN log
                 PROVE  \E r \in Requests :
                           /\ envelope[r] # None /\ envelope[r].event = log[i].event
                           /\ reply[r] = "accepted"
                           /\ \/ InProgress(r)
                              \/ Answered(r, {503})
                              \/ \E w \in Rows("detection_events") : w.request = r
      BY DEF NoSilentLoss
    <2>1. PICK r \in Requests : reply[r] = "accepted" /\ envelope[r].event = log[i].event
      BY <1>1 DEF NInv, LogIsOfRequests
    <2>2. /\ envelope[r] # None
          /\ \/ InProgress(r)
             \/ phase[r] = "done" /\ result[r] \in {"accepted", "service_unavailable"}
      BY <1>1, <2>1 DEF NInv, CallsAreSound, InProgress
    <2>3. CASE phase[r] = "done" /\ result[r] = "service_unavailable"
      BY <2>1, <2>2, <2>3, StatusSays DEF Answered, Results
    <2>4. CASE phase[r] = "done" /\ result[r] = "accepted"
      BY <1>1, <2>1, <2>2, <2>4 DEF OutcomesAreStored, HasRow, Rows
    <2> QED
      BY <2>1, <2>2, <2>3, <2>4
  <1> QED
    BY <1>1, OutcomesInvariance, PTL
=============================================================================

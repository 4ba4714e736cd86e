---------------------------- MODULE EdgeSystemProofs ----------------------------
(***************************************************************************)
(* What a node and the aggregator guarantee together for every number of   *)
(* runs, events, heartbeats and restarts, every skew and every drift of    *)
(* the clocks, whatever is lost, late or given up.                         *)
(***************************************************************************)
EXTENDS EdgeSystem, TLAPS

USE EdgeAssumption, NoneAssumption

Requests == Events \cup Beats
Numbers  == (1 .. MaxRuns) \X Nat  \* the run and the number of an event

\* The state of the worker has this shape.
WorkerShape ==
    /\ now \in 0 .. MaxTime
    /\ run \in 0 .. MaxRuns
    /\ main \in {"off", "hello", "ready", "posting", "leaving", "degrading"}
    /\ thread \in {"none", "waiting", "awake", "posting"}
    /\ beats \in Nat /\ made \in Nat
    /\ counted \in [1 .. MaxRuns -> Nat]

NetworkShape ==
    /\ awaited \in [Actors -> Requests \cup {None}]
    /\ reply \in [Actors -> {"accepted", "refused", None}]
    /\ flying \subseteq Requests

AggregatorShape ==
    /\ used \subseteq Numbers
    /\ rows \in Seq(Numbers)

\* Who waits for an answer waits for a request of the present run, and an
\* answer is under way only to a request that was handled.
CallsAreOpen ==
    /\ main \in {"hello", "posting", "degrading"} <=> awaited["main"] # None
    /\ thread = "posting" <=> awaited["thread"] # None
    /\ main \in {"off", "hello", "degrading"} => thread = "none"
    /\ main # "off" => run # 0
    /\ main = "posting" => /\ awaited["main"] \in Events
                           /\ KeyOf(awaited["main"]) = <<run, made>>
    /\ main \in {"hello", "degrading"} => awaited["main"] \in Beats
    /\ thread = "posting" => awaited["thread"] \in Beats
    /\ \A a \in Actors : reply[a] # None => awaited[a] # None /\ awaited[a] \notin flying

\* The events that the aggregator has stored or remembers.
Known == used \cup {rows[i] : i \in DOMAIN rows}

\* The events of a run are numbered as they are counted: one at most is made
\* and not counted.
EventsAreCounted ==
    /\ \A r \in 1 .. MaxRuns : r > run => counted[r] = 0
    /\ main = "hello" => made = 0 /\ counted[run] = 0
    /\ main = "off" => made = 0
    /\ main = "ready" => made = counted[run]
    /\ main = "posting" => made = counted[run] + 1

\* An event under way is the one not counted of its run, is alone, and is not
\* known to the aggregator.
EventsUnderWay ==
    /\ \A q \in flying \cap Events :
          /\ q.run =< run /\ q.n = counted[q.run] + 1 /\ KeyOf(q) \notin Known
          /\ q.run = run => main \notin {"hello", "ready"}
          /\ q.run = run /\ main = "posting" => q = awaited["main"]
    /\ \A p, q \in flying \cap Events : KeyOf(p) = KeyOf(q) => p = q

\* What the aggregator knows was made; what was counted is stored, in order.
KnownWasMade ==
    /\ \A k \in Known : /\ k[1] =< run /\ k[2] \in 1 .. counted[k[1]] + 1
                        /\ k[1] = run /\ main \in {"hello", "ready"} => k[2] =< counted[run]
    /\ \A r \in 1 .. MaxRuns : \A n \in 1 .. counted[r] :
          \E i \in DOMAIN rows : rows[i] = <<r, n>>
    /\ main = "posting" /\ reply["main"] = "accepted" =>
          \E i \in DOMAIN rows : rows[i] = <<run, made>>
    /\ \A i, j \in DOMAIN rows : i < j /\ rows[i][1] = rows[j][1] => rows[i][2] < rows[j][2]

\* The inductive invariant of the events.
EventInv == /\ WorkerShape
            /\ NetworkShape
            /\ AggregatorShape
            /\ CallsAreOpen
            /\ EventsAreCounted
            /\ EventsUnderWay
            /\ KnownWasMade
            /\ NoFalseAlarm

\* The row of the node is the newest heartbeat, as text too.
NodeIsStored ==
    /\ NodeRowIsTheNewest
    /\ node # None => /\ node.at \in 0 .. MaxTime + Drift
                      /\ node.text = Stored(node.at)
                      /\ node.run \in 1 .. run

\* The heartbeats of the present run that are under way: while the heartbeat has
\* not failed it is the one waited for, if any.
BeatsUnderWay ==
    \A b \in flying \cap Beats :
       /\ b.run =< run
       /\ b.run = run /\ main = "hello" => b = awaited["main"]
       /\ b.run = run /\ main \in {"ready", "posting", "leaving"} /\ ~failed =>
             thread = "posting" /\ b = awaited["thread"]

\* A degraded heartbeat is the last of its run, under way or stored.
DegradedIsAlone ==
    /\ \A b \in flying \cap Beats : b.status = "degraded" =>
          /\ b.run = run => main \in {"degrading", "off"}
          /\ \A c \in flying \cap Beats : c.run = b.run => c = b
    /\ node # None /\ node.status = "degraded" =>
          /\ node.run = run => main \in {"degrading", "off"}
          /\ \A c \in flying \cap Beats : c.run # node.run

\* The inductive invariant of the heartbeats.
BeatInv == NodeIsStored /\ BeatsUnderWay /\ DegradedIsAlone
-----------------------------------------------------------------------------
\* A request is made of what the sender puts in; events are not heartbeats.
LEMMA RequestsAre ==
    /\ \A t \in 0 .. MaxTime + Drift, r \in 1 .. MaxRuns, n \in Nat :
          /\ Event(t, r, n) \in Events /\ KeyOf(Event(t, r, n)) = <<r, n>>
          /\ Event(t, r, n).run = r /\ Event(t, r, n).n = n
          /\ \A status \in {"healthy", "degraded"} :
                /\ Beat(t, r, n, status) \in Beats
                /\ Beat(t, r, n, status).run = r /\ Beat(t, r, n, status).status = status
    /\ Events \cap Beats = {}
    /\ \A q \in Events : /\ q.kind = "event" /\ q.at \in 0 .. MaxTime + Drift
                         /\ q.run \in 1 .. MaxRuns /\ q.n \in Nat
                         /\ KeyOf(q) = <<q.run, q.n>> /\ KeyOf(q) \in Numbers
    /\ \A b \in Beats : /\ b.kind = "beat" /\ b.at \in 0 .. MaxTime + Drift
                        /\ b.run \in 1 .. MaxRuns /\ b.status \in {"healthy", "degraded"}
  BY DEF Events, Beats, Event, Beat, KeyOf, Numbers

\* What the worker's clock reads is a time.
LEMMA ClockReads ==
    ASSUME now \in 0 .. MaxTime
    PROVE  WorkerClock \subseteq 0 .. MaxTime + Drift
  BY DEF WorkerClock

\* Text of this width is in the order of the times it stands for.
LEMMA StoredOrder ==
    ASSUME NEW x \in Nat, NEW y \in Nat
    PROVE  TextBefore(Stored(x), Stored(y)) <=> x < y
  <1> DEFINE s == Stored(x)
             t == Stored(y)
  <1>1. /\ s = <<x \div 2, 46, 48 + 5 * (x % 2), 90>>
        /\ t = <<y \div 2, 46, 48 + 5 * (y % 2), 90>>
    BY DEF Stored
  <1>2. /\ DOMAIN s = 1 .. 4 /\ DOMAIN t = 1 .. 4
        /\ s[1] = x \div 2 /\ s[2] = 46 /\ s[3] = 48 + 5 * (x % 2) /\ s[4] = 90
        /\ t[1] = y \div 2 /\ t[2] = 46 /\ t[3] = 48 + 5 * (y % 2) /\ t[4] = 90
        /\ Len(s) = 4 /\ Len(t) = 4
    BY <1>1
  <1>3. ~IsStrictPrefix(s, t)
    <2>1. s \in Seq(Int) /\ t \in Seq(Int)
      BY <1>1
    <2>2. SubSeq(s, 1, 4) = s /\ SubSeq(t, 1, 4) = t
      BY <1>2, <2>1
    <2> QED
      BY <1>2, <2>2 DEF IsStrictPrefix, IsPrefix
  <1>4. x < y <=> \/ x \div 2 < y \div 2
                  \/ x \div 2 = y \div 2 /\ x % 2 < y % 2
    OBVIOUS
  <1> HIDE DEF s, t
  <1>5. TextBefore(s, t) <=>
           \E i \in 1 .. 4 : s[i] < t[i] /\ \A j \in 1 .. i - 1 : s[j] = t[j]
    <2>1. DOMAIN s \cap DOMAIN t = 1 .. 4
      BY <1>2
    <2> QED
      BY <1>3, <2>1 DEF TextBefore
  <1>6. (\E i \in 1 .. 4 : s[i] < t[i] /\ \A j \in 1 .. i - 1 : s[j] = t[j])
           <=> s[1] < t[1] \/ (s[1] = t[1] /\ s[3] < t[3])
    <2>1. x \div 2 \in Int /\ y \div 2 \in Int /\ x % 2 \in 0 .. 1 /\ y % 2 \in 0 .. 1
      OBVIOUS
    <2>2. s[1] \in Int /\ t[1] \in Int /\ s[3] \in Int /\ t[3] \in Int
      <3>1. x \div 2 \in Int /\ y \div 2 \in Int
        BY <2>1
      <3>2. 48 + 5 * (x % 2) \in Int /\ 48 + 5 * (y % 2) \in Int
        BY <2>1
      <3> QED
        BY <1>2, <3>1, <3>2
    <2>3. s[1] < t[1] => \E i \in 1 .. 4 : s[i] < t[i] /\ \A j \in 1 .. i - 1 : s[j] = t[j]
      BY <2>2
    <2>4. s[1] = t[1] /\ s[3] < t[3] =>
             \E i \in 1 .. 4 : s[i] < t[i] /\ \A j \in 1 .. i - 1 : s[j] = t[j]
      <3>1. \A j \in 1 .. 2 : j = 1 \/ j = 2
        OBVIOUS
      <3> QED
        BY <1>2, <2>2, <3>1
    <2>5. ASSUME NEW i \in 1 .. 4, s[i] < t[i], \A j \in 1 .. i - 1 : s[j] = t[j]
          PROVE  s[1] < t[1] \/ (s[1] = t[1] /\ s[3] < t[3])
      <3>1. i = 1 \/ i = 2 \/ i = 3 \/ i = 4
        OBVIOUS
      <3> QED
        BY <1>2, <2>2, <2>5, <3>1
    <2> QED
      BY <2>3, <2>4, <2>5
  <1>7. TextBefore(s, t) <=> s[1] < t[1] \/ (s[1] = t[1] /\ s[3] < t[3])
    BY <1>5, <1>6
  <1>8. /\ x \div 2 \in Int /\ y \div 2 \in Int /\ x % 2 \in Int /\ y % 2 \in Int
    OBVIOUS
  <1>9. TextBefore(s, t) <=> x < y
    BY <1>2, <1>4, <1>7, <1>8
  <1> QED
    BY <1>9 DEF s, t
-----------------------------------------------------------------------------
\* What sending a request does to the network.
LEMMA PostSends ==
    ASSUME NetworkShape, NEW a \in Actors, NEW q \in Requests, Post(a, q)
    PROVE  /\ NetworkShape'
           /\ awaited'[a] = q
           /\ \A c \in Actors : c # a => awaited'[c] = awaited[c]
           /\ reply' = reply
           /\ flying' = flying \cup {q}
  BY DEF NetworkShape, Post, Actors

\* What the return of a call does to it.
LEMMA ReturnsEnds ==
    ASSUME NetworkShape, NEW a \in Actors, NEW ok \in BOOLEAN, Returns(a, ok)
    PROVE  /\ NetworkShape'
           /\ awaited[a] # None
           /\ ok => reply[a] = "accepted"
           /\ awaited'[a] = None /\ reply'[a] = None
           /\ \A c \in Actors : c # a => awaited'[c] = awaited[c] /\ reply'[c] = reply[c]
           /\ flying' = flying
  BY DEF NetworkShape, Returns, Actors

\* Nothing has happened at first.
LEMMA InitHolds == Init => EventInv /\ BeatInv
  <1> SUFFICES ASSUME Init
               PROVE  EventInv /\ BeatInv
    OBVIOUS
  <1>1. WorkerShape /\ NetworkShape /\ AggregatorShape
    BY DEF Init, WorkerShape, NetworkShape, AggregatorShape, Actors
  <1>2. CallsAreOpen /\ EventsAreCounted /\ NoFalseAlarm
    BY DEF Init, CallsAreOpen, EventsAreCounted, NoFalseAlarm, Actors
  <1>3. EventsUnderWay /\ KnownWasMade
    BY DEF Init, EventsUnderWay, KnownWasMade, Known
  <1>4. BeatInv
    BY DEF Init, BeatInv, NodeIsStored, NodeRowIsTheNewest, BeatsUnderWay, DegradedIsAlone
  <1> QED
    BY <1>1, <1>2, <1>3, <1>4 DEF EventInv

\* The aggregator knows numbers of events.
LEMMA KnownIsTyped ==
    ASSUME AggregatorShape
    PROVE  /\ \A k \in Known : k \in Numbers /\ k[1] \in 1 .. MaxRuns /\ k[2] \in Nat
           /\ DOMAIN rows = 1 .. Len(rows) /\ Len(rows) \in Nat
           /\ \A i \in DOMAIN rows : rows[i] \in Known
  <1>1. /\ DOMAIN rows = 1 .. Len(rows) /\ Len(rows) \in Nat
        /\ \A i \in 1 .. Len(rows) : rows[i] \in Numbers
    BY DEF AggregatorShape
  <1>2. \A k \in Known : k \in Numbers
    BY <1>1 DEF AggregatorShape, Known
  <1> QED
    BY <1>1, <1>2 DEF Known, Numbers

\* A step of the worker leaves the aggregator as it is.
LEMMA AggregatorStays ==
    ASSUME EventInv, aggregator' = aggregator
    PROVE  AggregatorShape' /\ NoFalseAlarm' /\ Known' = Known /\ rows' = rows
  BY DEF EventInv, aggregator, AggregatorShape, NoFalseAlarm, Known

\* The clock ticks.
LEMMA TickKeepsEvents ==
    ASSUME EventInv, Tick
    PROVE  EventInv'
  <1>1. AggregatorShape' /\ NoFalseAlarm' /\ Known' = Known /\ rows' = rows
    BY AggregatorStays DEF Tick
  <1>2. UNCHANGED <<worker, network>> /\ now' = now + 1 /\ now < MaxTime
    BY DEF Tick
  <1>3. WorkerShape'
    BY <1>2 DEF EventInv, WorkerShape, worker
  <1>4. NetworkShape' /\ CallsAreOpen'
    BY <1>2 DEF EventInv, NetworkShape, CallsAreOpen, worker, network
  <1>5. EventsAreCounted' /\ EventsUnderWay' /\ KnownWasMade'
    BY <1>1, <1>2 DEF EventInv, EventsAreCounted, EventsUnderWay, KnownWasMade, worker, network
  <1> QED
    BY <1>1, <1>3, <1>4, <1>5 DEF EventInv

\* A run begins.
LEMMA StartRunKeepsEvents ==
    ASSUME EventInv, StartRun
    PROVE  EventInv'
  <1>1. AggregatorShape' /\ NoFalseAlarm' /\ Known' = Known /\ rows' = rows
    BY AggregatorStays DEF StartRun, elsewhere
  <1>2. PICK b \in Beats : Post("main", b)
    <2>1. PICK t \in WorkerClock : Post("main", Beat(t, run', 0, "healthy"))
      BY DEF StartRun
    <2>2. t \in 0 .. MaxTime + Drift /\ run' \in 1 .. MaxRuns
      BY <2>1, ClockReads DEF StartRun, EventInv, WorkerShape
    <2>3. Beat(t, run', 0, "healthy") \in Beats
      BY <2>2, RequestsAre
    <2> QED
      BY <2>1, <2>3
  <1>3. /\ main = "off" /\ run < MaxRuns /\ run' = run + 1 /\ main' = "hello"
        /\ now' = now
        /\ UNCHANGED <<thread, failed, broke, beats, made, counted>>
    BY DEF StartRun, elsewhere
  <1>4. /\ NetworkShape'
        /\ awaited'["main"] = b /\ awaited'["thread"] = awaited["thread"]
        /\ reply' = reply /\ flying' = flying \cup {b}
    BY <1>2, PostSends DEF EventInv, Actors, Requests
  <1>5. b \notin Events
    BY RequestsAre
  <1>6. WorkerShape'
    BY <1>3 DEF EventInv, WorkerShape
  <1>7. CallsAreOpen'
    BY <1>3, <1>4, NoneAssumption DEF EventInv, CallsAreOpen, WorkerShape, Actors
  <1>8. EventsAreCounted'
    BY <1>3 DEF EventInv, EventsAreCounted, WorkerShape
  <1>9. EventsUnderWay'
    <2>1. flying' \cap Events = flying \cap Events
      BY <1>4, <1>5
    <2>2. \A q \in flying \cap Events : q.run =< run' /\ q.run # run'
      BY <1>3, RequestsAre DEF EventInv, EventsUnderWay, WorkerShape
    <2>3. counted' = counted /\ main' = "hello"
      BY <1>3
    <2> QED
      BY <1>1, <2>1, <2>2, <2>3 DEF EventInv, EventsUnderWay
  <1>10. KnownWasMade'
    <2>1. \A k \in Known : k[1] =< run' /\ k[1] # run'
      BY <1>3, KnownIsTyped DEF EventInv, KnownWasMade, WorkerShape
    <2>2. counted' = counted /\ main' = "hello"
      BY <1>3
    <2> QED
      BY <1>1, <2>1, <2>2 DEF EventInv, KnownWasMade
  <1> QED
    BY <1>1, <1>4, <1>6, <1>7, <1>8, <1>9, <1>10 DEF EventInv

\* The worker's process ends, and nobody waits any more.
LEMMA ExitKeepsEvents ==
    ASSUME EventInv, Exit, NetworkShape', flying' = flying,
           \A a \in Actors : awaited'[a] = None /\ reply'[a] = None
    PROVE  EventInv'
  <1>1. AggregatorShape' /\ NoFalseAlarm' /\ Known' = Known /\ rows' = rows
    BY AggregatorStays DEF Exit, elsewhere
  <1>2. /\ main' = "off" /\ thread' = "none" /\ beats' = 0 /\ made' = 0
        /\ run' = run /\ counted' = counted /\ now' = now
    BY DEF Exit, elsewhere
  <1>3. WorkerShape'
    BY <1>2 DEF EventInv, WorkerShape
  <1>4. CallsAreOpen'
    BY <1>2 DEF CallsAreOpen, Actors
  <1>5. EventsAreCounted'
    BY <1>2 DEF EventInv, EventsAreCounted
  <1>6. EventsUnderWay'
    BY <1>1, <1>2 DEF EventInv, EventsUnderWay
  <1>7. KnownWasMade'
    BY <1>1, <1>2 DEF EventInv, KnownWasMade
  <1> QED
    BY <1>1, <1>3, <1>4, <1>5, <1>6, <1>7 DEF EventInv

\* A run whose first heartbeat was accepted goes on; another ends.
LEMMA HelloKeepsEvents ==
    ASSUME EventInv, Hello
    PROVE  EventInv'
  <1>1. main = "hello" /\ thread = "none"
    BY DEF Hello, EventInv, CallsAreOpen
  <1>2. awaited["thread"] = None /\ reply["thread"] = None
    BY <1>1 DEF EventInv, CallsAreOpen, Actors
  <1>3. CASE Returns("main", TRUE) /\ main' = "ready"
    <2>1. /\ thread' = "waiting" /\ now' = now /\ aggregator' = aggregator
          /\ UNCHANGED <<run, beats, made, counted>>
      BY <1>1, <1>3 DEF Hello, Exit, elsewhere
    <2>2. AggregatorShape' /\ NoFalseAlarm' /\ Known' = Known /\ rows' = rows
      BY <2>1, AggregatorStays
    <2>3. /\ NetworkShape' /\ flying' = flying
          /\ \A a \in Actors : awaited'[a] = None /\ reply'[a] = None
      BY <1>2, <1>3, ReturnsEnds DEF EventInv, Actors
    <2>4. WorkerShape'
      BY <1>3, <2>1 DEF EventInv, WorkerShape
    <2>5. CallsAreOpen'
      BY <1>1, <1>3, <2>1, <2>3 DEF EventInv, CallsAreOpen, Actors
    <2>6. EventsAreCounted'
      BY <1>1, <1>3, <2>1 DEF EventInv, EventsAreCounted
    <2>7. EventsUnderWay'
      BY <1>1, <1>3, <2>1, <2>2, <2>3 DEF EventInv, EventsUnderWay
    <2>8. KnownWasMade'
      BY <1>1, <1>3, <2>1, <2>2, <2>3 DEF EventInv, KnownWasMade
    <2> QED
      BY <2>2, <2>3, <2>4, <2>5, <2>6, <2>7, <2>8 DEF EventInv
  <1>4. CASE Returns("main", FALSE) /\ Exit
    <2>1. /\ NetworkShape' /\ flying' = flying
          /\ \A a \in Actors : awaited'[a] = None /\ reply'[a] = None
      BY <1>2, <1>4, ReturnsEnds DEF EventInv, Actors
    <2> QED
      BY <1>4, <2>1, ExitKeepsEvents
  <1> QED
    BY <1>3, <1>4 DEF Hello

\* An event is made and posted: it is the first of its number.
LEMMA PostEventKeepsEvents ==
    ASSUME EventInv, PostEvent
    PROVE  EventInv'
  <1>1. AggregatorShape' /\ NoFalseAlarm' /\ Known' = Known /\ rows' = rows
    BY AggregatorStays DEF PostEvent, elsewhere
  <1>2. /\ main = "ready" /\ main' = "posting" /\ made' = made + 1 /\ now' = now
        /\ UNCHANGED <<run, thread, beats, counted>>
    BY DEF PostEvent, elsewhere
  <1>3. run \in 1 .. MaxRuns /\ made \in Nat /\ made = counted[run]
    BY <1>2 DEF EventInv, WorkerShape, CallsAreOpen, EventsAreCounted
  <1>4. PICK q \in Events : /\ Post("main", q)
                            /\ KeyOf(q) = <<run, made + 1>> /\ q.run = run /\ q.n = made + 1
    <2>1. PICK t \in WorkerClock : Post("main", Event(t, run, made + 1))
      BY <1>2 DEF PostEvent
    <2>2. t \in 0 .. MaxTime + Drift /\ made + 1 \in Nat
      BY <1>3, <2>1, ClockReads DEF EventInv, WorkerShape
    <2>3. LET q == Event(t, run, made + 1)
          IN  q \in Events /\ KeyOf(q) = <<run, made + 1>> /\ q.run = run /\ q.n = made + 1
      BY <1>3, <2>2, RequestsAre
    <2> QED
      BY <2>1, <2>3
  <1>5. /\ NetworkShape'
        /\ awaited'["main"] = q /\ awaited'["thread"] = awaited["thread"]
        /\ reply' = reply /\ flying' = flying \cup {q}
    BY <1>4, PostSends DEF EventInv, Actors, Requests
  <1>6. \A p \in flying \cap Events : p.run # run
    BY <1>2 DEF EventInv, EventsUnderWay
  <1>7. KeyOf(q) \notin Known
    <2>1. \A k \in Known : k[1] = run => k[2] =< made /\ k[2] \in Nat
      BY <1>2, <1>3, KnownIsTyped DEF EventInv, KnownWasMade
    <2>2. KeyOf(q)[1] = run /\ KeyOf(q)[2] = made + 1
      BY <1>4
    <2> QED
      BY <1>3, <2>1, <2>2
  <1>8. WorkerShape'
    BY <1>2, <1>3 DEF EventInv, WorkerShape
  <1>9. CallsAreOpen'
    <2>1. awaited["main"] = None /\ reply["main"] = None
      BY <1>2 DEF EventInv, CallsAreOpen, Actors
    <2>2. thread = "posting" => awaited["thread"] # q
      BY RequestsAre, <1>4 DEF EventInv, CallsAreOpen
    <2>3. q # None
      BY NoneAssumption, <1>4
    <2> QED
      BY <1>2, <1>3, <1>4, <1>5, <2>1, <2>2, <2>3 DEF EventInv, CallsAreOpen, Actors
  <1>10. EventsAreCounted'
    BY <1>2, <1>3 DEF EventInv, EventsAreCounted
  <1>11. EventsUnderWay'
    <2>1. flying' \cap Events = (flying \cap Events) \cup {q}
      BY <1>4, <1>5
    <2>2. \A p \in flying \cap Events : KeyOf(p) # KeyOf(q)
      BY <1>4, <1>6, RequestsAre
    <2>3. /\ q.run =< run' /\ q.n = counted'[q.run] + 1 /\ KeyOf(q) \notin Known'
          /\ q.run = run' => main' \notin {"hello", "ready"}
          /\ q.run = run' /\ main' = "posting" => q = awaited'["main"]
      BY <1>1, <1>2, <1>3, <1>4, <1>5, <1>7
    <2> QED
      BY <1>1, <1>2, <1>6, <2>1, <2>2, <2>3 DEF EventInv, EventsUnderWay
  <1>12. KnownWasMade'
    <2>1. reply'["main"] = None
      BY <1>2, <1>5 DEF EventInv, CallsAreOpen, Actors
    <2>2. None # "accepted"
      BY NoneAssumption
    <2> QED
      BY <1>1, <1>2, <2>1, <2>2 DEF EventInv, KnownWasMade
  <1> QED
    BY <1>1, <1>5, <1>8, <1>9, <1>10, <1>11, <1>12 DEF EventInv

\* The delivery of an event ends: if it was accepted the event is stored.
LEMMA DeliveredKeepsEvents ==
    ASSUME EventInv, Delivered
    PROVE  EventInv'
  <1>1. AggregatorShape' /\ NoFalseAlarm' /\ Known' = Known /\ rows' = rows
    BY AggregatorStays DEF Delivered, elsewhere
  <1>2. main = "posting" /\ now' = now /\ UNCHANGED <<run, thread, beats, made>>
    BY DEF Delivered, elsewhere
  <1>3. run \in 1 .. MaxRuns /\ made = counted[run] + 1 /\ counted[run] \in Nat
    BY <1>2 DEF EventInv, WorkerShape, CallsAreOpen, EventsAreCounted
  <1>4. ASSUME NEW ok \in BOOLEAN, Returns("main", ok), main' \in {"ready", "leaving"}
        PROVE  /\ NetworkShape' /\ flying' = flying /\ CallsAreOpen'
               /\ awaited'["main"] = None /\ reply'["main"] = None
    <2>1. /\ NetworkShape' /\ flying' = flying
          /\ awaited'["main"] = None /\ reply'["main"] = None
          /\ awaited'["thread"] = awaited["thread"] /\ reply'["thread"] = reply["thread"]
      BY <1>4, ReturnsEnds DEF EventInv, Actors
    <2> QED
      BY <1>2, <1>3, <1>4, <2>1 DEF EventInv, CallsAreOpen, Actors
  <1>5. CASE Returns("main", TRUE) /\ main' = "ready" /\ counted' = [counted EXCEPT ![run] = @ + 1]
    <2>1. /\ NetworkShape' /\ flying' = flying /\ CallsAreOpen'
          /\ awaited'["main"] = None /\ reply'["main"] = None
      BY <1>4, <1>5
    <2>2. /\ counted' \in [1 .. MaxRuns -> Nat] /\ counted'[run] = made
          /\ \A r \in 1 .. MaxRuns : r # run => counted'[r] = counted[r]
      BY <1>3, <1>5 DEF EventInv, WorkerShape
    <2>3. reply["main"] = "accepted" /\ reply["main"] # None
      BY <1>5, ReturnsEnds, NoneAssumption DEF EventInv, Actors
    <2>4. \A q \in flying \cap Events : q.run # run
      BY <1>2, <2>3 DEF EventInv, CallsAreOpen, EventsUnderWay, Actors
    <2>5. WorkerShape'
      BY <1>2, <1>5, <2>2 DEF EventInv, WorkerShape
    <2>6. EventsAreCounted'
      BY <1>2, <1>3, <1>5, <2>2 DEF EventInv, EventsAreCounted
    <2>7. EventsUnderWay'
      BY <1>1, <1>2, <1>5, <2>1, <2>2, <2>4, RequestsAre DEF EventInv, EventsUnderWay
    <2>8. KnownWasMade'
      <3>1. ASSUME NEW k \in Known
            PROVE  /\ k[1] =< run /\ k[2] \in 1 .. counted'[k[1]] + 1
                   /\ k[1] = run => k[2] =< counted'[run]
        <4>1. /\ k[1] \in 1 .. MaxRuns /\ k[1] =< run
              /\ k[2] \in Nat /\ k[2] \in 1 .. counted[k[1]] + 1
          BY KnownIsTyped DEF EventInv, KnownWasMade
        <4>2. counted[k[1]] \in Nat /\ counted'[k[1]] \in Nat
          BY <2>2, <4>1 DEF EventInv, WorkerShape
        <4>3. CASE k[1] = run
          BY <1>3, <2>2, <4>1, <4>2, <4>3
        <4>4. CASE k[1] # run
          BY <2>2, <4>1, <4>4
        <4> QED
          BY <4>3, <4>4
      <3>2. ASSUME NEW r \in 1 .. MaxRuns, NEW n \in 1 .. counted'[r]
            PROVE  \E i \in DOMAIN rows : rows[i] = <<r, n>>
        <4>1. CASE r = run /\ n = made
          BY <1>2, <2>3, <4>1 DEF EventInv, KnownWasMade
        <4>2. CASE ~(r = run /\ n = made)
          <5>1. n \in 1 .. counted[r]
            <6>1. CASE r = run
              BY <1>3, <2>2, <4>2, <6>1
            <6>2. CASE r # run
              BY <2>2, <6>2
            <6> QED
              BY <6>1, <6>2
          <5> QED
            BY <5>1 DEF EventInv, KnownWasMade
        <4> QED
          BY <4>1, <4>2
      <3> QED
        BY <1>1, <1>2, <1>5, <3>1, <3>2 DEF EventInv, KnownWasMade
    <2> QED
      BY <1>1, <2>1, <2>5, <2>6, <2>7, <2>8 DEF EventInv
  <1>6. CASE Returns("main", FALSE) /\ main' = "leaving" /\ counted' = counted
    <2>1. NetworkShape' /\ flying' = flying /\ CallsAreOpen'
      BY <1>4, <1>6
    <2>2. WorkerShape'
      BY <1>2, <1>6 DEF EventInv, WorkerShape
    <2>3. EventsAreCounted'
      BY <1>2, <1>6 DEF EventInv, EventsAreCounted
    <2>4. EventsUnderWay'
      BY <1>1, <1>2, <1>6, <2>1 DEF EventInv, EventsUnderWay
    <2>5. KnownWasMade'
      BY <1>1, <1>2, <1>6 DEF EventInv, KnownWasMade
    <2> QED
      BY <1>1, <2>1, <2>2, <2>3, <2>4, <2>5 DEF EventInv
  <1> QED
    BY <1>5, <1>6 DEF Delivered, DeliveryFails

\* The loop ends.
LEMMA LeaveLoopKeepsEvents ==
    ASSUME EventInv, LeaveLoop
    PROVE  EventInv'
  <1>1. AggregatorShape' /\ NoFalseAlarm' /\ Known' = Known /\ rows' = rows
    BY AggregatorStays DEF LeaveLoop, elsewhere
  <1>2. /\ main = "ready" /\ main' = "leaving" /\ now' = now
        /\ UNCHANGED <<run, thread, beats, made, counted, awaited, reply, flying>>
    BY DEF LeaveLoop, elsewhere, network
  <1>3. WorkerShape' /\ NetworkShape'
    BY <1>2 DEF EventInv, WorkerShape, NetworkShape
  <1>4. CallsAreOpen' /\ EventsAreCounted'
    BY <1>2 DEF EventInv, CallsAreOpen, EventsAreCounted
  <1>5. EventsUnderWay' /\ KnownWasMade'
    BY <1>1, <1>2 DEF EventInv, EventsUnderWay, KnownWasMade
  <1> QED
    BY <1>1, <1>3, <1>4, <1>5 DEF EventInv

\* A heartbeat of the run is posted, and nothing else of the worker changes but
\* where it is: the events are not disturbed.
LEMMA BeatKeepsEvents ==
    ASSUME EventInv, aggregator' = aggregator, now' = now,
           UNCHANGED <<run, made, counted>>, beats' \in Nat,
           NEW a \in Actors, NEW b \in Beats, Post(a, b), awaited[a] = None,
           \/ a = "main" /\ main = "leaving" /\ main' = "degrading" /\ thread = "none" /\ thread' = "none"
           \/ a = "thread" /\ main' = main /\ thread = "awake" /\ thread' = "posting"
    PROVE  EventInv'
  <1>1. AggregatorShape' /\ NoFalseAlarm' /\ Known' = Known /\ rows' = rows
    BY AggregatorStays
  <1>2. /\ NetworkShape'
        /\ awaited'[a] = b /\ \A c \in Actors : c # a => awaited'[c] = awaited[c]
        /\ reply' = reply /\ flying' = flying \cup {b}
    BY PostSends DEF EventInv, Requests
  <1>3. b \notin Events /\ b # None
    BY RequestsAre, NoneAssumption
  <1>4. flying' \cap Events = flying \cap Events
    BY <1>2, <1>3
  <1>5. WorkerShape'
    BY DEF EventInv, WorkerShape
  <1>6. CallsAreOpen'
    <2>1. \A c \in Actors : reply'[c] # None => awaited'[c] # None /\ awaited'[c] \notin flying'
      <3>1. reply[a] = None
        BY DEF EventInv, CallsAreOpen
      <3>2. ASSUME NEW c \in Actors, c # a, reply[c] # None
            PROVE  awaited[c] # None /\ awaited[c] # b /\ awaited[c] \notin flying
        BY <1>3, <3>2 DEF EventInv, CallsAreOpen, Actors
      <3> QED
        BY <1>2, <3>1, <3>2
    <2> QED
      BY <1>2, <1>3, <2>1 DEF EventInv, CallsAreOpen, Actors
  <1>7. EventsAreCounted'
    BY DEF EventInv, EventsAreCounted
  <1>8. EventsUnderWay'
    BY <1>1, <1>2, <1>4 DEF EventInv, EventsUnderWay, Actors
  <1>9. KnownWasMade'
    BY <1>1, <1>2 DEF EventInv, KnownWasMade
  <1> QED
    BY <1>1, <1>2, <1>5, <1>6, <1>7, <1>8, <1>9 DEF EventInv

\* The run is left, with a last heartbeat or without.
LEMMA LeaveKeepsEvents ==
    ASSUME EventInv, Leave
    PROVE  EventInv'
  <1>1. main = "leaving" /\ thread = "none"
    BY DEF Leave, Joined
  <1>2. \A a \in Actors : awaited[a] = None /\ reply[a] = None
    BY <1>1 DEF EventInv, CallsAreOpen, Actors
  <1>3. CASE Exit /\ UNCHANGED network
    <2>1. awaited' = awaited /\ reply' = reply /\ flying' = flying
      BY <1>3 DEF network
    <2>2. NetworkShape'
      BY <2>1 DEF EventInv, NetworkShape
    <2> QED
      BY <1>2, <1>3, <2>1, <2>2, ExitKeepsEvents
  <1>4. CASE /\ main' = "degrading"
             /\ \E t \in WorkerClock : Post("main", Beat(t, run, MaxBeats + 1, "degraded"))
             /\ UNCHANGED <<elsewhere, run, thread, failed, broke, beats, made, counted>>
    <2>1. PICK b \in Beats : Post("main", b)
      <3>1. PICK t \in WorkerClock : Post("main", Beat(t, run, MaxBeats + 1, "degraded"))
        BY <1>4
      <3>2. t \in 0 .. MaxTime + Drift /\ run \in 1 .. MaxRuns /\ MaxBeats + 1 \in Nat
        BY <1>1, <3>1, ClockReads DEF EventInv, WorkerShape, CallsAreOpen
      <3>3. Beat(t, run, MaxBeats + 1, "degraded") \in Beats
        BY <3>2, RequestsAre
      <3> QED
        BY <3>1, <3>3
    <2>2. aggregator' = aggregator /\ now' = now /\ beats' \in Nat
      BY <1>4 DEF elsewhere, EventInv, WorkerShape
    <2> QED
      BY <1>1, <1>2, <1>4, <2>1, <2>2, BeatKeepsEvents DEF Actors
  <1> QED
    BY <1>1, <1>3, <1>4 DEF Leave

\* The last heartbeat ends, and the process with it.
LEMMA DegradedKeepsEvents ==
    ASSUME EventInv, Degraded
    PROVE  EventInv'
  <1>1. main = "degrading" /\ thread = "none" /\ Exit
    BY DEF Degraded, EventInv, CallsAreOpen
  <1>2. awaited["thread"] = None /\ reply["thread"] = None
    BY <1>1 DEF EventInv, CallsAreOpen, Actors
  <1>3. PICK ok \in BOOLEAN : Returns("main", ok)
    BY DEF Degraded
  <1>4. /\ NetworkShape' /\ flying' = flying
        /\ \A a \in Actors : awaited'[a] = None /\ reply'[a] = None
    BY <1>2, <1>3, ReturnsEnds DEF EventInv, Actors
  <1> QED
    BY <1>1, <1>4, ExitKeepsEvents

\* The process dies.
LEMMA WorkerDiesKeepsEvents ==
    ASSUME EventInv, WorkerDies
    PROVE  EventInv'
  <1>1. /\ NetworkShape' /\ flying' = flying /\ Exit
        /\ \A a \in Actors : awaited'[a] = None /\ reply'[a] = None
    BY DEF WorkerDies, EventInv, NetworkShape
  <1> QED
    BY <1>1, ExitKeepsEvents

\* The heartbeat thread moves, and the network stays or an answer ends a call.
LEMMA ThreadKeepsEvents ==
    ASSUME EventInv, aggregator' = aggregator, now' = now,
           UNCHANGED <<run, main, beats, made, counted, flying>>,
           NetworkShape', thread' \in {"none", "waiting", "awake"},
           thread' # "none" => main \in {"ready", "posting", "leaving"},
           awaited'["main"] = awaited["main"], reply'["main"] = reply["main"],
           awaited'["thread"] = None, reply'["thread"] = None
    PROVE  EventInv'
  <1>1. AggregatorShape' /\ NoFalseAlarm' /\ Known' = Known /\ rows' = rows
    BY AggregatorStays
  <1>2. WorkerShape'
    BY DEF EventInv, WorkerShape
  <1>3. CallsAreOpen'
    BY DEF EventInv, CallsAreOpen, Actors
  <1>4. EventsAreCounted'
    BY DEF EventInv, EventsAreCounted
  <1>5. EventsUnderWay'
    BY <1>1 DEF EventInv, EventsUnderWay
  <1>6. KnownWasMade'
    BY <1>1 DEF EventInv, KnownWasMade
  <1> QED
    BY <1>1, <1>2, <1>3, <1>4, <1>5, <1>6 DEF EventInv

\* Where the heartbeat thread can be.
LEMMA ThreadIsAtWork ==
    ASSUME EventInv, thread # "none"
    PROVE  main \in {"ready", "posting", "leaving"}
  BY DEF EventInv, CallsAreOpen, WorkerShape

\* The wait of the thread ends: nothing is on its way that was not before.
LEMMA ThreadWakesKeepsEvents ==
    ASSUME EventInv, ThreadWakes
    PROVE  EventInv'
  <1>1. /\ thread = "waiting" /\ thread' \in {"none", "awake"}
        /\ aggregator' = aggregator /\ now' = now
        /\ UNCHANGED <<run, main, beats, made, counted, flying, awaited, reply>>
    BY DEF ThreadWakes, elsewhere, network
  <1>2. NetworkShape'
    BY <1>1 DEF EventInv, NetworkShape
  <1>3. awaited["thread"] = None /\ reply["thread"] = None
    BY <1>1 DEF EventInv, CallsAreOpen, Actors
  <1> QED
    BY <1>1, <1>2, <1>3, ThreadIsAtWork, ThreadKeepsEvents

\* The thread posts a healthy heartbeat, which is no event.
LEMMA ThreadPostsKeepsEvents ==
    ASSUME EventInv, ThreadPosts
    PROVE  EventInv'
  <1>1. /\ thread = "awake" /\ thread' = "posting" /\ main' = main
        /\ aggregator' = aggregator /\ now' = now /\ beats' = beats + 1
        /\ UNCHANGED <<run, made, counted>>
    BY DEF ThreadPosts, elsewhere
  <1>2. beats' \in Nat /\ run \in 1 .. MaxRuns
    BY <1>1, ThreadIsAtWork DEF EventInv, WorkerShape, CallsAreOpen
  <1>3. PICK b \in Beats : Post("thread", b)
    <2>1. PICK t \in WorkerClock : Post("thread", Beat(t, run, beats', "healthy"))
      BY DEF ThreadPosts
    <2>2. t \in 0 .. MaxTime + Drift
      BY <2>1, ClockReads DEF EventInv, WorkerShape
    <2>3. Beat(t, run, beats', "healthy") \in Beats
      BY <1>2, <2>2, RequestsAre
    <2> QED
      BY <2>1, <2>3
  <1>4. awaited["thread"] = None
    BY <1>1 DEF EventInv, CallsAreOpen
  <1> QED
    BY <1>1, <1>2, <1>3, <1>4, BeatKeepsEvents DEF Actors

\* The heartbeat of the thread returns, answered or given up.
LEMMA ThreadReturnsKeepsEvents ==
    ASSUME EventInv, ThreadReturns
    PROVE  EventInv'
  <1>1. /\ thread = "posting" /\ thread' \in {"none", "waiting"}
        /\ aggregator' = aggregator /\ now' = now
        /\ UNCHANGED <<run, main, beats, made, counted>>
    BY DEF ThreadReturns, elsewhere
  <1>2. PICK ok \in BOOLEAN : Returns("thread", ok)
    BY DEF ThreadReturns
  <1>3. /\ NetworkShape' /\ flying' = flying
        /\ awaited'["thread"] = None /\ reply'["thread"] = None
        /\ awaited'["main"] = awaited["main"] /\ reply'["main"] = reply["main"]
    BY <1>2, ReturnsEnds DEF EventInv, Actors
  <1> QED
    BY <1>1, <1>3, ThreadIsAtWork, ThreadKeepsEvents
-----------------------------------------------------------------------------
\* What an answer does to the network: the request is no longer under way.
LEMMA AnswerEnds ==
    ASSUME EventInv, NEW r \in flying, NEW o \in {"accepted", "refused"}, Answer(r, o)
    PROVE  /\ WorkerShape' /\ NetworkShape' /\ CallsAreOpen'
           /\ UNCHANGED <<now, run, main, thread, failed, beats, made, counted, awaited>>
           /\ flying' = flying \ {r}
           /\ \A a \in Actors : reply'[a] = IF awaited[a] = r THEN o ELSE reply[a]
  <1>1. /\ UNCHANGED <<now, run, main, thread, failed, beats, made, counted, awaited>>
        /\ flying' = flying \ {r}
        /\ reply' = [a \in Actors |-> IF awaited[a] = r THEN o ELSE reply[a]]
    BY DEF Answer, worker
  <1>2. WorkerShape' /\ NetworkShape'
    BY <1>1 DEF EventInv, WorkerShape, NetworkShape
  <1>3. r # None
    BY NoneAssumption DEF EventInv, NetworkShape, Requests
  <1>4. CallsAreOpen'
    BY <1>1, <1>3 DEF EventInv, CallsAreOpen
  <1> QED
    BY <1>1, <1>2, <1>4

\* An event that is rejected is as good as lost; it is no replay.
LEMMA RejectEventKeepsEvents ==
    ASSUME EventInv, NEW r \in flying \cap Events, NEW reason, reason # "replay",
           RejectEvent(r, reason)
    PROVE  EventInv'
  <1>1. Answer(r, "refused") /\ UNCHANGED <<used, rows>> /\ alerts' \subseteq alerts \cup {reason}
    BY DEF RejectEvent
  <1>2. /\ WorkerShape' /\ NetworkShape' /\ CallsAreOpen'
        /\ UNCHANGED <<now, run, main, thread, failed, beats, made, counted, awaited>>
        /\ flying' = flying \ {r}
        /\ \A a \in Actors : reply'[a] = IF awaited[a] = r THEN "refused" ELSE reply[a]
    BY <1>1, AnswerEnds
  <1>3. AggregatorShape' /\ NoFalseAlarm' /\ Known' = Known /\ rows' = rows
    BY <1>1 DEF EventInv, AggregatorShape, NoFalseAlarm, Known
  <1>4. EventsAreCounted'
    BY <1>2 DEF EventInv, EventsAreCounted
  <1>5. EventsUnderWay'
    BY <1>2, <1>3 DEF EventInv, EventsUnderWay
  <1>6. KnownWasMade'
    <2>1. reply'["main"] = "accepted" => reply["main"] = "accepted"
      BY <1>2 DEF Actors
    <2> QED
      BY <1>2, <1>3, <2>1 DEF EventInv, KnownWasMade
  <1> QED
    BY <1>2, <1>3, <1>4, <1>5, <1>6 DEF EventInv

\* What is appended comes last.
LEMMA AppendIs ==
    ASSUME NEW S, NEW s \in Seq(S), NEW e \in S, NEW t, t = Append(s, e)
    PROVE  /\ t \in Seq(S)
           /\ \A i \in DOMAIN s : i \in DOMAIN t /\ t[i] = s[i]
           /\ \A i \in DOMAIN t : i \in DOMAIN s \/ (i = Len(s) + 1 /\ t[i] = e)
           /\ Len(s) + 1 \in DOMAIN t /\ t[Len(s) + 1] = e
  OBVIOUS

\* An event that is accepted is new, and comes after those of its run that are
\* stored.
LEMMA InsertKeepsEvents ==
    ASSUME EventInv, NEW r \in flying \cap Events, Insert(r),
           used' = used \cup {KeyOf(r)}, alerts' = alerts
    PROVE  EventInv'
  <1> DEFINE key == KeyOf(r)
  <1>1. PICK o \in {"accepted", "refused"} :
           /\ Answer(r, o)
           /\ rows' \in {rows, Append(rows, key)}
           /\ o = "accepted" => rows' = Append(rows, key)
    BY DEF Insert
  <1>2. /\ WorkerShape' /\ NetworkShape' /\ CallsAreOpen'
        /\ UNCHANGED <<now, run, main, thread, failed, beats, made, counted, awaited>>
        /\ flying' = flying \ {r}
        /\ \A a \in Actors : reply'[a] = IF awaited[a] = r THEN o ELSE reply[a]
    BY <1>1, AnswerEnds
  <1>3. /\ key \in Numbers /\ key = <<r.run, r.n>> /\ key \notin Known
        /\ r.run \in 1 .. run /\ r.run \in 1 .. MaxRuns /\ r.n = counted[r.run] + 1
        /\ counted[r.run] \in Nat
        /\ r.run = run => main \notin {"hello", "ready"}
    BY RequestsAre DEF EventInv, EventsUnderWay, WorkerShape
  <1>4. rows \in Seq(Numbers)
    BY DEF EventInv, AggregatorShape
  <1>5. used' = used \cup {key}
    OBVIOUS
  <1> HIDE DEF key
  <1>6. key \in Numbers
    BY <1>3
  <1>7. /\ rows' \in Seq(Numbers)
        /\ \A i \in DOMAIN rows : i \in DOMAIN rows' /\ rows'[i] = rows[i]
        /\ \A i \in DOMAIN rows' : i \in DOMAIN rows \/ (i = Len(rows) + 1 /\ rows'[i] = key)
        /\ o = "accepted" => Len(rows) + 1 \in DOMAIN rows' /\ rows'[Len(rows) + 1] = key
    <2>1. CASE rows' = rows /\ o # "accepted"
      BY <1>4, <2>1
    <2>2. CASE rows' = Append(rows, key)
      <3> DEFINE t == rows'
      <3>1. t = Append(rows, key)
        BY <2>2
      <3> HIDE DEF t
      <3>2. /\ t \in Seq(Numbers)
            /\ \A i \in DOMAIN rows : i \in DOMAIN t /\ t[i] = rows[i]
            /\ \A i \in DOMAIN t : i \in DOMAIN rows \/ (i = Len(rows) + 1 /\ t[i] = key)
            /\ Len(rows) + 1 \in DOMAIN t /\ t[Len(rows) + 1] = key
        BY <1>4, <1>6, <3>1, AppendIs
      <3> QED
        BY <3>2 DEF t
    <2> QED
      BY <1>1, <2>1, <2>2
  <1>8. AggregatorShape' /\ NoFalseAlarm'
    BY <1>6, <1>7, <1>5 DEF EventInv, AggregatorShape, NoFalseAlarm
  <1>9. Known' \subseteq Known \cup {key}
    BY <1>7, <1>5 DEF Known
  <1>10. EventsAreCounted'
    BY <1>2 DEF EventInv, EventsAreCounted
  <1>11. EventsUnderWay'
    <2>1. \A q \in flying' \cap Events : q \in flying \cap Events /\ KeyOf(q) \notin Known'
      BY <1>2, <1>9 DEF EventInv, EventsUnderWay, key
    <2> QED
      BY <1>2, <2>1 DEF EventInv, EventsUnderWay
  <1>12. KnownWasMade'
    <2>1. key[1] = r.run /\ key[2] = counted[r.run] + 1
      BY <1>3
    <2>2. \A k \in Known' : /\ k[1] =< run' /\ k[2] \in 1 .. counted'[k[1]] + 1
                            /\ k[1] = run' /\ main' \in {"hello", "ready"} => k[2] =< counted'[run']
      <3>1. /\ key[1] =< run /\ key[2] \in 1 .. counted[key[1]] + 1
            /\ key[1] = run => main \notin {"hello", "ready"}
        BY <1>3, <2>1
      <3> QED
        BY <1>2, <1>9, <3>1 DEF EventInv, KnownWasMade
    <2>3. \A s \in 1 .. MaxRuns : \A n \in 1 .. counted'[s] :
             \E i \in DOMAIN rows' : rows'[i] = <<s, n>>
      BY <1>2, <1>7 DEF EventInv, KnownWasMade
    <2>4. ASSUME main' = "posting", reply'["main"] = "accepted"
          PROVE  \E i \in DOMAIN rows' : rows'[i] = <<run', made'>>
      <3>1. CASE awaited["main"] = r
        <4>1. o = "accepted" /\ key = <<run, made>>
          BY <1>2, <2>4, <3>1 DEF EventInv, CallsAreOpen, Actors, key
        <4> QED
          BY <1>2, <1>7, <4>1
      <3>2. CASE awaited["main"] # r
        <4>1. \E i \in DOMAIN rows : rows[i] = <<run, made>>
          BY <1>2, <2>4, <3>2 DEF EventInv, KnownWasMade, Actors
        <4> QED
          BY <1>2, <1>7, <4>1
      <3> QED
        BY <3>1, <3>2
    <2>5. ASSUME NEW i \in DOMAIN rows', NEW j \in DOMAIN rows', i < j, rows'[i][1] = rows'[j][1]
          PROVE  rows'[i][2] < rows'[j][2]
      <3>1. DOMAIN rows = 1 .. Len(rows) /\ Len(rows) \in Nat
        BY <1>4
      <3>2. i \in Nat /\ j \in Nat
        BY <1>7, <3>1
      <3>3. i \in DOMAIN rows
        BY <1>7, <2>5, <3>1, <3>2
      <3>4. CASE j \in DOMAIN rows
        BY <1>7, <2>5, <3>3, <3>4 DEF EventInv, KnownWasMade
      <3>5. CASE j = Len(rows) + 1 /\ rows'[j] = key
        <4>1. rows'[i] = rows[i] /\ rows[i] \in Known /\ rows[i] # key
          BY <1>3, <1>7, <3>3 DEF Known
        <4>2. /\ rows[i][1] = r.run
              /\ rows[i] = <<rows[i][1], rows[i][2]>> /\ rows[i][2] \in Nat
          <5>1. rows[i][1] = r.run
            BY <2>1, <2>5, <3>5, <4>1
          <5>2. rows[i] \in Numbers
            BY <1>4, <3>1, <3>3
          <5> QED
            BY <5>1, <5>2 DEF Numbers
        <4>3. rows[i][2] =< counted[r.run] + 1
          BY <4>1, <4>2 DEF EventInv, KnownWasMade
        <4>4. rows[i][2] # counted[r.run] + 1
          BY <1>3, <4>1, <4>2
        <4> QED
          BY <1>3, <2>1, <3>5, <4>1, <4>2, <4>3, <4>4
      <3> QED
        BY <1>7, <3>4, <3>5
    <2> QED
      BY <2>2, <2>3, <2>4, <2>5 DEF KnownWasMade
  <1> QED
    BY <1>2, <1>8, <1>10, <1>11, <1>12 DEF EventInv

\* The aggregator handles an event: its key is never one it has used.
LEMMA HandleEventKeepsEvents ==
    ASSUME EventInv, NEW r \in flying, HandleEvent(r)
    PROVE  EventInv'
  <1>1. r \in Events
    BY RequestsAre DEF HandleEvent, EventInv, NetworkShape, Requests
  <1>2. KeyOf(r) \notin used
    BY <1>1 DEF EventInv, EventsUnderWay, Known
  <1>3. CASE RejectEvent(r, "time")
    BY <1>1, <1>3, RejectEventKeepsEvents
  <1>4. CASE used' = used \cup {KeyOf(r)} /\ Insert(r) /\ alerts' = alerts
    BY <1>1, <1>4, InsertKeepsEvents
  <1> QED
    BY <1>2, <1>3, <1>4 DEF HandleEvent

\* A heartbeat that is handled concerns no event.
LEMMA HandleBeatKeepsEvents ==
    ASSUME EventInv, NEW r \in flying, HandleBeat(r)
    PROVE  EventInv'
  <1>1. r \in Beats
    BY RequestsAre DEF HandleBeat, EventInv, NetworkShape, Requests
  <1>2. PICK o \in {"accepted", "refused"} : Answer(r, o)
    BY DEF HandleBeat
  <1>3. UNCHANGED <<used, rows, alerts>>
    BY DEF HandleBeat
  <1>4. /\ WorkerShape' /\ NetworkShape' /\ CallsAreOpen'
        /\ UNCHANGED <<now, run, main, thread, failed, beats, made, counted, awaited>>
        /\ flying' = flying \ {r}
        /\ \A a \in Actors : reply'[a] = IF awaited[a] = r THEN o ELSE reply[a]
    BY <1>2, AnswerEnds
  <1>5. AggregatorShape' /\ NoFalseAlarm' /\ Known' = Known /\ rows' = rows
    BY <1>3 DEF EventInv, AggregatorShape, NoFalseAlarm, Known
  <1>6. EventsAreCounted'
    BY <1>4 DEF EventInv, EventsAreCounted
  <1>7. EventsUnderWay'
    BY <1>4, <1>5 DEF EventInv, EventsUnderWay
  <1>8. KnownWasMade'
    <2>1. main = "posting" => awaited["main"] # r
      BY <1>1, RequestsAre DEF EventInv, CallsAreOpen
    <2>2. main = "posting" => reply'["main"] = reply["main"]
      BY <1>4, <2>1 DEF Actors
    <2> QED
      BY <1>4, <1>5, <2>2 DEF EventInv, KnownWasMade
  <1> QED
    BY <1>4, <1>5, <1>6, <1>7, <1>8 DEF EventInv

\* A restart forgets identifiers, and stores nothing.
LEMMA RestartKeepsEvents ==
    ASSUME EventInv, Restart
    PROVE  EventInv'
  <1>1. /\ used' = {} /\ UNCHANGED <<rows, alerts>>
        /\ reply' = [a \in Actors |-> None]
        /\ UNCHANGED <<now, run, main, thread, beats, made, counted, awaited, flying>>
    BY DEF Restart, worker
  <1>2. WorkerShape' /\ NetworkShape' /\ CallsAreOpen'
    BY <1>1 DEF EventInv, WorkerShape, NetworkShape, CallsAreOpen
  <1>3. AggregatorShape' /\ NoFalseAlarm' /\ Known' \subseteq Known
    BY <1>1 DEF EventInv, AggregatorShape, NoFalseAlarm, Known
  <1>4. EventsAreCounted'
    BY <1>1 DEF EventInv, EventsAreCounted
  <1>5. EventsUnderWay'
    BY <1>1, <1>3 DEF EventInv, EventsUnderWay
  <1>6. KnownWasMade'
    <2>1. reply'["main"] # "accepted"
      BY <1>1, NoneAssumption DEF Actors
    <2> QED
      BY <1>1, <1>3, <2>1 DEF EventInv, KnownWasMade
  <1> QED
    BY <1>2, <1>3, <1>4, <1>5, <1>6 DEF EventInv

\* Every step keeps the invariant of the events.
LEMMA NextKeepsEvents ==
    ASSUME EventInv, [Next]_vars
    PROVE  EventInv'
  <1>1. CASE WorkerStep
    BY <1>1, StartRunKeepsEvents, HelloKeepsEvents, PostEventKeepsEvents, DeliveredKeepsEvents,
       LeaveLoopKeepsEvents, LeaveKeepsEvents, DegradedKeepsEvents, ThreadWakesKeepsEvents,
       ThreadPostsKeepsEvents, ThreadReturnsKeepsEvents, WorkerDiesKeepsEvents DEF WorkerStep
  <1>2. CASE UNCHANGED vars
    <2>1. UNCHANGED <<now, run, main, thread, failed, beats, made, counted, awaited, reply,
                      flying, used, rows, alerts>>
      BY <1>2 DEF vars, worker, network, aggregator
    <2>2. WorkerShape' /\ NetworkShape' /\ AggregatorShape' /\ CallsAreOpen'
      BY <2>1 DEF EventInv, WorkerShape, NetworkShape, AggregatorShape, CallsAreOpen
    <2>3. EventsAreCounted' /\ EventsUnderWay' /\ KnownWasMade' /\ NoFalseAlarm'
      BY <2>1 DEF EventInv, EventsAreCounted, EventsUnderWay, KnownWasMade, NoFalseAlarm, Known
    <2> QED
      BY <2>2, <2>3 DEF EventInv
  <1> QED
    BY <1>1, <1>2, TickKeepsEvents, RestartKeepsEvents, HandleEventKeepsEvents,
       HandleBeatKeepsEvents DEF Next
-----------------------------------------------------------------------------
\* A step that leaves the heartbeats and the node's row alone, in which the main
\* thread stays or goes on with its loop, or out of it.
LEMMA NoBeatKeepsBeats ==
    ASSUME BeatInv, UNCHANGED <<run, node, newest, failed, thread>>,
           flying' \cap Beats = flying \cap Beats, awaited'["thread"] = awaited["thread"],
           \/ main' = main /\ awaited' = awaited
           \/ main \in {"ready", "posting"} /\ main' \in {"ready", "posting", "leaving"}
    PROVE  BeatInv'
  <1>1. NodeIsStored'
    BY DEF BeatInv, NodeIsStored, NodeRowIsTheNewest
  <1>2. BeatsUnderWay'
    BY DEF BeatInv, BeatsUnderWay
  <1>3. DegradedIsAlone'
    BY DEF BeatInv, DegradedIsAlone
  <1> QED
    BY <1>1, <1>2, <1>3 DEF BeatInv

\* The process ends.
LEMMA ExitKeepsBeats ==
    ASSUME BeatInv, Exit, flying' = flying
    PROVE  BeatInv'
  <1>1. UNCHANGED <<run, node, newest>> /\ main' = "off"
    BY DEF Exit, elsewhere, aggregator
  <1>2. NodeIsStored'
    BY <1>1 DEF BeatInv, NodeIsStored, NodeRowIsTheNewest
  <1>3. BeatsUnderWay'
    BY <1>1 DEF BeatInv, BeatsUnderWay
  <1>4. DegradedIsAlone'
    BY <1>1 DEF BeatInv, DegradedIsAlone
  <1> QED
    BY <1>2, <1>3, <1>4 DEF BeatInv

\* A run begins, with a number no heartbeat bears yet.
LEMMA StartRunKeepsBeats ==
    ASSUME EventInv, BeatInv, StartRun
    PROVE  BeatInv'
  <1>1. /\ main' = "hello" /\ run' = run + 1 /\ run \in 0 .. MaxRuns /\ run' \in 1 .. MaxRuns
        /\ UNCHANGED <<node, newest>>
    BY DEF StartRun, elsewhere, aggregator, EventInv, WorkerShape
  <1>2. PICK b \in Beats : Post("main", b) /\ b.run = run' /\ b.status = "healthy"
    <2>1. PICK t \in WorkerClock : Post("main", Beat(t, run', 0, "healthy"))
      BY DEF StartRun
    <2>2. t \in 0 .. MaxTime + Drift
      BY <2>1, ClockReads DEF EventInv, WorkerShape
    <2>3. LET b == Beat(t, run', 0, "healthy")
          IN  b \in Beats /\ b.run = run' /\ b.status = "healthy"
      BY <1>1, <2>2, RequestsAre
    <2> QED
      BY <2>1, <2>3
  <1>3. awaited'["main"] = b /\ flying' = flying \cup {b}
    BY <1>2, PostSends DEF EventInv, Actors, Requests
  <1>4. \A c \in flying \cap Beats : c.run \in Nat /\ c.run =< run
    BY RequestsAre DEF BeatInv, BeatsUnderWay
  <1>5. NodeIsStored'
    BY <1>1 DEF BeatInv, NodeIsStored, NodeRowIsTheNewest
  <1>6. BeatsUnderWay'
    BY <1>1, <1>2, <1>3, <1>4 DEF BeatsUnderWay
  <1>7. DegradedIsAlone'
    <2>1. node # None => node.run \in 1 .. run
      BY DEF BeatInv, NodeIsStored
    <2> QED
      BY <1>1, <1>2, <1>3, <1>4, <2>1 DEF BeatInv, DegradedIsAlone
  <1> QED
    BY <1>5, <1>6, <1>7 DEF BeatInv

\* The first heartbeat of a run returns: the run goes on, or ends.
LEMMA HelloKeepsBeats ==
    ASSUME EventInv, BeatInv, Hello
    PROVE  BeatInv'
  <1>1. main = "hello"
    BY DEF Hello
  <1>2. CASE Returns("main", TRUE) /\ main' = "ready"
    <2>1. UNCHANGED <<run, failed, node, newest>>
      BY <1>1, <1>2 DEF Hello, Exit, elsewhere, aggregator
    <2>2. flying' = flying /\ reply["main"] # None
      BY <1>2, ReturnsEnds, NoneAssumption DEF EventInv, Actors
    <2>3. \A b \in flying \cap Beats : b.run =< run /\ b.run # run
      BY <1>1, <2>2 DEF EventInv, CallsAreOpen, BeatInv, BeatsUnderWay, Actors
    <2>4. NodeIsStored'
      BY <2>1 DEF BeatInv, NodeIsStored, NodeRowIsTheNewest
    <2>5. BeatsUnderWay'
      BY <2>1, <2>2, <2>3 DEF BeatsUnderWay
    <2>6. DegradedIsAlone'
      BY <1>1, <1>2, <2>1, <2>2, <2>3 DEF BeatInv, DegradedIsAlone
    <2> QED
      BY <2>4, <2>5, <2>6 DEF BeatInv
  <1>3. CASE Returns("main", FALSE) /\ Exit
    BY <1>3, ReturnsEnds, ExitKeepsBeats DEF EventInv, Actors
  <1> QED
    BY <1>2, <1>3 DEF Hello

\* An event leaves: no heartbeat is added to those under way.
LEMMA PostEventKeepsBeats ==
    ASSUME EventInv, BeatInv, PostEvent
    PROVE  BeatInv'
  <1>1. /\ main = "ready" /\ main' = "posting"
        /\ UNCHANGED <<run, node, newest, failed, thread>>
    BY DEF PostEvent, elsewhere, aggregator
  <1>2. PICK q \in Events : Post("main", q)
    <2>1. PICK t \in WorkerClock : Post("main", Event(t, run, made'))
      BY DEF PostEvent
    <2>2. t \in 0 .. MaxTime + Drift /\ run \in 1 .. MaxRuns /\ made' \in Nat
      BY <1>1, <2>1, ClockReads DEF EventInv, WorkerShape, CallsAreOpen, PostEvent
    <2>3. Event(t, run, made') \in Events
      BY <2>2, RequestsAre
    <2> QED
      BY <2>1, <2>3
  <1>3. /\ flying' \cap Beats = flying \cap Beats
        /\ awaited'["thread"] = awaited["thread"]
    BY <1>2, RequestsAre, PostSends DEF EventInv, Actors, Requests
  <1> QED
    BY <1>1, <1>3, NoBeatKeepsBeats

\* An event returns, which concerns no heartbeat.
LEMMA DeliveredKeepsBeats ==
    ASSUME EventInv, BeatInv, Delivered
    PROVE  BeatInv'
  <1>1. /\ main = "posting" /\ main' \in {"ready", "leaving"}
        /\ UNCHANGED <<run, node, newest, failed, thread>>
    BY DEF Delivered, DeliveryFails, elsewhere, aggregator
  <1>2. flying' = flying /\ awaited'["thread"] = awaited["thread"]
    <2>1. PICK ok \in BOOLEAN : Returns("main", ok)
      BY DEF Delivered, DeliveryFails
    <2> QED
      BY <2>1, ReturnsEnds DEF EventInv, Actors
  <1> QED
    BY <1>1, <1>2, NoBeatKeepsBeats

\* A run that raised posts its degraded heartbeat when no other of it is under
\* way: the thread is joined, and every call of it was answered.
LEMMA LeaveKeepsBeats ==
    ASSUME EventInv, BeatInv, Leave
    PROVE  BeatInv'
  <1>1. main = "leaving" /\ thread = "none"
    BY DEF Leave, Joined
  <1>2. CASE Exit /\ UNCHANGED network
    BY <1>2, ExitKeepsBeats DEF network
  <1>3. CASE /\ broke /\ ~failed /\ main' = "degrading"
             /\ \E t \in WorkerClock : Post("main", Beat(t, run, MaxBeats + 1, "degraded"))
             /\ UNCHANGED <<elsewhere, run, thread, failed, broke, beats, made, counted>>
    <2>1. UNCHANGED <<run, node, newest>> /\ run \in 1 .. MaxRuns
      BY <1>1, <1>3 DEF elsewhere, aggregator, EventInv, WorkerShape, CallsAreOpen
    <2>2. PICK b \in Beats : Post("main", b) /\ b.run = run
      <3>1. PICK t \in WorkerClock : Post("main", Beat(t, run, MaxBeats + 1, "degraded"))
        BY <1>3
      <3>2. t \in 0 .. MaxTime + Drift /\ MaxBeats + 1 \in Nat
        BY <3>1, ClockReads DEF EventInv, WorkerShape
      <3>3. LET b == Beat(t, run, MaxBeats + 1, "degraded")
            IN  b \in Beats /\ b.run = run
        BY <2>1, <3>2, RequestsAre
      <3> QED
        BY <3>1, <3>3
    <2>3. flying' = flying \cup {b}
      BY <2>2, PostSends DEF EventInv, Actors, Requests
    <2>4. \A c \in flying \cap Beats : c.run =< run /\ c.run # run
      BY <1>1, <1>3 DEF BeatInv, BeatsUnderWay
    <2>5. NodeIsStored'
      BY <2>1 DEF BeatInv, NodeIsStored, NodeRowIsTheNewest
    <2>6. BeatsUnderWay'
      BY <1>3, <2>1, <2>2, <2>3, <2>4 DEF BeatsUnderWay
    <2>7. DegradedIsAlone'
      <3>1. node # None /\ node.status = "degraded" => node.run # run
        BY <1>1 DEF BeatInv, DegradedIsAlone
      <3> QED
        BY <1>3, <2>1, <2>2, <2>3, <2>4, <3>1 DEF BeatInv, DegradedIsAlone
    <2> QED
      BY <2>5, <2>6, <2>7 DEF BeatInv
  <1> QED
    BY <1>1, <1>2, <1>3 DEF Leave

\* The heartbeat thread wakes, or its wait fails: no heartbeat of it is under way.
LEMMA ThreadWakesKeepsBeats ==
    ASSUME EventInv, BeatInv, ThreadWakes
    PROVE  BeatInv'
  <1>1. /\ thread = "waiting" /\ (failed' = failed \/ failed')
        /\ UNCHANGED <<run, main, node, newest, flying, awaited>>
    BY DEF ThreadWakes, elsewhere, network, aggregator
  <1>2. main \in {"ready", "posting", "leaving"}
    BY <1>1, ThreadIsAtWork
  <1>3. NodeIsStored' /\ DegradedIsAlone'
    BY <1>1 DEF BeatInv, NodeIsStored, NodeRowIsTheNewest, DegradedIsAlone
  <1>4. BeatsUnderWay'
    BY <1>1, <1>2 DEF BeatInv, BeatsUnderWay
  <1> QED
    BY <1>3, <1>4 DEF BeatInv

\* The thread posts a healthy heartbeat, which only a run that has not said degraded does.
LEMMA ThreadPostsKeepsBeats ==
    ASSUME EventInv, BeatInv, ThreadPosts
    PROVE  BeatInv'
  <1>1. /\ thread = "awake" /\ thread' = "posting" /\ beats' = beats + 1
        /\ UNCHANGED <<run, main, failed, node, newest>>
    BY DEF ThreadPosts, elsewhere, aggregator
  <1>2. /\ main \in {"ready", "posting", "leaving"}
        /\ run \in 1 .. MaxRuns /\ beats' \in Nat
    BY <1>1, ThreadIsAtWork DEF EventInv, WorkerShape, CallsAreOpen
  <1>3. PICK b \in Beats : Post("thread", b) /\ b.run = run /\ b.status = "healthy"
    <2>1. PICK t \in WorkerClock : Post("thread", Beat(t, run, beats', "healthy"))
      BY DEF ThreadPosts
    <2>2. t \in 0 .. MaxTime + Drift
      BY <2>1, ClockReads DEF EventInv, WorkerShape
    <2>3. LET b == Beat(t, run, beats', "healthy")
          IN  b \in Beats /\ b.run = run /\ b.status = "healthy"
      BY <1>2, <2>2, RequestsAre
    <2> QED
      BY <2>1, <2>3
  <1>4. awaited'["thread"] = b /\ flying' = flying \cup {b}
    BY <1>3, PostSends DEF EventInv, Actors, Requests
  <1>5. NodeIsStored'
    BY <1>1 DEF BeatInv, NodeIsStored, NodeRowIsTheNewest
  <1>6. BeatsUnderWay'
    BY <1>1, <1>2, <1>3, <1>4 DEF BeatInv, BeatsUnderWay
  <1>7. DegradedIsAlone'
    <2>1. \A c \in flying \cap Beats : c.status = "degraded" => c.run # run
      BY <1>2 DEF BeatInv, DegradedIsAlone
    <2>2. node # None /\ node.status = "degraded" => node.run # run
      BY <1>2 DEF BeatInv, DegradedIsAlone
    <2> QED
      BY <1>1, <1>3, <1>4, <2>1, <2>2 DEF BeatInv, DegradedIsAlone
  <1> QED
    BY <1>5, <1>6, <1>7 DEF BeatInv

\* An answer ends the call of the thread: if it was accepted nothing is under
\* way, and if not the heartbeat has failed.
LEMMA ThreadReturnsKeepsBeats ==
    ASSUME EventInv, BeatInv, ThreadReturns
    PROVE  BeatInv'
  <1>1. /\ thread = "posting"
        /\ UNCHANGED <<run, main, node, newest>>
    BY DEF ThreadReturns, elsewhere, aggregator
  <1>2. main \in {"ready", "posting", "leaving"}
    BY <1>1, ThreadIsAtWork
  <1>3. PICK ok \in BOOLEAN : Returns("thread", ok) /\ (ok => failed' = failed) /\ (~ok => failed')
    BY DEF ThreadReturns
  <1>4. flying' = flying /\ (ok => reply["thread"] # None)
    BY <1>3, ReturnsEnds, NoneAssumption DEF EventInv, Actors
  <1>5. NodeIsStored' /\ DegradedIsAlone'
    BY <1>1, <1>4 DEF BeatInv, NodeIsStored, NodeRowIsTheNewest, DegradedIsAlone
  <1>6. BeatsUnderWay'
    <2>1. \A b \in flying \cap Beats : b.run =< run
      BY DEF BeatInv, BeatsUnderWay
    <2>2. ok /\ ~failed => \A b \in flying \cap Beats : b.run # run
      BY <1>2, <1>4 DEF EventInv, CallsAreOpen, BeatInv, BeatsUnderWay, Actors
    <2> QED
      BY <1>1, <1>2, <1>3, <1>4, <2>1, <2>2 DEF BeatsUnderWay
  <1> QED
    BY <1>5, <1>6 DEF BeatInv

\* A heartbeat is handled: the row becomes its, or stays and is not older.
LEMMA HandleBeatKeepsBeats ==
    ASSUME EventInv, BeatInv, NEW r \in flying, HandleBeat(r)
    PROVE  BeatInv'
  <1>1. r \in Beats /\ r.at \in 0 .. MaxTime + Drift /\ r.run \in 1 .. MaxRuns
    BY RequestsAre DEF HandleBeat, EventInv, NetworkShape, Requests
  <1>2. PICK o \in {"accepted", "refused"} : Answer(r, o)
    BY DEF HandleBeat
  <1>3. /\ UNCHANGED <<run, main, thread, failed, awaited>>
        /\ flying' = flying \ {r}
    BY <1>2, AnswerEnds
  <1>4. BeatsUnderWay'
    BY <1>3 DEF BeatInv, BeatsUnderWay
  <1>5. r.run =< run
    BY <1>1 DEF BeatInv, BeatsUnderWay
  <1>6. 0 .. MaxTime + Drift \subseteq Nat
    BY EdgeAssumption
  <1>7. CASE ~Updates(r) /\ newest' = Later(r.at) /\ node' = node
    <2>1. /\ node # None /\ node.at \in 0 .. MaxTime + Drift /\ newest = node.at
          /\ ~TextBefore(Stored(node.at), Stored(r.at))
      BY <1>7 DEF Updates, BeatInv, NodeIsStored, NodeRowIsTheNewest
    <2>2. ~(node.at < r.at)
      BY <1>1, <1>6, <2>1, StoredOrder
    <2>3. newest' = newest
      BY <1>1, <1>7, <2>1, <2>2 DEF Later
    <2>4. NodeIsStored'
      BY <1>3, <1>7, <2>3 DEF BeatInv, NodeIsStored, NodeRowIsTheNewest
    <2>5. DegradedIsAlone'
      BY <1>3, <1>7 DEF BeatInv, DegradedIsAlone
    <2> QED
      BY <1>4, <2>4, <2>5 DEF BeatInv
  <1>8. CASE /\ Updates(r) /\ newest' = Later(r.at)
             /\ node' = [text |-> Stored(r.at), at |-> r.at, status |-> r.status, run |-> r.run]
    <2>1. node' # None
      <3>1. r.status \in {"healthy", "degraded"}
        BY <1>1, RequestsAre
      <3>2. Stored(r.at) \in [1 .. 4 -> Nat]
        <4>1. \A x \in Nat : x \div 2 \in Nat /\ x % 2 \in 0 .. 1
          OBVIOUS
        <4>2. r.at \div 2 \in Nat /\ r.at % 2 \in 0 .. 1
          BY <1>1, <1>6, <4>1
        <4>3. r.at \div 2 \in Nat /\ 48 + 5 * (r.at % 2) \in Nat
          BY <4>2
        <4> QED
          BY <4>3 DEF Stored
      <3>3. node' \in NodeRows
        BY <1>1, <1>8, <3>1, <3>2 DEF NodeRows
      <3> QED
        BY <3>3, NoneAssumption
    <2>2. newest' = r.at
      <3>1. CASE node = None
        BY <1>1, <1>8, <3>1 DEF Later, BeatInv, NodeIsStored, NodeRowIsTheNewest
      <3>2. CASE node # None
        <4>1. /\ node.at \in 0 .. MaxTime + Drift /\ newest = node.at
              /\ TextBefore(Stored(node.at), Stored(r.at))
          BY <1>8, <3>2 DEF Updates, BeatInv, NodeIsStored, NodeRowIsTheNewest
        <4>2. node.at < r.at
          BY <1>1, <1>6, <4>1, StoredOrder
        <4> QED
          BY <1>1, <1>8, <4>1, <4>2 DEF Later
      <3> QED
        BY <3>1, <3>2
    <2>3. NodeIsStored'
      BY <1>1, <1>3, <1>5, <1>8, <2>1, <2>2 DEF NodeIsStored, NodeRowIsTheNewest
    <2>4. DegradedIsAlone'
      BY <1>1, <1>3, <1>8, <2>1 DEF BeatInv, DegradedIsAlone
    <2> QED
      BY <1>4, <2>3, <2>4 DEF BeatInv
  <1>9. CASE UNCHANGED <<node, newest>>
    <2>1. NodeIsStored' /\ DegradedIsAlone'
      BY <1>3, <1>9 DEF BeatInv, NodeIsStored, NodeRowIsTheNewest, DegradedIsAlone
    <2> QED
      BY <1>4, <2>1 DEF BeatInv
  <1> QED
    BY <1>7, <1>8, <1>9 DEF HandleBeat

\* An event that is handled concerns no heartbeat.
LEMMA HandleEventKeepsBeats ==
    ASSUME EventInv, BeatInv, NEW r \in flying, HandleEvent(r)
    PROVE  BeatInv'
  <1>1. r \in Events
    BY RequestsAre DEF HandleEvent, EventInv, NetworkShape, Requests
  <1>2. PICK o \in {"accepted", "refused"} : Answer(r, o)
    BY DEF HandleEvent, RejectEvent, Insert
  <1>3. UNCHANGED <<node, newest>>
    BY DEF HandleEvent, RejectEvent
  <1>4. UNCHANGED <<run, main, thread, failed, awaited>> /\ flying' = flying \ {r}
    BY <1>2, AnswerEnds
  <1>5. flying' \cap Beats = flying \cap Beats
    BY <1>1, <1>4, RequestsAre
  <1> QED
    BY <1>3, <1>4, <1>5, NoBeatKeepsBeats

\* Every step keeps the invariant of the heartbeats.
LEMMA NextKeepsBeats ==
    ASSUME EventInv, BeatInv, [Next]_vars
    PROVE  BeatInv'
  <1>1. CASE WorkerStep
    <2>1. CASE LeaveLoop
      BY <2>1, NoBeatKeepsBeats DEF LeaveLoop, elsewhere, aggregator, network
    <2>2. CASE Degraded
      <3>1. PICK ok \in BOOLEAN : Returns("main", ok)
        BY <2>2 DEF Degraded
      <3>2. Exit /\ flying' = flying
        BY <2>2, <3>1, ReturnsEnds DEF Degraded, EventInv, Actors
      <3> QED
        BY <3>2, ExitKeepsBeats
    <2>3. CASE WorkerDies
      BY <2>3, ExitKeepsBeats DEF WorkerDies
    <2> QED
      BY <1>1, <2>1, <2>2, <2>3, StartRunKeepsBeats, HelloKeepsBeats, PostEventKeepsBeats,
         DeliveredKeepsBeats, LeaveKeepsBeats, ThreadWakesKeepsBeats, ThreadPostsKeepsBeats,
         ThreadReturnsKeepsBeats DEF WorkerStep
  <1>2. CASE Tick
    BY <1>2, NoBeatKeepsBeats DEF Tick, worker, network, aggregator
  <1>3. CASE Restart
    BY <1>3, NoBeatKeepsBeats DEF Restart, worker
  <1>4. CASE UNCHANGED vars
    BY <1>4, NoBeatKeepsBeats DEF vars, worker, network, aggregator
  <1> QED
    BY <1>1, <1>2, <1>3, <1>4, HandleEventKeepsBeats, HandleBeatKeepsBeats DEF Next
-----------------------------------------------------------------------------
\* Both invariants hold of every behaviour.
THEOREM EdgeInvariance == Spec => [](EventInv /\ BeatInv)
  <1>1. EventInv /\ BeatInv /\ [Next]_vars => (EventInv /\ BeatInv)'
    BY NextKeepsEvents, NextKeepsBeats
  <1> QED
    BY InitHolds, <1>1, PTL DEF Spec

\* What the aggregator stores of a run is what the worker made and counted, in
\* its order and without a gap, and at most one event more.
THEOREM StoreIsAPrefix == Spec => []RowsAreAPrefix
  <1>1. ASSUME EventInv
        PROVE  RowsAreAPrefix
    <2>1. ASSUME NEW r \in 1 .. MaxRuns
          PROVE  \E last \in counted[r] .. counted[r] + 1 :
                    {rows[i][2] : i \in {j \in DOMAIN rows : rows[j][1] = r}} = 1 .. last
      <3> DEFINE stored == {rows[i][2] : i \in {j \in DOMAIN rows : rows[j][1] = r}}
      <3>1. counted[r] \in Nat
        BY <1>1 DEF EventInv, WorkerShape
      <3>2. stored \subseteq 1 .. counted[r] + 1
        BY <1>1 DEF EventInv, KnownWasMade, Known
      <3>3. 1 .. counted[r] \subseteq stored
        <4>1. ASSUME NEW n \in 1 .. counted[r]
              PROVE  n \in stored
          <5>1. PICK i \in DOMAIN rows : rows[i] = <<r, n>>
            BY <1>1 DEF EventInv, KnownWasMade
          <5>2. rows[i][1] = r /\ rows[i][2] = n
            BY <5>1
          <5> QED
            BY <5>2
        <4> QED
          BY <4>1
      <3> HIDE DEF stored
      <3>4. CASE counted[r] + 1 \in stored
        <4>1. stored = 1 .. counted[r] + 1
          <5>1. \A n \in 1 .. counted[r] + 1 : n \in 1 .. counted[r] \/ n = counted[r] + 1
            BY <3>1
          <5> QED
            BY <3>2, <3>3, <3>4, <5>1
        <4>2. counted[r] + 1 \in counted[r] .. counted[r] + 1
          BY <3>1
        <4> QED
          BY <4>1, <4>2 DEF stored
      <3>5. CASE counted[r] + 1 \notin stored
        <4>1. stored = 1 .. counted[r]
          <5>1. \A n \in 1 .. counted[r] + 1 : n \in 1 .. counted[r] \/ n = counted[r] + 1
            BY <3>1
          <5> QED
            BY <3>2, <3>3, <3>5, <5>1
        <4>2. counted[r] \in counted[r] .. counted[r] + 1
          BY <3>1
        <4> QED
          BY <4>1, <4>2 DEF stored
      <3> QED
        BY <3>4, <3>5
    <2> QED
      BY <1>1, <2>1 DEF RowsAreAPrefix, EventInv, KnownWasMade
  <1> QED
    BY EdgeInvariance, <1>1, PTL

\* A row that is appended is the event due of its run, which is not stored.
LEMMA InsertIsStore ==
    ASSUME EventInv, NEW r \in flying \cap Events, Insert(r), UNCHANGED worker
    PROVE  (\E s \in 1 .. MaxRuns : Log!Store(s)) \/ UNCHANGED <<rows, counted>>
  <1>1. KeyOf(r) = <<r.run, r.n>> /\ r.run \in 1 .. MaxRuns /\ r.n = counted[r.run] + 1
    BY RequestsAre DEF EventInv, EventsUnderWay
  <1>2. KeyOf(r) = Log!Due(r.run) /\ ~Log!Stored(Log!Due(r.run))
    BY <1>1 DEF EventInv, EventsUnderWay, Known, Log!Due, Log!Stored
  <1>3. UNCHANGED counted /\ rows' \in {rows, Append(rows, KeyOf(r))}
    BY DEF worker, Insert
  <1> QED
    BY <1>1, <1>2, <1>3 DEF Log!Store

\* The event that is counted is the one due of the present run, and is stored.
LEMMA DeliveredIsCount ==
    ASSUME EventInv, Delivered
    PROVE  (\E s \in 1 .. MaxRuns : Log!Count(s)) \/ UNCHANGED <<rows, counted>>
  <1>1. main = "posting" /\ UNCHANGED rows /\ run \in 1 .. MaxRuns
    BY DEF Delivered, elsewhere, aggregator, EventInv, CallsAreOpen, WorkerShape
  <1>2. CASE Returns("main", TRUE) /\ counted' = [counted EXCEPT ![run] = @ + 1]
    <2>1. reply["main"] = "accepted"
      BY <1>2 DEF Returns
    <2>2. Log!Stored(Log!Due(run))
      BY <1>1, <2>1 DEF EventInv, EventsAreCounted, KnownWasMade, Log!Due, Log!Stored
    <2> QED
      BY <1>1, <1>2, <2>2 DEF Log!Count
  <1>3. CASE UNCHANGED counted
    BY <1>1, <1>3
  <1> QED
    BY <1>2, <1>3 DEF Delivered

\* Every step stores or counts the event due of a run, or does neither.
LEMMA StepIsLogged ==
    ASSUME EventInv, [Next]_vars
    PROVE  (\E s \in 1 .. MaxRuns : Log!Store(s) \/ Log!Count(s)) \/ UNCHANGED <<rows, counted>>
  <1>1. ASSUME NEW r \in flying, HandleEvent(r)
        PROVE  (\E s \in 1 .. MaxRuns : Log!Store(s)) \/ UNCHANGED <<rows, counted>>
    <2>1. r \in flying \cap Events
      BY <1>1, RequestsAre DEF HandleEvent, EventInv, NetworkShape, Requests
    <2>2. CASE RejectEvent(r, "time") \/ RejectEvent(r, "replay")
      BY <2>2 DEF RejectEvent, Answer, worker
    <2>3. CASE Insert(r)
      BY <2>1, <2>3, InsertIsStore DEF Insert, Answer
    <2> QED
      BY <1>1, <2>2, <2>3 DEF HandleEvent
  <1>2. CASE Delivered
    BY <1>2, DeliveredIsCount
  <1>3. CASE WorkerStep /\ ~Delivered
    BY <1>3 DEF WorkerStep, StartRun, Hello, PostEvent, LeaveLoop, Leave, Degraded, ThreadWakes,
       ThreadPosts, ThreadReturns, WorkerDies, Exit, elsewhere, aggregator
  <1>4. ASSUME NEW r \in flying, HandleBeat(r)
        PROVE  UNCHANGED <<rows, counted>>
    BY <1>4 DEF HandleBeat, Answer, worker
  <1>5. CASE Tick \/ Restart \/ UNCHANGED vars
    BY <1>5 DEF Tick, Restart, vars, worker, aggregator
  <1> QED
    BY <1>1, <1>2, <1>3, <1>4, <1>5 DEF Next

\* Worker, network and aggregator implement the log that has no network and no
\* restart: what is lost, late or forgotten shows neither in the rows nor in the
\* counts.
THEOREM ImplementsTheLog == Spec => ImplementsLog
  <1>1. Init => Log!Init
    BY DEF Init, Log!Init
  <1>2. EventInv /\ [Next]_vars => [Log!Next]_<<rows, counted>>
    BY StepIsLogged DEF Log!Next
  <1> QED
    BY EdgeInvariance, <1>1, <1>2, PTL DEF Spec, ImplementsLog, Log!Spec

\* An honest worker never sets off a replay alert.
THEOREM HonestWorkersRaiseNoAlarm == Spec => []NoFalseAlarm
  <1>1. EventInv => NoFalseAlarm
    BY DEF EventInv
  <1> QED
    BY EdgeInvariance, <1>1, PTL

\* The row of the node is the newest heartbeat that got so far.
THEOREM NodeRowIsNewest == Spec => []NodeRowIsTheNewest
  <1>1. BeatInv => NodeRowIsTheNewest
    BY DEF BeatInv, NodeIsStored
  <1> QED
    BY EdgeInvariance, <1>1, PTL

\* What replaces a degraded row is a heartbeat of another run.
THEOREM DegradedIsLast == Spec => DegradedIsTheLastWord
  <1>1. ASSUME EventInv, BeatInv, [Next]_vars
        PROVE  [(node # None /\ node.status = "degraded") => node'.run # node.run]_node
    <2>1. SUFFICES ASSUME node' # node, node # None, node.status = "degraded"
                   PROVE  node'.run # node.run
      OBVIOUS
    <2>2. PICK r \in flying : HandleBeat(r)
      BY <1>1, <2>1 DEF Next, Tick, Restart, WorkerStep, StartRun, Hello, PostEvent, Delivered,
         LeaveLoop, Leave, Degraded, ThreadWakes, ThreadPosts, ThreadReturns, WorkerDies, Exit,
         HandleEvent, RejectEvent, elsewhere, aggregator, vars
    <2>3. r \in Beats
      BY <1>1, <2>2, RequestsAre DEF HandleBeat, EventInv, NetworkShape, Requests
    <2>4. node' = [text |-> Stored(r.at), at |-> r.at, status |-> r.status, run |-> r.run]
      BY <2>1, <2>2 DEF HandleBeat
    <2> QED
      BY <1>1, <2>1, <2>3, <2>4 DEF BeatInv, DegradedIsAlone
  <1> QED
    BY EdgeInvariance, <1>1, PTL DEF Spec, DegradedIsTheLastWord
=============================================================================

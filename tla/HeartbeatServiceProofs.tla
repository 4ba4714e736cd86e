------------------------ MODULE HeartbeatServiceProofs ------------------------
(***************************************************************************)
(* What HeartbeatService guarantees for every set of nodes, requests and   *)
(* heartbeats, in whatever order they come, race, fail or are cut short.   *)
(***************************************************************************)
EXTENDS HeartbeatService, TLAPS

USE HeartbeatAssumption, NoneAssumption

\* The request that is about to commit still carries news of its node: nobody
\* else has written since its UPDATE matched the row.
WriterHasNews == \A r \in Requests : phase[r] = "commit" => Newer(heard[r])

\* A request that has not arrived carries nothing and has no result.
SilentUntilArrival ==
    \A r \in Requests : phase[r] = "new" => heard[r] = None /\ result[r] = "none"

\* A verdict on the order of a heartbeat is about one of a registered node.
VerdictsAreOnHeartbeats ==
    \A r \in Requests : result[r] \in {"accepted", "out_of_order_heartbeat"} =>
       heard[r] \in Heartbeats /\ heard[r].node \in Nodes

\* A row that is not empty is one that some request carried.
RowsComeFromRequests ==
    \A n \in Nodes :
       \/ lastSeen[n] = None /\ health[n] = None
       \/ \E r \in Requests :
             /\ heard[r] \in Heartbeats
             /\ heard[r].node = n
             /\ heard[r].timestamp = lastSeen[n]
             /\ heard[r].status = health[n]

\* A request has no result before it is about to close its session.
UndecidedUntilClosed ==
    \A r \in Requests : phase[r] \in {"update", "commit"} => result[r] = "none"

HInv == /\ TypeOK
        /\ WriterHasNews
        /\ SilentUntilArrival
        /\ UndecidedUntilClosed
        /\ VerdictsAreOnHeartbeats
        /\ RowsComeFromRequests
        /\ AnswersAreTrue
-----------------------------------------------------------------------------
\* Who commits holds the lock alone.
LEMMA OneCommits ==
    ASSUME TypeOK, NEW r \in Requests, NEW q \in Requests,
           phase[r] = "commit", phase[q] = "commit"
    PROVE  q = r
  BY DEF TypeOK

\* Every step keeps the shape of the state.
LEMMA NextKeepsType ==
    ASSUME TypeOK, [Next]_vars
    PROVE  TypeOK'
  <1> USE DEF TypeOK
  <1>1. ASSUME NEW r \in Requests, NEW h \in Heartbeats, NEW now \in Instants,
               Arrive(r, h, now)
        PROVE  TypeOK'
    <2>1. Judgement(h, now) = "fresh" => h.node \in Nodes
      BY DEF Judgement
    <2>2. Judgement(h, now) \in {"unknown_node", "stale_timestamp", "future_timestamp", "fresh"}
      BY DEF Judgement
    <2>3. heard' = [heard EXCEPT ![r] = h] /\ UNCHANGED rowVars /\ phase[r] = "new"
      BY <1>1 DEF Arrive
    <2>4. CASE Judgement(h, now) = "fresh"
      <3>1. phase' = [phase EXCEPT ![r] = "update"] /\ UNCHANGED result
        BY <1>1, <2>4 DEF Arrive, Goto
      <3> QED
        BY <2>1, <2>3, <2>4, <3>1 DEF rowVars
    <2>5. CASE Judgement(h, now) # "fresh"
      <3>1. /\ phase' = [phase EXCEPT ![r] = "close"]
            /\ result' = [result EXCEPT ![r] = Judgement(h, now)]
        BY <1>1, <2>5 DEF Arrive, Goto, Raise
      <3> QED
        BY <2>2, <2>3, <2>5, <3>1 DEF rowVars
    <2> QED
      BY <2>4, <2>5
  <1>2. ASSUME NEW r \in Requests, ArriveFails(r)
        PROVE  TypeOK'
    BY <1>2 DEF ArriveFails, Goto, Raise, rowVars
  <1>3. ASSUME NEW r \in Requests, Update(r)
        PROVE  TypeOK'
    <2>1. phase[r] = "update" /\ writer = None /\ UNCHANGED <<lastSeen, health, heard>>
      BY <1>3 DEF Update
    <2>2. \A q \in Requests : phase[q] # "commit"
      BY <2>1
    <2>3. CASE Newer(heard[r])
      <3>1. writer' = r /\ phase' = [phase EXCEPT ![r] = "commit"] /\ UNCHANGED result
        BY <1>3, <2>3 DEF Update, Goto
      <3> QED
        BY <2>1, <2>2, <3>1
    <2>4. CASE ~Newer(heard[r])
      <3>1. /\ UNCHANGED writer
            /\ phase' = [phase EXCEPT ![r] = "close"]
            /\ result' = [result EXCEPT ![r] = "out_of_order_heartbeat"]
        BY <1>3, <2>4 DEF Update, Goto, Raise
      <3> QED
        BY <2>1, <2>2, <3>1
    <2> QED
      BY <2>3, <2>4
  <1>4. ASSUME NEW r \in Requests, Store(heard[r]), heard[r] \in Heartbeats,
               heard[r].node \in Nodes
        PROVE  /\ lastSeen' \in [Nodes -> {h.timestamp : h \in Heartbeats} \cup {None}]
               /\ health' \in [Nodes -> {h.status : h \in Heartbeats} \cup {None}]
    BY <1>4 DEF Store
  <1>5. ASSUME NEW r \in Requests, Commit(r)
        PROVE  TypeOK'
    <2>1. /\ phase[r] = "commit" /\ writer' = None /\ UNCHANGED heard
          /\ phase' = [phase EXCEPT ![r] = "close"]
          /\ result' = [result EXCEPT ![r] = "accepted"]
          /\ Store(heard[r])
      BY <1>5 DEF Commit, Goto, Raise
    <2>2. \A q \in Requests \ {r} : phase[q] # "commit"
      BY <2>1, OneCommits
    <2>3. heard[r] \in Heartbeats /\ heard[r].node \in Nodes
      BY <2>1
    <2> QED
      BY <1>4, <2>1, <2>2, <2>3
  <1>6. ASSUME NEW r \in Requests, WriteFails(r)
        PROVE  TypeOK'
    <2>1. /\ phase[r] \in {"update", "commit"} /\ UNCHANGED heard
          /\ phase' = [phase EXCEPT ![r] = "close"]
          /\ result' = [result EXCEPT ![r] = "service_unavailable"]
      BY <1>6 DEF WriteFails, Goto, Raise
    <2>2. CASE UNCHANGED rowVars
      BY <2>1, <2>2 DEF rowVars
    <2>3. CASE phase[r] = "commit" /\ Store(heard[r]) /\ writer' = None
      <3>1. \A q \in Requests \ {r} : phase[q] # "commit"
        BY <2>3, OneCommits
      <3>2. heard[r] \in Heartbeats /\ heard[r].node \in Nodes
        BY <2>3
      <3> QED
        BY <1>4, <2>1, <2>3, <3>1, <3>2
    <2> QED
      BY <1>6, <2>2, <2>3 DEF WriteFails
  <1>7. ASSUME NEW r \in Requests, Close(r)
        PROVE  TypeOK'
    <2>1. /\ phase[r] = "close" /\ UNCHANGED <<lastSeen, health, heard>>
          /\ phase' = [phase EXCEPT ![r] = "done"]
          /\ writer' = IF writer = r THEN None ELSE writer
      BY <1>7 DEF Close, Goto
    <2>2. result' = result \/ result' = [result EXCEPT ![r] = "service_unavailable"]
      BY <1>7 DEF Close, Raise
    <2>3. result' \in [Requests -> {"none", "unknown_node", "stale_timestamp",
             "future_timestamp", "out_of_order_heartbeat", "accepted", "service_unavailable"}]
      BY <2>2
    <2> QED
      BY <2>1, <2>3
  <1>8. CASE Restart
    <2>1. \A q \in Requests : phase'[q] \in {"new", "done", "lost"}
      BY <1>8 DEF Restart
    <2> QED
      BY <1>8, <2>1 DEF Restart
  <1>9. CASE UNCHANGED vars
    BY <1>9 DEF vars, rowVars
  <1> QED
    BY <1>1, <1>2, <1>3, <1>5, <1>6, <1>7, <1>8, <1>9 DEF Next

\* The state keeps its shape.
THEOREM TypeCorrect == Spec => []TypeOK
  <1>1. Init => TypeOK
    BY DEF Init, TypeOK
  <1> QED
    BY <1>1, NextKeepsType, PTL DEF Spec
-----------------------------------------------------------------------------
\* A request writes its heartbeat to the row: it commits, or its commit raises
\* after it has taken effect.
Writes(r) == /\ phase[r] = "commit"
             /\ Store(heard[r])
             /\ UNCHANGED heard
             /\ phase' = [phase EXCEPT ![r] = "close"]

\* Nothing else changes a row.
LEMMA RowsAreWritten ==
    ASSUME TypeOK, [Next]_vars
    PROVE  UNCHANGED <<lastSeen, health>> \/ \E r \in Requests : Writes(r)
  <1>1. ASSUME NEW r \in Requests, Commit(r)
        PROVE  Writes(r)
    BY <1>1 DEF Commit, Writes, Goto
  <1>2. ASSUME NEW r \in Requests, WriteFails(r)
        PROVE  Writes(r) \/ UNCHANGED <<lastSeen, health>>
    BY <1>2 DEF WriteFails, Writes, Goto, rowVars
  <1>3. ASSUME NEW r \in Requests, NEW h \in Heartbeats, NEW now \in Instants, Arrive(r, h, now)
        PROVE  UNCHANGED <<lastSeen, health>>
    BY <1>3 DEF Arrive, rowVars
  <1>4. ASSUME NEW r \in Requests, ArriveFails(r) \/ Update(r) \/ Close(r)
        PROVE  UNCHANGED <<lastSeen, health>>
    BY <1>4 DEF ArriveFails, Update, Close, rowVars
  <1>5. CASE Restart \/ UNCHANGED vars
    BY <1>5 DEF Restart, vars, rowVars
  <1> QED
    BY <1>1, <1>2, <1>3, <1>4, <1>5 DEF Next

\* What a write makes of the rows, given that it carries news.
LEMMA WriteAdvances ==
    ASSUME TypeOK, NEW r \in Requests, Writes(r), Newer(heard[r])
    PROVE  /\ heard[r] \in Heartbeats /\ heard[r].node \in Nodes
           /\ heard[r].timestamp \in Int
           /\ lastSeen'[heard[r].node] = heard[r].timestamp
           /\ health'[heard[r].node] = heard[r].status
           /\ \A n \in Nodes \ {heard[r].node} :
                 lastSeen'[n] = lastSeen[n] /\ health'[n] = health[n]
           /\ \A n \in Nodes : lastSeen[n] # None =>
                 /\ lastSeen[n] \in Int /\ lastSeen'[n] \in Int
                 /\ lastSeen'[n] >= lastSeen[n]
                 /\ n = heard[r].node => lastSeen'[n] > lastSeen[n]
  <1>1. heard[r] \in Heartbeats /\ heard[r].node \in Nodes
    BY DEF Writes, TypeOK
  <1>2. heard[r].timestamp \in Int
    BY <1>1
  <1>3. /\ lastSeen'[heard[r].node] = heard[r].timestamp
        /\ health'[heard[r].node] = heard[r].status
        /\ \A n \in Nodes \ {heard[r].node} :
              lastSeen'[n] = lastSeen[n] /\ health'[n] = health[n]
    BY <1>1 DEF Writes, Store, TypeOK
  <1>4. \A n \in Nodes : lastSeen[n] # None => lastSeen[n] \in Int
    BY DEF TypeOK
  <1>5. lastSeen[heard[r].node] # None => lastSeen[heard[r].node] < heard[r].timestamp
    BY DEF Newer
  <1> QED
    BY <1>1, <1>2, <1>3, <1>4, <1>5

\* The state of a node never goes back, in a state in which writers have news.
LEMMA RowsAdvance ==
    ASSUME TypeOK, WriterHasNews, [Next]_vars, NEW n \in Nodes, lastSeen[n] # None
    PROVE  /\ lastSeen[n] \in Int /\ lastSeen'[n] \in Int
           /\ \/ lastSeen'[n] > lastSeen[n]
              \/ lastSeen'[n] = lastSeen[n] /\ health'[n] = health[n]
  <1>1. lastSeen[n] \in Int
    BY DEF TypeOK
  <1>2. CASE UNCHANGED <<lastSeen, health>>
    BY <1>1, <1>2
  <1>3. ASSUME NEW r \in Requests, Writes(r)
        PROVE  /\ lastSeen'[n] \in Int
               /\ \/ lastSeen'[n] > lastSeen[n]
                  \/ lastSeen'[n] = lastSeen[n] /\ health'[n] = health[n]
    <2>1. Newer(heard[r])
      BY <1>3 DEF WriterHasNews, Writes
    <2> QED
      BY <1>3, <2>1, WriteAdvances
  <1> QED
    BY <1>1, <1>2, <1>3, RowsAreWritten

\* What a request carries stays what it is.
LEMMA HeardStays ==
    ASSUME TypeOK, SilentUntilArrival, [Next]_vars, NEW r \in Requests, heard[r] # None
    PROVE  heard'[r] = heard[r]
  <1>1. ASSUME NEW q \in Requests, NEW h \in Heartbeats, NEW now \in Instants, Arrive(q, h, now)
        PROVE  heard'[r] = heard[r]
    BY <1>1 DEF Arrive, SilentUntilArrival, TypeOK
  <1>2. ASSUME NEW q \in Requests,
               ArriveFails(q) \/ Update(q) \/ Commit(q) \/ WriteFails(q) \/ Close(q)
        PROVE  heard'[r] = heard[r]
    BY <1>2 DEF ArriveFails, Update, Commit, WriteFails, Close
  <1> QED
    BY <1>1, <1>2 DEF Next, Restart, vars

\* A request is about to commit after a step only if it was before, while the
\* rows have not changed, or if its UPDATE has just matched.
LEMMA NewsIsKept ==
    ASSUME HInv, [Next]_vars
    PROVE  WriterHasNews'
  <1> USE DEF HInv
  <1> SUFFICES ASSUME NEW q \in Requests, phase'[q] = "commit"
               PROVE  Newer(heard[q])'
    BY DEF WriterHasNews
  <1>1. ASSUME phase[q] = "commit", lastSeen' = lastSeen, heard'[q] = heard[q]
        PROVE  Newer(heard[q])'
    BY <1>1 DEF WriterHasNews, Newer
  <1>2. phase[q] = "commit" => heard'[q] = heard[q]
    BY HeardStays DEF TypeOK
  <1>3. ASSUME NEW r \in Requests, Writes(r)
        PROVE  FALSE
    <2>1. q # r /\ phase[q] = "commit" /\ phase[r] = "commit"
      BY <1>3 DEF Writes, TypeOK
    <2> QED
      BY <2>1, OneCommits
  <1>4. lastSeen' = lastSeen
    BY <1>3, RowsAreWritten
  <1>5. ASSUME NEW r \in Requests, Update(r)
        PROVE  phase[q] = "commit" \/ Newer(heard[q])'
    BY <1>5 DEF Update, Goto, Raise, TypeOK, Newer
  <1>6. ASSUME NEW r \in Requests, NEW h \in Heartbeats, NEW now \in Instants, Arrive(r, h, now)
        PROVE  phase[q] = "commit"
    BY <1>6 DEF Arrive, Goto, Raise, TypeOK
  <1>7. ASSUME NEW r \in Requests,
               ArriveFails(r) \/ Commit(r) \/ WriteFails(r) \/ Close(r)
        PROVE  phase[q] = "commit"
    BY <1>7 DEF ArriveFails, Commit, WriteFails, Close, Goto, Raise, TypeOK
  <1>8. CASE Restart \/ UNCHANGED vars
    BY <1>8, <1>1, <1>2, <1>4 DEF Restart, vars
  <1> QED
    BY <1>1, <1>2, <1>4, <1>5, <1>6, <1>7, <1>8 DEF Next

\* No step takes a request back to before its arrival.
LEMMA SilenceIsKept ==
    ASSUME HInv, [Next]_vars
    PROVE  SilentUntilArrival'
  <1> SUFFICES ASSUME NEW q \in Requests, phase'[q] = "new"
               PROVE  phase[q] = "new" /\ heard'[q] = heard[q] /\ result'[q] = result[q]
    BY DEF HInv, SilentUntilArrival
  <1> USE DEF HInv, TypeOK, Goto, Raise
  <1>1. ASSUME NEW r \in Requests, NEW h \in Heartbeats, NEW now \in Instants, Arrive(r, h, now)
        PROVE  phase[q] = "new" /\ heard'[q] = heard[q] /\ result'[q] = result[q]
    BY <1>1 DEF Arrive
  <1>2. ASSUME NEW r \in Requests, ArriveFails(r) \/ Commit(r) \/ WriteFails(r)
        PROVE  phase[q] = "new" /\ heard'[q] = heard[q] /\ result'[q] = result[q]
    BY <1>2 DEF ArriveFails, Commit, WriteFails
  <1>3. ASSUME NEW r \in Requests, Update(r)
        PROVE  phase[q] = "new" /\ heard'[q] = heard[q] /\ result'[q] = result[q]
    BY <1>3 DEF Update
  <1>4. ASSUME NEW r \in Requests, Close(r)
        PROVE  phase[q] = "new" /\ heard'[q] = heard[q] /\ result'[q] = result[q]
    BY <1>4 DEF Close
  <1>5. CASE Restart \/ UNCHANGED vars
    BY <1>5 DEF Restart, vars
  <1> QED
    BY <1>1, <1>2, <1>3, <1>4, <1>5 DEF Next

\* A result is raised only on the way to the close.
LEMMA IndecisionIsKept ==
    ASSUME HInv, [Next]_vars
    PROVE  UndecidedUntilClosed'
  <1> SUFFICES ASSUME NEW q \in Requests, phase'[q] \in {"update", "commit"}
               PROVE  result'[q] = "none"
    BY DEF UndecidedUntilClosed
  <1> USE DEF HInv, TypeOK, Goto, Raise, UndecidedUntilClosed, SilentUntilArrival
  <1>1. ASSUME NEW r \in Requests, NEW h \in Heartbeats, NEW now \in Instants, Arrive(r, h, now)
        PROVE  result'[q] = "none"
    BY <1>1 DEF Arrive
  <1>2. ASSUME NEW r \in Requests, ArriveFails(r) \/ Commit(r) \/ WriteFails(r)
        PROVE  result'[q] = "none"
    BY <1>2 DEF ArriveFails, Commit, WriteFails
  <1>3. ASSUME NEW r \in Requests, Update(r)
        PROVE  result'[q] = "none"
    BY <1>3 DEF Update
  <1>4. ASSUME NEW r \in Requests, Close(r)
        PROVE  result'[q] = "none"
    BY <1>4 DEF Close
  <1>5. CASE Restart \/ UNCHANGED vars
    BY <1>5 DEF Restart, vars
  <1> QED
    BY <1>1, <1>2, <1>3, <1>4, <1>5 DEF Next

Verdicts == {"accepted", "out_of_order_heartbeat"}

\* A verdict is new in a step only if the UPDATE of its request has just missed
\* the row, or if its request has just committed.
LEMMA NewVerdict ==
    ASSUME HInv, [Next]_vars, NEW q \in Requests, result'[q] \in Verdicts
    PROVE  \/ result'[q] = result[q]
           \/ phase[q] = "update" /\ ~Newer(heard[q]) /\ UNCHANGED <<lastSeen, heard>>
           \/ Writes(q)
  <1> USE DEF HInv, TypeOK, Raise, Verdicts
  <1>1. ASSUME NEW r \in Requests, NEW h \in Heartbeats, NEW now \in Instants, Arrive(r, h, now)
        PROVE  result'[q] = result[q]
    <2>1. Judgement(h, now) \notin Verdicts
      BY DEF Judgement
    <2> QED
      BY <1>1, <2>1 DEF Arrive
  <1>2. ASSUME NEW r \in Requests, ArriveFails(r) \/ WriteFails(r)
        PROVE  result'[q] = result[q]
    BY <1>2 DEF ArriveFails, WriteFails
  <1>3. ASSUME NEW r \in Requests, Close(r)
        PROVE  result'[q] = result[q]
    BY <1>3 DEF Close
  <1>4. ASSUME NEW r \in Requests, Update(r)
        PROVE  \/ result'[q] = result[q]
               \/ phase[q] = "update" /\ ~Newer(heard[q]) /\ UNCHANGED <<lastSeen, heard>>
    BY <1>4 DEF Update
  <1>5. ASSUME NEW r \in Requests, Commit(r)
        PROVE  result'[q] = result[q] \/ Writes(q)
    BY <1>5 DEF Commit, Writes, Goto
  <1>6. CASE Restart \/ UNCHANGED vars
    BY <1>6 DEF Restart, vars
  <1> QED
    BY <1>1, <1>2, <1>3, <1>4, <1>5, <1>6 DEF Next

\* Verdicts stay true: rows only advance, and a new verdict is true of the row
\* that its request has just read or written.
LEMMA VerdictsAreKept ==
    ASSUME HInv, [Next]_vars
    PROVE  VerdictsAreOnHeartbeats' /\ AnswersAreTrue'
  <1> SUFFICES ASSUME NEW q \in Requests, result'[q] \in Verdicts
               PROVE  /\ heard'[q] \in Heartbeats /\ heard'[q].node \in Nodes
                      /\ lastSeen'[heard'[q].node] # None
                      /\ lastSeen'[heard'[q].node] >= heard'[q].timestamp
    BY DEF VerdictsAreOnHeartbeats, AnswersAreTrue, Verdicts
  <1> USE DEF HInv
  <1>1. CASE result'[q] = result[q]
    <2>1. /\ heard[q] \in Heartbeats /\ heard[q].node \in Nodes
          /\ lastSeen[heard[q].node] # None
          /\ lastSeen[heard[q].node] >= heard[q].timestamp
      BY <1>1 DEF VerdictsAreOnHeartbeats, AnswersAreTrue, Verdicts
    <2>2. heard'[q] = heard[q]
      BY <2>1, HeardStays
    <2>3. /\ lastSeen[heard[q].node] \in Int /\ lastSeen'[heard[q].node] \in Int
          /\ lastSeen'[heard[q].node] >= lastSeen[heard[q].node]
      BY <2>1, RowsAdvance
    <2> QED
      BY <2>1, <2>2, <2>3
  <1>2. CASE phase[q] = "update" /\ ~Newer(heard[q]) /\ UNCHANGED <<lastSeen, heard>>
    <2>1. heard[q] \in Heartbeats /\ heard[q].node \in Nodes
      BY <1>2 DEF TypeOK
    <2>2. lastSeen[heard[q].node] # None /\ lastSeen[heard[q].node] \in Int
      BY <1>2, <2>1 DEF Newer, TypeOK
    <2> QED
      BY <1>2, <2>1, <2>2 DEF Newer
  <1>3. CASE Writes(q)
    <2>1. Newer(heard[q])
      BY <1>3 DEF WriterHasNews, Writes
    <2>2. /\ heard[q] \in Heartbeats /\ heard[q].node \in Nodes
          /\ heard[q].timestamp \in Int
          /\ lastSeen'[heard[q].node] = heard[q].timestamp
      BY <1>3, <2>1, WriteAdvances
    <2>3. heard'[q] = heard[q]
      BY <1>3 DEF Writes
    <2> QED
      BY <2>2, <2>3
  <1> QED
    BY <1>1, <1>2, <1>3, NewVerdict

\* A row that is written comes from the writer; the others keep their origin.
LEMMA OriginIsKept ==
    ASSUME HInv, [Next]_vars
    PROVE  RowsComeFromRequests'
  <1> USE DEF HInv
  <1> DEFINE From(n) == \E r \in Requests :
                           /\ heard[r] \in Heartbeats
                           /\ heard[r].node = n
                           /\ heard[r].timestamp = lastSeen[n]
                           /\ heard[r].status = health[n]
  <1>1. ASSUME NEW n \in Nodes, lastSeen'[n] = lastSeen[n], health'[n] = health[n]
        PROVE  (lastSeen'[n] = None /\ health'[n] = None) \/ From(n)'
    <2>1. CASE lastSeen[n] = None /\ health[n] = None
      BY <1>1, <2>1
    <2>2. CASE From(n)
      <3>1. PICK r \in Requests : /\ heard[r] \in Heartbeats
                                  /\ heard[r].node = n
                                  /\ heard[r].timestamp = lastSeen[n]
                                  /\ heard[r].status = health[n]
        BY <2>2
      <3>2. heard'[r] = heard[r]
        BY <3>1, HeardStays
      <3> QED
        BY <1>1, <3>1, <3>2
    <2> QED
      BY <2>1, <2>2 DEF RowsComeFromRequests
  <1>2. CASE UNCHANGED <<lastSeen, health>>
    BY <1>1, <1>2 DEF RowsComeFromRequests
  <1>3. ASSUME NEW r \in Requests, Writes(r)
        PROVE  RowsComeFromRequests'
    <2>1. Newer(heard[r]) /\ heard'[r] = heard[r]
      BY <1>3 DEF WriterHasNews, Writes
    <2>2. /\ heard[r] \in Heartbeats
          /\ lastSeen'[heard[r].node] = heard[r].timestamp
          /\ health'[heard[r].node] = heard[r].status
          /\ \A n \in Nodes \ {heard[r].node} :
                lastSeen'[n] = lastSeen[n] /\ health'[n] = health[n]
      BY <1>3, <2>1, WriteAdvances
    <2>3. ASSUME NEW n \in Nodes
          PROVE  (lastSeen'[n] = None /\ health'[n] = None) \/ From(n)'
      <3>1. CASE n = heard[r].node
        BY <2>1, <2>2, <3>1
      <3>2. CASE n # heard[r].node
        BY <2>2, <3>2, <1>1
      <3> QED
        BY <3>1, <3>2
    <2> QED
      BY <2>3 DEF RowsComeFromRequests
  <1> QED
    BY <1>2, <1>3, RowsAreWritten

\* The invariant holds in every behaviour.
THEOREM Invariance == Spec => []HInv
  <1>1. Init => HInv
    BY DEF Init, HInv, TypeOK, WriterHasNews, SilentUntilArrival, UndecidedUntilClosed,
           VerdictsAreOnHeartbeats, RowsComeFromRequests, AnswersAreTrue
  <1>2. HInv /\ [Next]_vars => HInv'
    BY NextKeepsType, NewsIsKept, SilenceIsKept, IndecisionIsKept, VerdictsAreKept, OriginIsKept DEF HInv
  <1> QED
    BY <1>1, <1>2, PTL DEF Spec

\* Both columns of a row come from one heartbeat, or both are empty.
THEOREM RowsAreWhole == Spec => []RowIsOneHeartbeat
  <1>1. HInv => RowIsOneHeartbeat
    BY DEF HInv, RowsComeFromRequests, RowIsOneHeartbeat
  <1> QED
    BY <1>1, Invariance, PTL

\* 202 and 409 out_of_order_heartbeat are true of the row from then on.
THEOREM AnswersStayTrue == Spec => []AnswersAreTrue
  <1>1. HInv => AnswersAreTrue
    BY DEF HInv
  <1> QED
    BY <1>1, Invariance, PTL

\* The state of a node never goes back, nor changes within one instant, however
\* heartbeats race, fail and are cut short by a restart.
THEOREM StateAdvances == Spec => NodeStateAdvances
  <1>1. HInv /\ [Next]_vars =>
           [\A n \in Nodes : lastSeen[n] # None =>
              \/ lastSeen'[n] # None /\ lastSeen'[n] > lastSeen[n]
              \/ lastSeen'[n] = lastSeen[n] /\ health'[n] = health[n]]_<<lastSeen, health>>
    BY RowsAdvance DEF HInv
  <1> QED
    BY <1>1, Invariance, PTL DEF Spec, NodeStateAdvances
-----------------------------------------------------------------------------
\* The register a row stands for is empty when the row is, and otherwise is a
\* heartbeat with the timestamp of the row.
LEMMA RowShows ==
    ASSUME HInv, NEW n \in Nodes
    PROVE  IF lastSeen[n] = None THEN Row(n) = None
           ELSE Row(n) # None /\ Row(n).timestamp = lastSeen[n]
  <1>1. CASE lastSeen[n] = None /\ health[n] = None
    BY <1>1 DEF Row
  <1>2. ASSUME NEW r \in Requests, heard[r] \in Heartbeats, heard[r].node = n,
               heard[r].timestamp = lastSeen[n], heard[r].status = health[n]
        PROVE  lastSeen[n] # None /\ Row(n) # None /\ Row(n).timestamp = lastSeen[n]
    <2>1. lastSeen[n] \in Int
      BY <1>2
    <2>2. Row(n) = heard[r]
      BY <1>2, <2>1 DEF Row
    <2> QED
      BY <1>2, <2>1, <2>2
  <1> QED
    BY <1>1, <1>2 DEF HInv, RowsComeFromRequests

\* The WHERE clause asks of the row what the register asks of its heartbeat.
LEMMA SameNews ==
    ASSUME HInv, NEW h \in Heartbeats, h.node \in Nodes
    PROVE  Newer(h) <=> Register!Newer(h)
  BY RowShows DEF Newer, Register!Newer

\* A step that leaves the rows leaves the registers.
LEMMA SameRows ==
    ASSUME UNCHANGED <<lastSeen, health>>
    PROVE  UNCHANGED [n \in Nodes |-> Row(n)]
  BY DEF Row

\* A write of the row is an advance of the register, whatever its client hears.
LEMMA WriteIsAdvance ==
    ASSUME HInv, NEW r \in Requests, Writes(r),
           NEW a \in {"accepted", "service_unavailable"},
           result' = [result EXCEPT ![r] = a]
    PROVE  Register!Advance(r)
  <1> USE DEF HInv
  <1>1. /\ heard[r] \in Heartbeats /\ heard[r].node \in Nodes /\ Newer(heard[r])
        /\ phase[r] = "commit" /\ UNCHANGED heard /\ Store(heard[r])
    BY DEF Writes, TypeOK, WriterHasNews
  <1>2. result[r] = "none"
    BY <1>1 DEF UndecidedUntilClosed
  <1>3. [n \in Nodes |-> Row(n)]' = [[n \in Nodes |-> Row(n)] EXCEPT ![heard[r].node] = heard[r]]
    <2>1. ASSUME NEW n \in Nodes
          PROVE  Row(n)' = IF n = heard[r].node THEN heard[r] ELSE Row(n)
      <3>1. CASE n = heard[r].node
        <4>1. lastSeen'[n] = heard[r].timestamp /\ health'[n] = heard[r].status
          BY <1>1, <3>1 DEF Store, TypeOK
        <4>2. lastSeen'[n] # None
          BY <1>1, <4>1
        <4>3. heard[r] = [node |-> n, timestamp |-> lastSeen'[n], status |-> health'[n]]
          BY <1>1, <3>1, <4>1
        <4> QED
          BY <3>1, <4>2, <4>3 DEF Row
      <3>2. CASE n # heard[r].node
        BY <1>1, <3>2 DEF Store, TypeOK, Row
      <3> QED
        BY <3>1, <3>2
    <2> QED
      BY <2>1
  <1>4. Register!Newer(heard[r])
    BY <1>1, SameNews
  <1> QED
    BY <1>1, <1>2, <1>3, <1>4 DEF Register!Advance, Register!Tell

\* Every step of record is a step of the register or none.
LEMMA StepImplements ==
    ASSUME HInv, [Next]_vars
    PROVE  [Register!Next]_(Register!vars)
  <1> USE DEF HInv
  <1>1. ASSUME NEW r \in Requests, NEW h \in Heartbeats, NEW now \in Instants, Arrive(r, h, now)
        PROVE  Register!Hear(r, h)
    <2>1. /\ heard[r] = None /\ result[r] = "none"
          /\ heard' = [heard EXCEPT ![r] = h] /\ UNCHANGED <<lastSeen, health>>
      BY <1>1 DEF Arrive, SilentUntilArrival, rowVars
    <2>2. IF Judgement(h, now) = "fresh" THEN UNCHANGED result
          ELSE result' = [result EXCEPT ![r] = Judgement(h, now)]
      BY <1>1 DEF Arrive, Raise
    <2>3. IF h.node \notin Nodes THEN Judgement(h, now) = "unknown_node"
          ELSE Judgement(h, now) \in {"stale_timestamp", "future_timestamp", "fresh"}
      BY DEF Judgement
    <2> QED
      BY <2>1, <2>2, <2>3, SameRows DEF Register!Hear, Register!Tell
  <1>2. ASSUME NEW r \in Requests, ArriveFails(r)
        PROVE  Register!Unavailable(r)
    BY <1>2, SameRows DEF ArriveFails, Raise, rowVars, Register!Unavailable, Register!Tell
  <1>3. ASSUME NEW r \in Requests, Update(r)
        PROVE  Register!Refuse(r) \/ UNCHANGED Register!vars
    <2>1. /\ heard[r] \in Heartbeats /\ heard[r].node \in Nodes /\ result[r] = "none"
          /\ UNCHANGED <<lastSeen, health, heard>>
      BY <1>3 DEF Update, TypeOK, UndecidedUntilClosed
    <2>2. CASE Newer(heard[r])
      BY <1>3, <2>1, <2>2, SameRows DEF Update, Register!vars
    <2>3. CASE ~Newer(heard[r])
      BY <1>3, <2>1, <2>3, SameRows, SameNews
         DEF Update, Raise, Register!Refuse, Register!Tell
    <2> QED
      BY <2>2, <2>3
  <1>4. ASSUME NEW r \in Requests, Commit(r)
        PROVE  Register!Advance(r)
    BY <1>4, WriteIsAdvance DEF Commit, Writes, Goto, Raise
  <1>5. ASSUME NEW r \in Requests, WriteFails(r)
        PROVE  Register!Advance(r) \/ Register!Unavailable(r)
    <2>1. /\ result' = [result EXCEPT ![r] = "service_unavailable"] /\ UNCHANGED heard
          /\ phase' = [phase EXCEPT ![r] = "close"]
      BY <1>5 DEF WriteFails, Goto, Raise
    <2>2. CASE phase[r] = "commit" /\ Store(heard[r])
      BY <2>1, <2>2, WriteIsAdvance DEF Writes
    <2>3. CASE UNCHANGED <<lastSeen, health>>
      BY <2>1, <2>3, SameRows DEF Register!Unavailable, Register!Tell
    <2> QED
      BY <1>5, <2>2, <2>3 DEF WriteFails, rowVars
  <1>6. ASSUME NEW r \in Requests, Close(r)
        PROVE  Register!Unavailable(r) \/ UNCHANGED Register!vars
    BY <1>6, SameRows DEF Close, Raise, Register!Unavailable, Register!Tell, Register!vars
  <1>7. CASE Restart \/ UNCHANGED vars
    <2>1. UNCHANGED <<lastSeen, health, heard, result>>
      BY <1>7 DEF Restart, vars, rowVars
    <2> QED
      BY <2>1, SameRows DEF Register!vars
  <1> QED
    BY <1>1, <1>2, <1>3, <1>4, <1>5, <1>6, <1>7 DEF Next, Register!Next

\* HeartbeatService implements NodeRegister: a node's state is one register that
\* heartbeats only advance, each at most once, whatever races, fails or restarts.
THEOREM Refinement == Spec => ImplementsRegister
  <1>1. Init => Register!Init
    BY DEF Init, Register!Init, Row
  <1>2. HInv /\ [Next]_vars => [Register!Next]_(Register!vars)
    BY StepImplements
  <1> QED
    BY <1>1, <1>2, Invariance, PTL DEF Spec, ImplementsRegister, Register!Spec
=============================================================================

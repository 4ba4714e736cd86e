------------------------------- MODULE EdgeSystem -------------------------------
(***************************************************************************)
(* A node and the aggregator together: successive runs of a worker, the    *)
(* HTTP requests between the two, the two POST handlers, SQLite, and       *)
(* restarts of either side.                                                *)
(*                                                                         *)
(* Worker, Ingestion and HeartbeatService model each side step by step;    *)
(* here a call is one step, and what matters is how the steps of the two   *)
(* sides interleave.  The POST handlers run on the event loop and never    *)
(* yield once the body is read, so a request is handled in one step.  A    *)
(* request that is never handled was lost; one may also be handled after   *)
(* its sender gave it up, and an answer may be lost.                       *)
(*                                                                         *)
(* The database is a file (database_url, persistence.py 345-351): what is  *)
(* committed stays, whatever other sessions do and over every restart.     *)
(* What a :memory: database does instead, Ingestion models (OnMemory).     *)
(***************************************************************************)
EXTENDS Integers, Sequences, SequencesExt

CONSTANTS
    MaxRuns,    \* bound: runs of the worker
    MaxEvents,  \* max_events of each
    MaxBeats,   \* bound: periodic heartbeats of each
    MaxCrashes, \* bound: restarts of the aggregator
    MaxTime,    \* bound: half-seconds
    Drift,      \* how far the clocks of worker and aggregator may be apart
    Skew,       \* max_clock_skew_seconds
    None

ASSUME EdgeAssumption ==
    {MaxRuns, MaxEvents, MaxBeats, MaxCrashes, MaxTime, Drift, Skew} \subseteq Nat

\* What a request may be.
Events == [at : 0 .. MaxTime + Drift, kind : {"event"}, run : 1 .. MaxRuns, n : Nat]
Beats  == [at : 0 .. MaxTime + Drift, kind : {"beat"}, run : 1 .. MaxRuns, n : Nat,
           status : {"healthy", "degraded"}]

\* What the row of the node may be.
NodeRows == [text : [1 .. 4 -> Nat], at : 0 .. MaxTime + Drift,
             status : {"healthy", "degraded"}, run : 1 .. MaxRuns]

ASSUME NoneAssumption ==
    None \notin Events \cup Beats \cup NodeRows \cup {"accepted", "refused"}

Actors == {"main", "thread"}  \* of the worker

VARIABLES
    now,      \* the clock of the aggregator
    run,      \* runs of the worker begun
    main,     \* where its main thread is: "off" between runs
    thread,   \* where its heartbeat thread is
    failed,   \* _failure of the heartbeat lifecycle
    broke,    \* an exception is on its way out of the pipeline
    beats,    \* periodic heartbeats of this run
    made,     \* events made in this run: next_frame_seq
    counted,  \* per run: events answered with 202
    awaited,  \* per actor: the request it waits for, or None
    reply,    \* per actor: the answer under way to it, or None
    flying,   \* requests that are sent and not handled
    used,     \* the events whose identifiers the replay policy holds
    rows,     \* detection_events, in the order of record_id, in a database file
    alerts,   \* security_alerts: the reasons recorded
    node,     \* the row of the node: [text, status], and of whom: [at, run]; or None
    crashes,  \* restarts of the aggregator
    newest    \* history: the latest timestamp the UPDATE stored or found too old

worker     == <<run, main, thread, failed, broke, beats, made, counted>>
network    == <<awaited, reply, flying>>
aggregator == <<used, rows, alerts, node, crashes, newest>>
vars       == <<now, worker, network, aggregator>>

Init == /\ now = 0
        /\ run = 0 /\ main = "off" /\ thread = "none"
        /\ failed = FALSE /\ broke = FALSE /\ beats = 0 /\ made = 0
        /\ counted = [r \in 1 .. MaxRuns |-> 0]
        /\ awaited = [a \in Actors |-> None] /\ reply = [a \in Actors |-> None]
        /\ flying = {}
        /\ used = {} /\ rows = <<>> /\ alerts = {} /\ node = None
        /\ crashes = 0 /\ newest = -1

Tick == now < MaxTime /\ now' = now + 1 /\ UNCHANGED <<worker, network, aggregator>>
-----------------------------------------------------------------------------
(***************************************************************************)
(* The worker.                                                             *)
(***************************************************************************)
elsewhere == <<now, aggregator>>

\* What the worker's clock may read.
WorkerClock == {t \in (now - Drift) .. (now + Drift) : t >= 0}

\* A request leaves, once.
Post(a, r) == /\ awaited' = [awaited EXCEPT ![a] = r]
              /\ flying' = flying \cup {r}
              /\ UNCHANGED reply

Event(t, r, n)        == [at |-> t, kind |-> "event", run |-> r, n |-> n]
Beat(t, r, n, status) == [at |-> t, kind |-> "beat", run |-> r, n |-> n, status |-> status]

\* A call returns: with 202, or with an exception, whatever was answered.
Returns(a, ok) ==
    /\ awaited[a] # None
    /\ ok => reply[a] = "accepted"
    /\ awaited' = [awaited EXCEPT ![a] = None]
    /\ reply' = [reply EXCEPT ![a] = None]
    /\ UNCHANGED flying

\* The process ends, and what it held is gone.
Exit == /\ main' = "off" /\ thread' = "none"
        /\ failed' = FALSE /\ broke' = FALSE /\ beats' = 0 /\ made' = 0
        /\ UNCHANGED <<elsewhere, run, counted>>

\* A run begins with a healthy heartbeat of the main thread.
StartRun ==
    /\ main = "off" /\ run < MaxRuns
    /\ run' = run + 1
    /\ main' = "hello"
    /\ \E t \in WorkerClock : Post("main", Beat(t, run', 0, "healthy"))
    /\ UNCHANGED <<elsewhere, thread, failed, broke, beats, made, counted>>

\* If it is accepted the heartbeat thread starts; if not the run is over, and
\* says nothing more.
Hello ==
    /\ main = "hello"
    /\ \/ /\ Returns("main", TRUE)
          /\ main' = "ready" /\ thread' = "waiting"
          /\ UNCHANGED <<elsewhere, run, failed, broke, beats, made, counted>>
       \/ Returns("main", FALSE) /\ Exit

\* The next event is made and posted.
PostEvent ==
    /\ main = "ready" /\ ~failed /\ made < MaxEvents
    /\ main' = "posting"
    /\ made' = made + 1
    /\ \E t \in WorkerClock : Post("main", Event(t, run, made'))
    /\ UNCHANGED <<elsewhere, run, thread, failed, broke, beats, counted>>

\* Mutant: a delivery that failed is tried again.
DeliveryFailsRetries ==
    /\ awaited["main"] # None
    /\ flying' = flying \cup {awaited["main"]}
    /\ UNCHANGED <<awaited, reply, main, broke>>

\* The exception of the sink ends the loop: there is one attempt.
DeliveryFails ==
    /\ Returns("main", FALSE)
    /\ main' = "leaving" /\ broke' = TRUE

Delivered ==
    /\ main = "posting"
    /\ \/ /\ Returns("main", TRUE)
          /\ main' = "ready" /\ counted' = [counted EXCEPT ![run] = @ + 1]
          /\ UNCHANGED broke
       \/ DeliveryFails /\ UNCHANGED counted
    /\ UNCHANGED <<elsewhere, run, thread, failed, beats, made>>

\* The loop ends: enough events, no more frames, an error, a failed heartbeat.
LeaveLoop ==
    /\ main = "ready"
    /\ main' = "leaving"
    /\ broke' \in (IF failed THEN {TRUE} ELSE BOOLEAN)
    /\ UNCHANGED <<elsewhere, network, run, thread, failed, beats, made, counted>>

\* Mutant: the heartbeat thread is not waited for.
JoinedAlways == TRUE

Joined == thread = "none"

\* The thread is joined, and a run that raised says so in a last heartbeat,
\* unless the heartbeat is what failed.
Leave ==
    /\ main = "leaving" /\ Joined
    /\ IF broke /\ ~failed
       THEN /\ main' = "degrading"
            /\ \E t \in WorkerClock : Post("main", Beat(t, run, MaxBeats + 1, "degraded"))
            /\ UNCHANGED <<elsewhere, run, thread, failed, broke, beats, made, counted>>
       ELSE Exit /\ UNCHANGED network

\* What becomes of that one changes nothing.
Degraded ==
    /\ main = "degrading"
    /\ \E ok \in BOOLEAN : Returns("main", ok)
    /\ Exit

\* The heartbeat thread: its wait ends, because it is told to stop or because
\* the interval is over, or fails; then it posts, even if told to stop by then.
ThreadWakes ==
    /\ thread = "waiting"
    /\ \/ main = "leaving" /\ thread' = "none" /\ UNCHANGED failed
       \/ main # "leaving" /\ beats < MaxBeats /\ thread' = "awake" /\ UNCHANGED failed
       \/ thread' = "none" /\ failed' = TRUE
    /\ UNCHANGED <<elsewhere, network, run, main, broke, beats, made, counted>>

ThreadPosts ==
    /\ thread = "awake"
    /\ thread' = "posting" /\ beats' = beats + 1
    /\ \E t \in WorkerClock : Post("thread", Beat(t, run, beats', "healthy"))
    /\ UNCHANGED <<elsewhere, run, main, failed, broke, made, counted>>

ThreadReturns ==
    /\ thread = "posting"
    /\ \/ Returns("thread", TRUE) /\ thread' = "waiting" /\ UNCHANGED failed
       \/ Returns("thread", FALSE) /\ thread' = "none" /\ failed' = TRUE
    /\ UNCHANGED <<elsewhere, run, main, broke, beats, made, counted>>

\* The worker's process dies; what it has sent stays under way.
WorkerDies ==
    /\ main # "off"
    /\ Exit
    /\ awaited' = [a \in Actors |-> None] /\ reply' = [a \in Actors |-> None]
    /\ UNCHANGED flying

WorkerStep == \/ StartRun \/ Hello \/ PostEvent \/ Delivered \/ LeaveLoop \/ Leave
              \/ Degraded \/ ThreadWakes \/ ThreadPosts \/ ThreadReturns \/ WorkerDies
-----------------------------------------------------------------------------
(***************************************************************************)
(* The aggregator.                                                         *)
(***************************************************************************)
\* Request r is handled, and its sender told if it still waits: with 202, or
\* with any other status, which is the same to it.
Answer(r, o) ==
    /\ flying' = flying \ {r}
    /\ reply' = [a \in Actors |-> IF awaited[a] = r THEN o ELSE reply[a]]
    /\ UNCHANGED <<now, worker, awaited, crashes>>

Timely(r) == r.at \in (now - Skew) .. (now + Skew)

KeyOf(r) == <<r.run, r.n>>

\* The alert of a rejection is committed first, or its commit fails.
RejectEvent(r, reason) ==
    /\ alerts' \in {alerts, alerts \cup {reason}}
    /\ Answer(r, "refused")
    /\ UNCHANGED <<used, rows, node, newest>>

\* Mutant: the answer does not wait for the commit.
InsertAnswersEarly(r) ==
    /\ rows' \in {rows, Append(rows, KeyOf(r))}
    /\ Answer(r, "accepted")

\* The row is committed, to a file, and the answer is 202; or the write fails and the answer
\* is 503, though a COMMIT that raised may have taken effect.
Insert(r) ==
    \/ rows' = Append(rows, KeyOf(r)) /\ Answer(r, "accepted")
    \/ rows' \in {rows, Append(rows, KeyOf(r))} /\ Answer(r, "refused")

HandleEvent(r) ==
    /\ r.kind = "event"
    /\ \/ ~Timely(r) /\ RejectEvent(r, "time")
       \/ Timely(r) /\ KeyOf(r) \in used /\ RejectEvent(r, "replay")
       \/ /\ Timely(r) /\ KeyOf(r) \notin used
          /\ used' = used \cup {KeyOf(r)}
          /\ Insert(r)
          /\ UNCHANGED <<alerts, node, newest>>

\* Mutant: isoformat() without timespec leaves out a fraction that is zero.
StoredShort(t) == IF t % 2 = 0 THEN <<t \div 2, 90>>
                  ELSE <<t \div 2, 46, 53, 90>>

\* An instant as _UtcTimestampType stores it: all down to the second, which has
\* one width and sorts as the number it is taken for here; then ".", the
\* fraction and "Z", as characters.
Stored(t) == <<t \div 2, 46, 48 + 5 * (t % 2), 90>>

\* SQLite compares text character by character; a prefix comes first.
TextBefore(x, y) ==
    \/ IsStrictPrefix(x, y)
    \/ \E i \in DOMAIN x \cap DOMAIN y :
          x[i] < y[i] /\ \A j \in 1 .. i - 1 : x[j] = y[j]

\* The conditional UPDATE of a heartbeat finds the row.
Updates(r) == node # None => TextBefore(node.text, Stored(r.at))

Later(t) == IF t > newest THEN t ELSE newest

\* It is stale or from the future; out of order; stored, though the COMMIT may
\* have raised; or not stored.
HandleBeat(r) ==
    /\ r.kind = "beat"
    /\ \/ ~Timely(r) /\ Answer(r, "refused") /\ UNCHANGED <<node, newest>>
       \/ /\ Timely(r) /\ ~Updates(r)
          /\ newest' = Later(r.at)
          /\ Answer(r, "refused") /\ UNCHANGED node
       \/ /\ Timely(r) /\ Updates(r)
          /\ node' = [text |-> Stored(r.at), at |-> r.at, status |-> r.status, run |-> r.run]
          /\ newest' = Later(r.at)
          /\ \E o \in {"accepted", "refused"} : Answer(r, o)
       \/ /\ Timely(r) /\ Updates(r)
          /\ Answer(r, "refused") /\ UNCHANGED <<node, newest>>
    /\ UNCHANGED <<used, rows, alerts>>

\* The process is restarted: what it held in memory is gone, and so are the
\* answers under way.  What it committed is in the file, and stays.
Restart ==
    /\ crashes < MaxCrashes
    /\ crashes' = crashes + 1
    /\ used' = {}
    /\ reply' = [a \in Actors |-> None]
    /\ UNCHANGED <<now, worker, awaited, flying, rows, alerts, node, newest>>

Next == Tick \/ WorkerStep \/ Restart
        \/ \E r \in flying : HandleEvent(r) \/ HandleBeat(r)

Spec == Init /\ [][Next]_vars
-----------------------------------------------------------------------------
\* What the aggregator stores of a run is what the run made, in the order it
\* made it and without a gap: all it counted, and at most one event more, whose
\* answer was lost or came too late.
RowsAreAPrefix ==
    /\ \A r \in 1 .. MaxRuns : \E last \in counted[r] .. counted[r] + 1 :
          {rows[i][2] : i \in {j \in DOMAIN rows : rows[j][1] = r}} = 1 .. last
    /\ \A i, j \in DOMAIN rows : i < j /\ rows[i][1] = rows[j][1] => rows[i][2] < rows[j][2]

Log == INSTANCE DeliveryLog WITH Runs <- 1 .. MaxRuns

\* Neither lost and late messages nor restarts can be told from the rows and the
\* counts of the runs: the aggregator stores the next event of a run, once, and
\* the worker counts only what is stored.
ImplementsLog == Log!Spec

\* An honest worker never sets off a replay alert, whatever is lost, late or
\* restarted: an event is sent once, and what was not answered is not resent.
NoFalseAlarm == "replay" \notin alerts

\* The row of the node is the latest heartbeat, by its own timestamp, of all
\* that were stored or told that they are out of order, over all runs of the
\* worker and though SQLite compares timestamps as text.
NodeRowIsTheNewest == newest = IF node = None THEN -1 ELSE node.at

\* Once a run's degraded heartbeat is stored the row of the node stays degraded
\* until another run speaks: no healthy heartbeat of the same run, posted by
\* its other thread, is still on its way to replace it.
DegradedIsTheLastWord ==
    [][(node # None /\ node.status = "degraded") => node'.run # node.run]_node
=============================================================================

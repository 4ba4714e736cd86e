-------------------------------- MODULE Worker --------------------------------
(***************************************************************************)
(* One run of the privacy worker: SignedWorkerRunner.run of                *)
(* secureedge/transport.py around PrivacyWorkerPipeline.run of             *)
(* secureedge/worker.py, with the frame source, the HTTP transport and the *)
(* heartbeat lifecycle, whose thread sends heartbeats beside the main one. *)
(*                                                                         *)
(* "main" is where the main thread is: one step per call that blocks or    *)
(* touches what the heartbeat thread touches.  The nested with statements  *)
(* and the except clauses appear as the step an exception leads to.  They  *)
(* catch Exception; a KeyboardInterrupt, which may come in any step, also  *)
(* passes through __enter__ and __exit__ half done.                        *)
(* The aggregator is external: it takes a request or not, and its answer   *)
(* comes back as 202 or is lost or anything else, which is a failure.      *)
(***************************************************************************)
EXTENDS Naturals

CONSTANT MaxEvents   \* the max_events option, which also bounds the run

ASSUME MaxEventsAssumption == MaxEvents \in Nat \ {0}

VARIABLES
    main,           \* where the main thread is
    thread,         \* where the heartbeat thread is
    stop,           \* _stop: the event that ends the heartbeat thread
    failure,        \* _failure of the lifecycle
    started,        \* _started of the lifecycle
    degradedSent,   \* _degraded_sent of the lifecycle
    transportOpen,  \* there is a client that close() has not been called on
    sourceOpen,     \* there is a capture that release() has not been called on
    raised,         \* the exception on its way out: "none", "error", "interrupt"
    produced,       \* _next_frame_seq: events assembled
    emitted,        \* events that the aggregator answered with 202
    stored,         \* external: events that the aggregator took
    lastWord,       \* external: the status of the last heartbeat it took
    late,           \* history: deliveries begun since the heartbeat failed
    cut             \* history: the steps that Ctrl-C broke off

lifecycleVars == <<stop, failure, started, degradedSent>>
resourceVars  == <<transportOpen, sourceOpen>>
countVars     == <<produced, emitted, stored, late>>
outsideVars   == <<lastWord, cut>>
vars == <<main, thread, lifecycleVars, resourceVars, raised, countVars, outsideVars>>

Init == /\ main = "open_transport"
        /\ thread = "none"
        /\ stop = FALSE /\ failure = FALSE /\ started = FALSE /\ degradedSent = FALSE
        /\ transportOpen = FALSE /\ sourceOpen = FALSE
        /\ raised = "none"
        /\ produced = 0 /\ emitted = 0 /\ stored = 0 /\ late = 0
        /\ lastWord = "none" /\ cut = {}
-----------------------------------------------------------------------------
(***************************************************************************)
(* The main thread.                                                        *)
(***************************************************************************)
\* Mutant: the source is left open if the heartbeat does not start.
UnwindLeaks(p) ==
    CASE p \in {"open_transport", "close_transport"} -> "done"
      [] p \in {"open_source", "hb_first", "hb_start", "hb_check"} -> "leave_source"
      [] p \in {"loop", "read", "after_read", "after_last", "process",
                "before_sink", "sink", "after_sink"} -> "exit_heartbeat"
      [] p \in {"exit_heartbeat", "join"} -> "close_source"
      [] OTHER -> "close_transport"

\* Where an exception raised at step p of the main thread leads: out of the
\* with statements whose __enter__ had returned, innermost first.
Unwind(p) ==
    CASE p \in {"open_transport", "close_transport"} -> "done"
      [] p = "open_source" -> "leave_source"
      [] p \in {"loop", "read", "after_read", "after_last", "process",
                "before_sink", "sink", "after_sink"} -> "exit_heartbeat"
      [] p \in {"hb_first", "hb_start", "hb_check", "exit_heartbeat", "join"} -> "close_source"
      [] OTHER -> "close_transport"

Raise(e) == raised' = e /\ main' = Unwind(main)

At(p)   == main = p
Goto(p) == main' = p /\ UNCHANGED raised

\* The with statement of the runner opens the HTTP client, or fails to; a client
\* that it refuses is closed already.
OpenTransport ==
    /\ At("open_transport")
    /\ \/ transportOpen' = TRUE /\ Goto("open_source")
       \/ Raise("error") /\ UNCHANGED transportOpen
    /\ UNCHANGED <<thread, lifecycleVars, sourceOpen, countVars, outsideVars>>

\* The source opens, or refuses and releases what it had.
OpenSource ==
    /\ At("open_source")
    /\ \/ sourceOpen' = TRUE /\ Goto("hb_first")
       \/ Raise("error") /\ UNCHANGED sourceOpen
    /\ UNCHANGED <<thread, lifecycleVars, transportOpen, countVars, outsideVars>>

\* The aggregator takes a heartbeat of that status, or not.
Heard(status) == lastWord' \in {lastWord, status}

\* lifecycle.__enter__ sends the first heartbeat from the main thread.
FirstHeartbeat ==
    /\ At("hb_first")
    /\ \/ lastWord' = "healthy" /\ started' = TRUE /\ Goto("hb_start")
       \/ Heard("healthy") /\ Raise("error") /\ UNCHANGED started
    /\ UNCHANGED <<thread, stop, failure, degradedSent, resourceVars, countVars, cut>>

\* It starts the thread, or records the failure to.
StartThread ==
    /\ At("hb_start")
    /\ \/ thread' = "starting" /\ Goto("hb_check") /\ UNCHANGED <<stop, failure>>
       \/ stop' = TRUE /\ failure' = TRUE /\ Raise("error") /\ UNCHANGED thread
    /\ UNCHANGED <<started, degradedSent, resourceVars, countVars, outsideVars>>

\* Mutant: the check never notices a failure.
FailedIgnored == FALSE

\* The failed property of the lifecycle, which check() raises on.
Failed == failure

\* Mutant: the loop does not count what it has emitted.
CheckUncounted ==
    /\ \E next \in {<<"hb_check", "loop">>, <<"loop", "read">>,
                    <<"before_sink", "sink">>, <<"after_sink", "loop">>} :
          /\ At(next[1])
          /\ IF Failed THEN Raise("error") ELSE Goto(next[2])
    /\ UNCHANGED <<thread, lifecycleVars, resourceVars, countVars, outsideVars>>

\* The check at the end of __enter__ (265) and those of the loop of the
\* pipeline (432 to 448), each followed by the next step when it passes.
Check ==
    /\ \E next \in {<<"hb_check", "loop">>, <<"loop", "read">>,
                    <<"before_sink", "sink">>, <<"after_sink", "loop">>} :
          /\ At(next[1])
          /\ main = "loop" => emitted < MaxEvents
          /\ IF Failed THEN Raise("error") ELSE Goto(next[2])
    /\ UNCHANGED <<thread, lifecycleVars, resourceVars, countVars, outsideVars>>

\* max_events is reached: the with statement ends with no exception.
EnoughEvents ==
    /\ At("loop") /\ emitted = MaxEvents
    /\ Goto("exit_heartbeat")
    /\ UNCHANGED <<thread, lifecycleVars, resourceVars, countVars, outsideVars>>

\* source.read returns a frame or the end of the media, or raises.
Read ==
    /\ At("read")
    /\ Goto("after_read") \/ Goto("after_last") \/ Raise("error")
    /\ UNCHANGED <<thread, lifecycleVars, resourceVars, countVars, outsideVars>>

\* The check after read; then the end of the media ends the loop, and a frame
\* is sampled, skipped, or found to go back in time.
Sample ==
    /\ main \in {"after_read", "after_last"}
    /\ IF Failed THEN Raise("error")
       ELSE IF main = "after_last" THEN Goto("exit_heartbeat")
       ELSE Goto("process") \/ Goto("loop") \/ Raise("error")
    /\ UNCHANGED <<thread, lifecycleVars, resourceVars, countVars, outsideVars>>

\* process_frame: only an event that validates consumes a sequence number.
Process ==
    /\ At("process")
    /\ \/ produced' = produced + 1 /\ Goto("before_sink")
       \/ Raise("error") /\ UNCHANGED produced
    /\ UNCHANGED <<thread, lifecycleVars, resourceVars, emitted, stored, late, outsideVars>>

BeginDelivery == late' = IF failure THEN late + 1 ELSE late

\* Mutant: a failed delivery is skipped over and the loop goes on.
SinkSkips ==
    /\ At("sink")
    /\ BeginDelivery
    /\ \/ stored' = stored + 1 /\ emitted' = emitted + 1 /\ Goto("after_sink")
       \/ stored' \in {stored, stored + 1} /\ Goto("after_sink") /\ UNCHANGED emitted
    /\ UNCHANGED <<thread, lifecycleVars, resourceVars, produced, outsideVars>>

\* The sink posts the signed event once: 202, or a failure that leaves open
\* whether the aggregator took it.
Sink ==
    /\ At("sink")
    /\ BeginDelivery
    /\ \/ stored' = stored + 1 /\ emitted' = emitted + 1 /\ Goto("after_sink")
       \/ stored' \in {stored, stored + 1} /\ Raise("error") /\ UNCHANGED emitted
    /\ UNCHANGED <<thread, lifecycleVars, resourceVars, produced, outsideVars>>

\* lifecycle.__exit__ stops the thread, if one was started.
ExitHeartbeat ==
    /\ At("exit_heartbeat")
    /\ stop' = TRUE
    /\ Goto("join")
    /\ UNCHANGED <<thread, failure, started, degradedSent, resourceVars, countVars, outsideVars>>

\* Mutants: the thread is not waited for; its failure is not looked at.
JoinNoWait ==
    /\ At("join")
    /\ main' = "close_source"
    /\ raised' = IF raised = "none" /\ Failed THEN "error" ELSE raised
    /\ UNCHANGED <<thread, lifecycleVars, resourceVars, countVars, outsideVars>>
JoinUnchecked ==
    /\ At("join") /\ thread \in {"none", "dead"}
    /\ Goto("close_source")
    /\ UNCHANGED <<thread, lifecycleVars, resourceVars, countVars, outsideVars>>

\* It waits for the thread and, if nothing else is raised, checks it.
Join ==
    /\ At("join") /\ thread \in {"none", "dead"}
    /\ main' = "close_source"
    /\ raised' = IF raised = "none" /\ Failed THEN "error" ELSE raised
    /\ UNCHANGED <<thread, lifecycleVars, resourceVars, countVars, outsideVars>>

\* Waiting raises: that counts as a failure, and the thread may still run.
JoinFails ==
    /\ At("join") /\ thread # "none"
    /\ failure' = TRUE
    /\ main' = "close_source"
    /\ raised' = IF raised = "none" THEN "error" ELSE raised
    /\ UNCHANGED <<thread, stop, started, degradedSent, resourceVars, countVars, outsideVars>>

\* Where the runner goes from the pipeline: its except clause sees no interrupt.
LeavePipeline(e) == main' = IF e = "error" THEN "degraded" ELSE "close_transport"

\* source.__exit__ releases the capture; an error in it counts if none does.
CloseSource ==
    /\ At("close_source")
    /\ sourceOpen' = FALSE
    /\ \/ UNCHANGED raised
       \/ raised = "none" /\ raised' = "error"
    /\ LeavePipeline(raised')
    /\ UNCHANGED <<thread, lifecycleVars, transportOpen, countVars, outsideVars>>

\* The pipeline raises before the __enter__ of its source has returned: the
\* __exit__ does not run.
LeaveSource ==
    /\ At("leave_source")
    /\ LeavePipeline(raised) /\ UNCHANGED raised
    /\ UNCHANGED <<thread, lifecycleVars, resourceVars, countVars, outsideVars>>

\* best_effort_degraded: at most one heartbeat, and only if one was taken
\* before and none failed; its own failure is swallowed.
TryDegraded ==
    IF ~started \/ Failed \/ degradedSent THEN UNCHANGED <<degradedSent, lastWord>>
    ELSE degradedSent' = TRUE /\ Heard("degraded")

Degraded ==
    /\ At("degraded")
    /\ TryDegraded
    /\ Goto("close_transport")
    /\ UNCHANGED <<thread, stop, failure, started, resourceVars, countVars, cut>>

\* The client closes; an error in that counts if there is no other.
CloseTransport ==
    /\ At("close_transport")
    /\ transportOpen' = FALSE
    /\ \/ UNCHANGED raised
       \/ raised = "none" /\ raised' = "error"
    /\ main' = "done"
    /\ UNCHANGED <<thread, lifecycleVars, sourceOpen, countVars, outsideVars>>

\* In one of these steps a value may have changed already when Ctrl-C comes.
MayBe(steps, old, new) == IF main \in steps THEN {old, new} ELSE {old}

\* Ctrl-C in any step of the main thread, any number of times.  It leads where
\* an error in that step leads, but a call that it breaks off may have had its
\* effect: __enter__ holds the resource and does not return, so that __exit__
\* never runs; __exit__ lets go of it before or after the release.
Interrupt ==
    /\ main # "done"
    /\ Raise("interrupt")
    /\ cut' = cut \cup {main}
    /\ sourceOpen' \in MayBe({"open_source", "close_source"}, sourceOpen, main = "open_source")
    /\ transportOpen' \in
         MayBe({"open_transport", "close_transport"}, transportOpen, main = "open_transport")
    /\ stored' \in MayBe({"sink"}, stored, stored + 1)
    /\ IF main = "sink" THEN BeginDelivery ELSE UNCHANGED late
    /\ \/ lastWord' \in MayBe({"hb_first"}, lastWord, "healthy") /\ UNCHANGED degradedSent
       \/ main = "degraded" /\ TryDegraded
    /\ UNCHANGED <<thread, stop, failure, started, produced, emitted>>

Main == \/ OpenTransport \/ OpenSource \/ FirstHeartbeat \/ StartThread \/ Check
        \/ EnoughEvents \/ Read \/ Sample \/ Process \/ Sink \/ ExitHeartbeat
        \/ Join \/ CloseSource \/ LeaveSource \/ Degraded \/ CloseTransport
-----------------------------------------------------------------------------
(***************************************************************************)
(* The heartbeat thread (_run).                                            *)
(***************************************************************************)
threadRest == <<main, started, degradedSent, resourceVars, raised, countVars, cut>>

\* The first reading of the monotonic clock is outside the try statement: if
\* it fails, the thread ends and records nothing.
FirstReading ==
    /\ thread = "starting"
    /\ thread' \in {"waiting", "dead"}
    /\ UNCHANGED <<threadRest, stop, failure, lastWord>>

\* What the except clause of the loop does.
RecordFailure == thread' = "dead" /\ failure' = TRUE /\ stop' = TRUE

\* The wait ends: stop was set, or the interval is over, or something raised.
Wake ==
    /\ thread = "waiting"
    /\ \/ stop /\ thread' = "dead" /\ UNCHANGED <<stop, failure>>
       \/ ~stop /\ thread' = "sending" /\ UNCHANGED <<stop, failure>>
       \/ RecordFailure
    /\ UNCHANGED <<threadRest, lastWord>>

\* A healthy heartbeat is posted.  A closed transport fails it unheard.
SendHealthy ==
    /\ thread = "sending"
    /\ \/ transportOpen /\ thread' = "waiting" /\ lastWord' = "healthy"
          /\ UNCHANGED <<stop, failure>>
       \/ transportOpen /\ Heard("healthy") /\ RecordFailure
       \/ ~transportOpen /\ RecordFailure /\ UNCHANGED lastWord
    /\ UNCHANGED threadRest

Thread == FirstReading \/ Wake \/ SendHealthy

Next == Main \/ JoinFails \/ Interrupt \/ Thread

\* Every call returns: reads and inference finish, each request is bounded by
\* request_timeout_seconds, and the operating system runs both threads.
Fairness == WF_vars(Main) /\ WF_vars(Thread)

Spec == Init /\ [][Next]_vars /\ Fairness
-----------------------------------------------------------------------------
Steps == {"open_transport", "open_source", "leave_source", "hb_first", "hb_start",
          "hb_check", "loop", "read", "after_read", "after_last", "process",
          "before_sink", "sink", "after_sink", "exit_heartbeat", "join",
          "close_source", "degraded", "close_transport", "done"}

TypeOK ==
    /\ main \in Steps /\ cut \subseteq Steps \ {"done"}
    /\ thread \in {"none", "starting", "waiting", "sending", "dead"}
    /\ {stop, failure, started, degradedSent, transportOpen, sourceOpen} \subseteq BOOLEAN
    /\ raised \in {"none", "error", "interrupt"}
    /\ lastWord \in {"none", "healthy", "degraded"}
    /\ produced \in 0 .. MaxEvents /\ emitted \in 0 .. produced
    /\ stored \in 0 .. produced /\ late \in Nat

\* A run that reports success had no heartbeat failure, not even one between
\* the last check of the loop and the end of the thread (transport.py 274-284).
SuccessMeansHealthy == (main = "done" /\ raised = "none") => ~failure

\* The aggregator holds at most one event that the worker does not count, and
\* none after a run that succeeds: there is one attempt per event.
OneUncountedEvent ==
    /\ stored \in {emitted, emitted + 1}
    /\ (main = "done" /\ raised = "none") => stored = emitted

\* Degraded is the last word of a run: no heartbeat of the thread follows it.
DegradedIsFinal == [][lastWord = "degraded" => lastWord' = "degraded"]_lastWord

\* Once the heartbeat has failed, at most one delivery still begins.
OneLateDelivery == late =< 1

\* When the run is over it holds neither the capture nor the client, whatever
\* raised and wherever Ctrl-C came; but for a Ctrl-C that came while that very
\* resource was being opened or closed (worker.py 200-206 and 221-231,
\* transport.py 119-150).
AllReleased ==
    main = "done" => /\ sourceOpen    => cut \cap {"open_source", "close_source"} # {}
                     /\ transportOpen => cut \cap {"open_transport", "close_transport"} # {}

\* A failed heartbeat ends the run, as any exception does.
FailureEndsTheRun == (failure \/ raised # "none") ~> main = "done"

\* "worker interrupted; resources released" (apps/worker/main.py 158).
InterruptStopsTheThread ==
    (main = "done" /\ raised = "interrupt") => thread \in {"none", "dead"}
=============================================================================

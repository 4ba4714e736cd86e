----------------------------- MODULE WorkerProofs -----------------------------
(***************************************************************************)
(* What one run of the worker guarantees for every number of events,       *)
(* whatever raises, wherever Ctrl-C arrives and however the heartbeat      *)
(* thread and the main thread interleave.                                  *)
(***************************************************************************)
EXTENDS Worker, TLAPS

USE MaxEventsAssumption

\* Where the main thread is: before it has opened the source, between the two
\* ends of the source's with statement, in the loop, and after the join.
Opening  == {"open_transport", "open_source", "leave_source"}
Entering == {"hb_first", "hb_start", "hb_check"}
Looping  == {"loop", "read", "after_read", "after_last", "process",
             "before_sink", "sink", "after_sink"}
Stopping == {"exit_heartbeat", "join"}
Leaving  == {"close_source", "degraded", "close_transport", "done"}

\* The flags, and the types of the other variables.
Flags ==
    /\ stop \in BOOLEAN /\ failure \in BOOLEAN
    /\ started \in BOOLEAN /\ degradedSent \in BOOLEAN
    /\ transportOpen \in BOOLEAN /\ sourceOpen \in BOOLEAN

Typed ==
    /\ main \in Steps
    /\ thread \in {"none", "starting", "waiting", "sending", "dead"}
    /\ raised \in {"none", "error", "interrupt"}
    /\ lastWord \in {"none", "healthy", "degraded"}
    /\ cut \subseteq Steps \ {"done"}
    /\ produced \in Nat /\ emitted \in Nat /\ stored \in Nat /\ late \in Nat

\* What is open, from where the main thread is, unless Ctrl-C came while it was
\* being opened or closed.
OpenWhileNeeded ==
    /\ sourceOpen => \/ main \in Entering \cup Looping \cup Stopping \cup {"close_source"}
                     \/ cut \cap {"open_source", "close_source"} # {}
    /\ transportOpen => \/ main \notin {"open_transport", "done"}
                        \/ cut \cap {"open_transport", "close_transport"} # {}

\* What is on its way out, from where the main thread is.
RaisedWhere ==
    /\ main \in {"open_transport", "open_source"} \cup Entering \cup Looping => raised = "none"
    /\ main = "leave_source" => raised # "none"
    /\ main = "degraded" => raised = "error"

\* An event is in flight only between its assembly and the answer to its one
\* delivery; a run that has raised nothing has none outstanding elsewhere.
EventsInFlight ==
    /\ produced \in {emitted, emitted + 1} /\ produced =< MaxEvents
    /\ stored \in {emitted, emitted + 1} /\ stored =< produced
    /\ raised = "none" => stored = emitted
    /\ raised = "none" /\ main \notin {"before_sink", "sink"} => produced = emitted
    /\ main \in {"before_sink", "sink"} => produced = emitted + 1
    /\ main \in {"read", "after_read", "after_last", "process"} => emitted < MaxEvents

\* The heartbeat thread runs only while the lifecycle is entered, unless Ctrl-C
\* took the main thread past the join, or the join failed, which is a failure.
ThreadIsJoined ==
    /\ main \in Opening \cup {"hb_first", "hb_start"} => thread = "none" /\ ~failure
    /\ main \in Leaving /\ raised # "interrupt" /\ ~failure => thread \in {"none", "dead"}
    /\ main \in Leaving /\ raised = "none" => ~failure
    /\ failure /\ main \notin Leaving => thread \in {"none", "dead"}

\* A delivery that began after a failure is the last: the check that follows it
\* raises.
LateIsLast ==
    /\ late =< 1
    /\ late # 0 => failure /\ main \in {"after_sink"} \cup Stopping \cup Leaving

\* Once the aggregator has heard that the node is degraded, neither thread has
\* anything more to say.
SilentOnceDegraded ==
    lastWord = "degraded" => /\ main \in {"close_transport", "done"}
                             /\ thread \in {"none", "dead"}

\* The inductive invariant.
WInv == /\ Flags
        /\ Typed
        /\ OpenWhileNeeded
        /\ RaisedWhere
        /\ EventsInFlight
        /\ ThreadIsJoined
        /\ LateIsLast
        /\ SilentOnceDegraded
-----------------------------------------------------------------------------
USE DEF Opening, Entering, Looping, Stopping, Leaving, Steps

\* Where an exception leads from each step that may raise one.
LEMMA UnwindLeads ==
    /\ \A p \in {"open_transport", "close_transport"} : Unwind(p) = "done"
    /\ Unwind("open_source") = "leave_source"
    /\ \A p \in Entering \cup Stopping : Unwind(p) = "close_source"
    /\ \A p \in Looping : Unwind(p) = "exit_heartbeat"
    /\ \A p \in {"leave_source", "close_source", "degraded"} : Unwind(p) = "close_transport"
  BY DEF Unwind

\* The first state.
LEMMA InitHolds == Init => WInv
  <1> SUFFICES ASSUME Init PROVE WInv
    OBVIOUS
  <1>1. Flags /\ Typed
    BY DEF Init, Flags, Typed
  <1>2. OpenWhileNeeded /\ RaisedWhere
    BY DEF Init, OpenWhileNeeded, RaisedWhere
  <1>3. EventsInFlight
    BY DEF Init, EventsInFlight
  <1>4. ThreadIsJoined /\ LateIsLast /\ SilentOnceDegraded
    BY DEF Init, ThreadIsJoined, LateIsLast, SilentOnceDegraded
  <1> QED
    BY <1>1, <1>2, <1>3, <1>4 DEF WInv

\* A flag stays a flag.
LEMMA FlagsAreKept ==
    ASSUME Flags, [Next]_vars
    PROVE  Flags'
  <1> USE DEF Flags, lifecycleVars, resourceVars, countVars
  <1>1. CASE Check \/ EnoughEvents \/ Read \/ Sample \/ Process \/ Sink \/ LeaveSource
    BY <1>1, Zenon DEF Check, EnoughEvents, Read, Sample, Process, Sink, LeaveSource
  <1>2. CASE OpenTransport \/ OpenSource \/ CloseSource \/ CloseTransport
    BY <1>2, Zenon DEF OpenTransport, OpenSource, CloseSource, CloseTransport
  <1>3. CASE FirstHeartbeat \/ StartThread \/ ExitHeartbeat
    BY <1>3, Zenon DEF FirstHeartbeat, StartThread, ExitHeartbeat
  <1>4. CASE Degraded \/ Join \/ JoinFails
    BY <1>4, Zenon DEF Degraded, TryDegraded, Join, JoinFails
  <1>5. CASE Thread
    BY <1>5, Zenon DEF Thread, FirstReading, Wake, SendHealthy, threadRest, RecordFailure
  <1>6. CASE Interrupt
    <2>1. sourceOpen' \in BOOLEAN
      BY <1>6 DEF Interrupt, MayBe
    <2>2. transportOpen' \in BOOLEAN
      BY <1>6 DEF Interrupt, MayBe
    <2> QED
      BY <1>6, <2>1, <2>2, Zenon DEF Interrupt, TryDegraded
  <1>7. CASE UNCHANGED vars
    BY <1>7, Zenon DEF vars
  <1> QED
    BY <1>1, <1>2, <1>3, <1>4, <1>5, <1>6, <1>7 DEF Next, Main

\* Ctrl-C keeps the invariant, in whatever step it comes.
LEMMA InterruptKeeps ==
    ASSUME WInv, Interrupt, Flags'
    PROVE  WInv'
  <1> USE DEF WInv, Typed, lifecycleVars, resourceVars, countVars
  <1>1. /\ main # "done" /\ raised' = "interrupt" /\ main' = Unwind(main)
        /\ cut' = cut \cup {main}
    BY DEF Interrupt, Raise
  <1>2. Typed'
    BY <1>1, UnwindLeads DEF Interrupt, MayBe, BeginDelivery, TryDegraded, Heard
  <1>3. OpenWhileNeeded'
    BY <1>1, UnwindLeads DEF OpenWhileNeeded, Interrupt, MayBe
  <1>4. RaisedWhere'
    BY <1>1, UnwindLeads DEF RaisedWhere
  <1>5. EventsInFlight'
    BY <1>1, UnwindLeads DEF EventsInFlight, RaisedWhere, Interrupt, MayBe
  <1>6. ThreadIsJoined'
    BY <1>1, UnwindLeads DEF ThreadIsJoined, Interrupt
  <1>7. LateIsLast'
    BY <1>1, UnwindLeads DEF LateIsLast, Interrupt, BeginDelivery
  <1>8. SilentOnceDegraded'
    BY <1>1, UnwindLeads DEF SilentOnceDegraded, ThreadIsJoined, RaisedWhere, Interrupt, MayBe,
       TryDegraded, Heard, Failed
  <1> QED
    BY <1>2, <1>3, <1>4, <1>5, <1>6, <1>7, <1>8

\* Every step keeps the invariant.
LEMMA NextKeeps ==
    ASSUME WInv, [Next]_vars
    PROVE  WInv'
  <1> USE DEF WInv, Typed, OpenWhileNeeded, RaisedWhere, EventsInFlight, ThreadIsJoined,
          LateIsLast, SilentOnceDegraded, lifecycleVars, resourceVars, countVars, outsideVars
  <1>0. Flags'
    BY FlagsAreKept
  <1>1. CASE OpenTransport
    BY <1>0, <1>1, UnwindLeads DEF OpenTransport, Raise, Goto, At
  <1>2. CASE OpenSource
    BY <1>0, <1>2, UnwindLeads DEF OpenSource, Raise, Goto, At
  <1>3. CASE FirstHeartbeat
    BY <1>0, <1>3, UnwindLeads DEF FirstHeartbeat, At, Goto, Raise, Heard
  <1>4. CASE StartThread
    BY <1>0, <1>4, UnwindLeads DEF StartThread, At, Goto, Raise
  <1>5. CASE Check
    BY <1>0, <1>5, UnwindLeads DEF Check, At, Goto, Raise, Failed
  <1>6. CASE EnoughEvents
    BY <1>0, <1>6 DEF EnoughEvents, At, Goto
  <1>7. CASE Read
    BY <1>0, <1>7, UnwindLeads DEF Read, At, Goto, Raise
  <1>8. CASE Sample
    BY <1>0, <1>8, UnwindLeads DEF Sample, Goto, Raise, Failed
  <1>9. CASE Process
    BY <1>0, <1>9, UnwindLeads DEF Process, At, Goto, Raise
  <1>10. CASE Sink
    BY <1>0, <1>10, UnwindLeads DEF Sink, BeginDelivery, At, Goto, Raise
  <1>11. CASE ExitHeartbeat
    BY <1>0, <1>11 DEF ExitHeartbeat, At, Goto
  <1>12. CASE Join
    BY <1>0, <1>12 DEF Join, At, Failed
  <1>13. CASE CloseSource
    BY <1>0, <1>13 DEF CloseSource, At, LeavePipeline
  <1>14. CASE LeaveSource
    BY <1>0, <1>14 DEF LeaveSource, At, LeavePipeline
  <1>15. CASE Degraded
    BY <1>0, <1>15 DEF Degraded, At, Goto, TryDegraded, Heard, Failed
  <1>16. CASE CloseTransport
    BY <1>0, <1>16 DEF CloseTransport, At
  <1>17. CASE Interrupt
    BY <1>0, <1>17, InterruptKeeps
  <1>18. CASE FirstReading
    BY <1>0, <1>18 DEF FirstReading, threadRest
  <1>19. CASE Wake
    BY <1>0, <1>19 DEF Wake, threadRest, RecordFailure
  <1>20. CASE SendHealthy
    BY <1>0, <1>20 DEF SendHealthy, threadRest, Heard, RecordFailure
  <1>21. CASE JoinFails
    BY <1>0, <1>21 DEF JoinFails, At
  <1>22. CASE UNCHANGED vars
    BY <1>0, <1>22 DEF vars
  <1> QED
    BY <1>1, <1>2, <1>3, <1>4, <1>5, <1>6, <1>7, <1>8, <1>9, <1>10, <1>11, <1>12, <1>13,
       <1>14, <1>15, <1>16, <1>17, <1>18, <1>19, <1>20, <1>21, <1>22 DEF Next, Main, Thread

\* Where the two threads are decides what is open, in flight and on its way out.
THEOREM Invariance == Spec => []WInv
  BY InitHolds, NextKeeps, PTL DEF Spec

\* The state keeps its shape; no event is produced beyond max_events.
THEOREM TypeCorrect == Spec => []TypeOK
  <1>1. WInv => TypeOK
    <2> SUFFICES ASSUME WInv PROVE TypeOK
      OBVIOUS
    <2>1. {stop, failure, started, degradedSent, transportOpen, sourceOpen} \subseteq BOOLEAN
      BY Zenon DEF WInv, Flags
    <2> QED
      BY <2>1 DEF WInv, Typed, EventsInFlight, TypeOK
  <1> QED
    BY <1>1, Invariance, PTL

\* A run that reports success had no heartbeat failure.
THEOREM SuccessIsHealthy == Spec => []SuccessMeansHealthy
  <1>1. WInv => SuccessMeansHealthy
    BY DEF WInv, ThreadIsJoined, SuccessMeansHealthy
  <1> QED
    BY <1>1, Invariance, PTL

\* The aggregator holds at most one event more than the worker counts, and none
\* after a run that succeeds.
THEOREM CountsAgree == Spec => []OneUncountedEvent
  <1>1. WInv => OneUncountedEvent
    BY DEF WInv, EventsInFlight, OneUncountedEvent
  <1> QED
    BY <1>1, Invariance, PTL

\* Once the heartbeat has failed at most one delivery still begins.
THEOREM FailureStopsDelivery == Spec => []OneLateDelivery
  <1>1. WInv => OneLateDelivery
    BY DEF WInv, LateIsLast, OneLateDelivery
  <1> QED
    BY <1>1, Invariance, PTL

\* Whatever raises and wherever Ctrl-C comes, the capture and the client are
\* released when the run is over, unless Ctrl-C came while that very resource was
\* being opened or closed.
THEOREM ResourcesAreReleased == Spec => []AllReleased
  <1>1. WInv => AllReleased
    BY DEF WInv, OpenWhileNeeded, AllReleased
  <1> QED
    BY <1>1, Invariance, PTL

\* No heartbeat follows a degraded one.
THEOREM LastWord == Spec => DegradedIsFinal
  <1>1. WInv /\ [Next]_vars => [lastWord = "degraded" => lastWord' = "degraded"]_lastWord
    <2> SUFFICES ASSUME WInv, [Next]_vars, lastWord = "degraded"
                 PROVE  lastWord' = lastWord
      OBVIOUS
    <2>1. main \in {"close_transport", "done"} /\ thread \in {"none", "dead"}
      BY DEF WInv, SilentOnceDegraded
    <2>2. CASE Main
      BY <2>1, <2>2 DEF Main, OpenTransport, OpenSource, FirstHeartbeat, StartThread, Check,
         EnoughEvents, Read, Sample, Process, Sink, ExitHeartbeat, Join, CloseSource, LeaveSource,
         Degraded, CloseTransport, At, outsideVars
    <2>3. CASE Interrupt \/ JoinFails
      BY <2>1, <2>3 DEF Interrupt, MayBe, JoinFails, At, outsideVars
    <2>4. CASE Thread
      BY <2>1, <2>4 DEF Thread, FirstReading, Wake, SendHealthy
    <2> QED
      BY <2>2, <2>3, <2>4 DEF Next, vars, outsideVars
  <1> QED
    BY <1>1, Invariance, PTL DEF Spec, DegradedIsFinal
=============================================================================

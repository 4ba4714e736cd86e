----------------------------- MODULE FramePipeline -----------------------------
(***************************************************************************)
(* From frames to events: OpenCvFrameSource, _SamplingGate and             *)
(* PrivacyWorkerPipeline of secureedge/worker.py, with the detector        *)
(* boundary of DetectionResults.  One pipeline makes up to MaxRuns runs,   *)
(* each over a source that is new or has been opened before.               *)
(*                                                                         *)
(* A camera, or a file that declares no frame rate, is timed by the clock; *)
(* any other file by the index of the frame over the rate.  Times and rates*)
(* are floats, written in steps as in SmallFloats, so that a rate may be   *)
(* 29.97 or 0.5; the exact time of a frame is num / den steps, and only    *)
(* the properties read it.                                                 *)
(***************************************************************************)
EXTENDS DetectionResults, FiniteSets

CONSTANTS
    Media,      \* what a run may open: set of [camera, fps, declared], in steps
    Rates,      \* frame_sample_fps may be any of these floats, in steps
    Limits,     \* max_events may be any of these, or None
    Readings,   \* what the monotonic clock may return
    Raws,       \* what the model may return for a frame
    MaxFrames,  \* bound: frames in a media
    MaxRuns     \* bound: runs of the pipeline

ASSUME FrameAssumption ==
    /\ None \notin {"eof", "limit", "error"}
    /\ Rates \subseteq Nat \ {0}
    /\ \A m \in Media : /\ m.fps \in (Nat \ {0}) \cup {None}
                        /\ m.camera => m.fps = None /\ m.declared = None
    /\ None \notin Nat /\ Readings \subseteq Nat
    /\ Raws \subseteq Seq(Rows) \cup {Malformed}

VARIABLES
    pc,        \* where the run is; "idle" between runs
    runs,      \* runs made
    rate,      \* frame_sample_fps
    media,     \* what is open
    limit,     \* max_events
    index,     \* _frame_index
    captured,  \* the frame in hand: [time, num, den]
    gate,      \* _SamplingGate: [last, next]
    event,     \* the event in hand: [raw, detections], or None
    emitted,   \* events the sink has taken in this run
    issued,    \* what the pipeline remembers: [seq, ids, nonces]
    outcome,   \* how the last run ended
    seen,      \* history, of the run: [frames, picks, picked]
    names      \* history, of the pipeline: the [seq, id, nonce] of its events

vars == <<pc, runs, rate, media, limit, index, captured, gate, event, emitted,
          issued, outcome, seen, names>>

Init == /\ pc = "idle" /\ runs = 0
        /\ rate \in Rates
        /\ media = None /\ limit = None
        /\ index = 0 /\ captured = None
        /\ gate = [last |-> None, next |-> None]
        /\ event = None /\ emitted = 0
        /\ issued = [seq |-> 0, ids |-> {}, nonces |-> {}]
        /\ outcome = None
        /\ seen = [frames |-> 0, picks |-> 0, picked |-> None]
        /\ names = <<>>

\* The run ends and the capture is released; releasing may raise, and that is
\* reported unless something else is.
End(o) == /\ pc' = "idle"
          /\ outcome' \in {o, "error"}
          /\ captured' = None /\ event' = None
Running == UNCHANGED outcome
-----------------------------------------------------------------------------
\* Mutant: the index of a source that is opened again is not reset.
StartIndexKept == index' = index

StartIndex == index' = 0

\* run makes a gate and opens the source.
Open ==
    /\ pc = "idle" /\ runs < MaxRuns
    /\ media' \in Media /\ limit' \in Limits
    /\ runs' = runs + 1
    /\ StartIndex
    /\ gate' = [last |-> None, next |-> None]
    /\ emitted' = 0
    /\ seen' = [frames |-> 0, picks |-> 0, picked |-> None]
    /\ pc' = "read" /\ outcome' = None
    /\ UNCHANGED <<rate, captured, event, issued, names>>

\* _expected_frames is the declared count, rounded up.
Complete == media.declared # None => index * One >= media.declared

\* read decodes no frame: a camera has failed; a file has ended, early or not.
ReadNothing ==
    /\ pc = "read"
    /\ End(IF media.camera \/ ~Complete THEN "error" ELSE "eof")
    /\ UNCHANGED <<runs, rate, media, limit, index, gate, emitted, issued, seen, names>>

\* read decodes a frame and says when it was, or is.
ReadFrame ==
    /\ pc = "read" /\ seen.frames < MaxFrames
    /\ IF media.fps = None
       THEN \E t \in Readings : captured' = [time |-> t, num |-> t, den |-> 1]
       ELSE captured' = [time |-> Ratio(index * One, media.fps),
                         num  |-> index * One * One, den |-> media.fps]
    /\ index' = index + 1
    /\ seen' = [seen EXCEPT !.frames = @ + 1]
    /\ pc' = "sample"
    /\ Running
    /\ UNCHANGED <<runs, rate, media, limit, gate, event, emitted, issued, names>>

Interval == Ratio(One, rate)

\* Mutant: a frame that is skipped starts the interval again.
GateRestarts(t, pick) == [last |-> t, next |-> Plus(t, Interval)]

GateAfter(t, pick) == [last |-> t, next |-> IF pick THEN Plus(t, Interval) ELSE gate.next]

Picks(t) == gate.next = None \/ t >= gate.next

\* accept: time must not run backwards; a frame before next_allowed is skipped.
Sample ==
    /\ pc = "sample"
    /\ LET t == captured.time  pick == Picks(captured.time) IN
       IF gate.last # None /\ t < gate.last
       THEN End("error") /\ UNCHANGED <<gate, seen>>
       ELSE /\ gate' = GateAfter(t, pick)
            /\ seen' = IF pick THEN [seen EXCEPT !.picks = @ + 1, !.picked = captured]
                       ELSE seen
            /\ pc' = IF pick THEN "process" ELSE "read"
            /\ Running
            /\ UNCHANGED <<captured, event>>
    /\ UNCHANGED <<runs, rate, media, limit, index, emitted, issued, names>>

\* Mutant: the nonces of earlier events are forgotten.
RememberLess(id, nonce) ==
    issued' = [seq |-> issued.seq + 1, ids |-> issued.ids \cup {id}, nonces |-> {nonce}]

Remember(id, nonce) ==
    issued' = [seq    |-> issued.seq + 1,
               ids    |-> issued.ids \cup {id},
               nonces |-> issued.nonces \cup {nonce}]

\* What a factory may return: a value it has returned before, or the next.
Identifiers == 0 .. Len(names)

\* What infer may return for a frame.
Results == {r \in {[raw |-> raw, detections |-> Convert(raw)] : raw \in Raws} :
               r.detections # Refused}

\* process_frame: the detector runs, the event is named and validated, and only
\* then are its names and its sequence number spent.
Process ==
    /\ pc = "process"
    /\ \E result \in Results, id, nonce \in Identifiers :
         /\ id \notin issued.ids /\ nonce \notin issued.nonces
         /\ event' = result
         /\ Remember(id, nonce)
         /\ names' = Append(names, [seq |-> issued.seq, id |-> id, nonce |-> nonce])
    /\ pc' = "deliver"
    /\ Running
    /\ UNCHANGED <<runs, rate, media, limit, index, captured, gate, emitted, seen>>

\* The detector is refused, a factory repeats itself, or the clock, a factory
\* or the validation raises.
ProcessFails ==
    /\ pc = "process"
    /\ End("error")
    /\ UNCHANGED <<runs, rate, media, limit, index, gate, emitted, issued, seen, names>>

\* The sink takes the event; the run ends at its limit.
Deliver ==
    /\ pc = "deliver"
    /\ emitted' = emitted + 1
    /\ IF emitted' = limit THEN End("limit")
       ELSE pc' = "read" /\ captured' = None /\ event' = None /\ Running
    /\ UNCHANGED <<runs, rate, media, limit, index, gate, issued, seen, names>>

\* Reading, the lifecycle's check or the sink raises.
Raises ==
    /\ pc \in {"read", "sample", "deliver"}
    /\ End("error")
    /\ UNCHANGED <<runs, rate, media, limit, index, gate, emitted, issued, seen, names>>

Next == Open \/ ReadNothing \/ ReadFrame \/ Sample \/ Process \/ ProcessFails
        \/ Deliver \/ Raises

Spec == Init /\ [][Next]_vars
-----------------------------------------------------------------------------
\* The gap between the last frame picked and the one in hand, and how far the
\* rounding of the two times, the interval and their sum can move it: both
\* times rate and den.
GapScaled   == (captured.num - seen.picked.num) * rate
PeriodScaled == One * One * captured.den
SlackScaled == 2 * Ulp[gate.next] * captured.den * rate

\* Sampling never delivers frames faster than frame_sample_fps, and never
\* leaves out a frame that is due, but for the rounding of the float
\* arithmetic: _SamplingGate.accept compares a rounded time with a rounded sum.
SamplingKeepsTheRate ==
    [][pc = "sample" /\ seen.picked # None =>
          /\ pc' = "process" => GapScaled + SlackScaled >= PeriodScaled
          /\ pc' = "read"    => GapScaled < PeriodScaled + SlackScaled]_vars

\* A run that ends as if its media had ended has read all the frames the file
\* declares (worker.py 253: "local media ended before its declared frame
\* count"), in this run and not an earlier one, and has given the sink every
\* frame picked.
CleanEndIsComplete ==
    outcome = "eof" =>
       /\ ~media.camera
       /\ media.declared # None => seen.frames * One >= media.declared
       /\ emitted = seen.picks

\* Over all the runs of a pipeline the events are numbered 0, 1, 2, ... and no
\* two share an event_id or a nonce, whatever failed in between and whatever
\* the factories return (worker.py 278-279).
EventsAreNamedOnce ==
    \A i \in DOMAIN names :
       /\ names[i].seq = i - 1
       /\ \A j \in 1 .. i - 1 : names[i].id # names[j].id /\ names[i].nonce # names[j].nonce

\* An event shows the frame: each row of the model at or above the threshold,
\* in order and once, with the confidence, class and track of that row, its box
\* inside the frame, not empty, and where the model saw it to within the rounding
\* of one division; no row is bad.
EventShowsTheFrame ==
    event # None =>
       LET shown    == {i \in DOMAIN event.raw : AboveThreshold(event.raw[i])}
           place(i) == Cardinality(shown \cap 1 .. i)
       IN  /\ Len(event.detections) = Cardinality(shown)
           /\ \A i \in DOMAIN event.raw : RowAccepted(event.raw[i])
           /\ \A i \in shown :
                LET d == event.detections[place(i)]  row == event.raw[i] IN
                  d.confidence = row.confidence /\ d.class = row.class /\ d.track = row.track
           /\ \A i \in shown :
                LET d == event.detections[place(i)].box  b == event.raw[i].box IN
                  /\ 0 <= d[1] /\ d[1] < d[3] /\ d[3] <= One
                  /\ 0 <= d[2] /\ d[2] < d[4] /\ d[4] <= One
                  /\ \A k \in 1 .. 4 :
                       \/ d[k] = 0 /\ b[k] <= 0
                       \/ d[k] = One /\ b[k] >= Size[k] * One
                       \/ /\ 2 * (d[k] * Size[k] - b[k]) <= Ulp[d[k]] * Size[k]
                          /\ 2 * (b[k] - d[k] * Size[k]) <= Ulp[d[k]] * Size[k]
=============================================================================

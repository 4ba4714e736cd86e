---------------------------- MODULE DetectionResults ----------------------------
(***************************************************************************)
(* The detector boundary: how secureedge/vision.py turns what the YOLO     *)
(* model returned for one frame into the detections of an event, or        *)
(* refuses all of it.                                                      *)
(*                                                                         *)
(* A raw row is [box, confidence, class, track]; box is <<x0, y0, x1, y1>> *)
(* in pixels.  A number that is not finite, or not a number, is NaN.       *)
(***************************************************************************)
EXTENDS SmallFloats, Sequences

CONSTANTS
    Width, Height,  \* of the frame, in pixels
    Threshold,      \* VisionSettings.confidence
    Named,          \* the class IDs that have a name
    NaN,
    None,           \* no track ID
    Malformed,      \* no frame, an exception, wrong shapes or lengths
    Refused         \* VisionError

ASSUME DetectionAssumption ==
    /\ Width \in Nat \ {0} /\ Height \in Nat \ {0}
    /\ Threshold \in 0 .. One
    /\ Named \subseteq Nat

Numbers == Int \cup {NaN}

Rows == [box : [1 .. 4 -> Numbers], confidence : Numbers, class : Numbers, track : Numbers \cup {None}]

Size == <<Width, Height, Width, Height>>

Clip(q, size) == IF q < 0 THEN 0 ELSE IF q > size * One THEN size * One ELSE q

Clipped(box) == [i \in 1 .. 4 |-> Clip(box[i], Size[i])]

Ordered(box) == box[1] < box[3] /\ box[2] < box[4]

BoxAccepted(box) == /\ \A i \in 1 .. 4 : box[i] # NaN
                    /\ Ordered(box)
                    /\ Ordered(Clipped(box))

\* There is one result, and it has boxes, confidences and classes for each row.
WellFormed(raw) == raw # Malformed

\* Every row is judged, before its confidence is compared with the threshold.
RowAccepted(row) == /\ row.confidence # NaN /\ row.confidence \in 0 .. One
                    /\ row.class \in Named
                    /\ BoxAccepted(row.box)
                    /\ row.track \in Nat \cup {None}

Normalize(box) == [i \in 1 .. 4 |-> Quotient(Clipped(box)[i], Size[i])]

DetectionOf(row) == [box |-> Normalize(row.box), confidence |-> row.confidence,
                     class |-> row.class, track |-> row.track]

\* The Detection model: two edges that were apart may have been rounded to one.
Contract(d) == /\ \A i \in 1 .. 4 : d.box[i] \in 0 .. One
               /\ Ordered(d.box)

AboveThreshold(row) == row.confidence >= Threshold

\* The detections made of the first rows, as many as the argument says.
Found(raw) ==
    LET found[n \in 0 .. Len(raw)] ==
            IF n = 0 THEN <<>>
            ELSE IF AboveThreshold(raw[n])
                 THEN Append(found[n - 1], DetectionOf(raw[n]))
                 ELSE found[n - 1]
    IN  found

\* Mutant: a row that is not accepted is left out.
ConvertSkips(raw) ==
    IF ~WellFormed(raw) THEN Refused
    ELSE Found(SelectSeq(raw, RowAccepted))[Len(SelectSeq(raw, RowAccepted))]

\* infer: one bad row, above the threshold or below, refuses the frame.
Convert(raw) ==
    IF ~WellFormed(raw) \/ \E i \in DOMAIN raw : ~RowAccepted(raw[i]) THEN Refused
    ELSE LET found == Found(raw)[Len(raw)]
         IN  IF \A i \in DOMAIN found : Contract(found[i]) THEN found ELSE Refused
=============================================================================

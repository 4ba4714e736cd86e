----------------------------- MODULE MCFramePipeline -----------------------------
(***************************************************************************)
(* A small instance of FramePipeline for TLC.                              *)
(***************************************************************************)
EXTENDS FramePipeline

\* Cameras, files with and without a frame rate (which need not be whole), and a
\* count that is missing, whole, or a fraction.
MCMedia ==
    {[camera |-> TRUE, fps |-> None, declared |-> None]}
    \cup [camera : {FALSE}, fps : {None, 3 * One, (13 * One) \div 2},
          declared : {None, 2 * One, (5 * One) \div 2}]
    \cup [camera : {FALSE}, fps : {One \div 2, 5 * One, 6 * One, 10 * One}, declared : {None}]

\* Sample rates, one below 1 and one not whole.
MCRates == {One \div 2, (11 * One) \div 4, 5 * One, 7 * One}

Row(x0, x1, y0, y1, c) == [box |-> <<x0, y0, x1, y1>>, confidence |-> c,
                           class |-> 0, track |-> None]

\* Edges outside the frame, on its border and inside it, on a grid that the
\* width (13 pixels) and the height (3) do not divide.
Xs == {-One, 0, 7 * One, (15 * One) \div 2, 13 * One, 14 * One, NaN}
Ys == {-One, 0, One, 4 * One}

Good == Row(0, 7 * One, 0, One, One)
Low  == Row(One, 13 * One, One, 3 * One, Threshold - 1)

MCRaws ==
    {Malformed, <<>>, <<Good, Low>>, <<Low, Good>>, <<Good, [Good EXCEPT !.class = 1, !.track = 2]>>}
    \cup {<<Row(x0, x1, 0, One, c)>> : x0, x1 \in Xs, c \in {Threshold - 1, Threshold}}
    \cup {<<Row(0, One, y0, y1, Threshold)>> : y0, y1 \in Ys}
    \cup {<<Good, [Low EXCEPT !.class = 9]>>, <<Good, [Good EXCEPT !.track = -1]>>,
          <<[Low EXCEPT !.confidence = One + 1], Good>>}
=============================================================================

------------------------------ MODULE RequestBody ------------------------------
(***************************************************************************)
(* How the aggregator takes in the body of a POST request before anything  *)
(* else is done with it: _content_length and _read_bounded_body of         *)
(* apps/aggregator/api.py, and _bounded_limit, which judges the limit      *)
(* parameter of a GET request in the same way.                             *)
(*                                                                         *)
(* The declared length is compared with the maximum as a string of digits, *)
(* never as a number.  Then the chunks arrive one by one, until the client *)
(* ends the body or the connection breaks.                                 *)
(***************************************************************************)
EXTENDS Integers, Sequences, SequencesExt

CONSTANTS
    Maximum,  \* SecuritySettings.max_request_bytes, as a sequence of digits
    Headers,  \* Content-Length headers: sequences of digits and other characters,
              \* which are numbers above 9
    Sizes,    \* the sizes of chunks
    None      \* no header

Digits == 0 .. 9

ASSUME MaximumAssumption ==
    Maximum \in Seq(Digits) /\ Maximum # <<>> /\ Maximum[1] # 0

ASSUME InputAssumption ==
    Headers \subseteq Seq(Nat) /\ Sizes \subseteq Nat /\ None \notin Headers

VARIABLES
    header,    \* the raw header, or None
    phase,     \* where the reading is
    total,     \* the bytes that have arrived
    buffered,  \* the bytes the handler keeps
    answer     \* the status it answers with, "parsed" when it has none to give yet

vars == <<header, phase, total, buffered, answer>>

\* The numbers that the first digits of a sequence denote, and that all do.
Partial(d) ==
    LET n[i \in 0 .. Len(d)] == IF i = 0 THEN 0 ELSE 10 * n[i - 1] + d[i] IN n

Value(d) == Partial(d)[Len(d)]

\* str.isdecimal, which wants one digit at least.
IsDecimal(raw) == raw # <<>> /\ ToSet(raw) \subseteq Digits

\* raw.lstrip("0") or "0"
Normalized(raw) ==
    IF ToSet(raw) = {0} THEN <<0>>
    ELSE SubSeq(raw, SelectInSeq(raw, LAMBDA x : x # 0), Len(raw))

\* The order of strings of one length.
Greater(a, b) == \E i \in DOMAIN a : a[i] > b[i] /\ \A j \in 1 .. i - 1 : a[j] = b[j]

\* Mutant: the lengths are not compared.
ExceedsByOrder(raw, maximum) == Greater(Normalized(raw), maximum)

\* The comparison of _content_length and _bounded_limit.
Exceeds(raw, maximum) ==
    \/ Len(Normalized(raw)) > Len(maximum)
    \/ Len(Normalized(raw)) = Len(maximum) /\ Greater(Normalized(raw), maximum)

\* _bounded_limit refuses 0 besides; what it lets pass is the number itself.
LimitAccepted(raw, maximum) ==
    /\ IsDecimal(raw)
    /\ Normalized(raw) # <<0>>
    /\ ~Exceeds(raw, maximum)
-----------------------------------------------------------------------------
Init == /\ header \in Headers \cup {None}
        /\ phase = "header"
        /\ total = 0 /\ buffered = 0
        /\ answer = "none"

\* _RequestFailure: what was kept is dropped with the call.
Refuse(status) == phase' = "answered" /\ answer' = status /\ buffered' = 0

\* _content_length: no header will do; a header must be a number in bounds.
ReadHeader ==
    /\ phase = "header"
    /\ IF header = None THEN phase' = "body" /\ UNCHANGED <<buffered, answer>>
       ELSE IF ~IsDecimal(header) THEN Refuse("422")
       ELSE IF Exceeds(header, Maximum) THEN Refuse("413")
       ELSE phase' = "body" /\ UNCHANGED <<buffered, answer>>
    /\ UNCHANGED <<header, total>>

\* A chunk arrives: it is counted first, and kept if it is within the bound.
ReadChunk ==
    /\ phase = "body"
    /\ \E n \in Sizes :
          /\ total' = total + n
          /\ IF total' > Value(Maximum) THEN Refuse("413")
             ELSE buffered' = buffered + n /\ UNCHANGED <<phase, answer>>
    /\ UNCHANGED header

\* Mutant: the declared length is only an upper bound.
BodyEndsShort ==
    /\ phase = "body"
    /\ IF header # None /\ Value(header) < total THEN Refuse("422")
       ELSE phase' = "answered" /\ answer' = "parsed" /\ UNCHANGED buffered
    /\ UNCHANGED <<header, total>>

\* The body ends, and must have the length that was declared.
BodyEnds ==
    /\ phase = "body"
    /\ IF header # None /\ Value(header) # total THEN Refuse("422")
       ELSE phase' = "answered" /\ answer' = "parsed" /\ UNCHANGED buffered
    /\ UNCHANGED <<header, total>>

\* The connection breaks, or its server raises.
StreamFails == phase = "body" /\ Refuse("422") /\ UNCHANGED <<header, total>>

Next == ReadHeader \/ ReadChunk \/ BodyEnds \/ StreamFails

Spec == Init /\ [][Next]_vars
-----------------------------------------------------------------------------
\* The comparison of digit strings is the comparison of the numbers: a header is
\* refused as too large exactly when its value is, and a limit passes exactly
\* when it is a number from 1 to the maximum.
DigitsAreJudgedByValue ==
    /\ (phase = "body" /\ header # None) => Value(header) =< Value(Maximum)
    /\ (answer = "413" /\ total = 0) => Value(header) > Value(Maximum)
    /\ header # None =>
          (LimitAccepted(header, Maximum) <=>
              IsDecimal(header) /\ Value(header) \in 1 .. Value(Maximum))

\* What is parsed is all that arrived and all that was declared, within the
\* bound however the chunks are cut (docs/api.md 25-27).
ParsedIsWhole ==
    /\ buffered =< Value(Maximum)
    /\ answer = "parsed" => /\ buffered = total
                            /\ header # None => IsDecimal(header) /\ Value(header) = total
=============================================================================

----------------------------- MODULE MCIngestion -----------------------------
(***************************************************************************)
(* Small instances of Ingestion for TLC.                                   *)
(***************************************************************************)
EXTENDS Ingestion, TLC

Event(n, i, x, t) == [node |-> n, event_id |-> i, nonce |-> x, timestamp |-> t]

First  == Event("n1", "i1", "x1", 2)
Reused == Event("n1", "i1", "x2", 3)   \* a later event of the same ID
Ghost  == Event("n9", "i1", "x1", 2)   \* of a node that is not registered
Broken == Event("n2", "i1", "x1", 2)   \* of a node whose stored key is bad

MCRegistry  == "n1" :> "k1" @@ "n2" :> "bad"
MCEvents    == {First, Reused, Ghost, Broken}
Signed(e)   == [event |-> e, signer |-> "k1"]
Forged(e)   == [event |-> e, signer |-> "k9"]

\* Honest, forged and unknown senders; a single honest one and its forger.
MCEnvelopes == {Signed(First), Forged(First), Signed(Reused), Signed(Ghost), Signed(Broken)}
MCHonest    == {Signed(First)}

RequestSymmetry == Permutations(Requests)
=============================================================================

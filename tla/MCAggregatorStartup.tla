-------------------------- MODULE MCAggregatorStartup --------------------------
(***************************************************************************)
(* Small instances of AggregatorStartup for TLC.                           *)
(***************************************************************************)
EXTENDS AggregatorStartup, TLC

CONSTANTS s1, s2, s3, s4

\* Two starts that share a node and agree, one that contradicts the first, and
\* one whose options contradict one another.
MCBatchOf == s1 :> {<<"n1", "k1">>, <<"n2", "k2">>}
          @@ s2 :> {<<"n1", "k1">>}
          @@ s3 :> {<<"n2", "k9">>, <<"n3", "k3">>}
          @@ s4 :> {<<"n3", "k3">>, <<"n3", "k9">>}

\* Two of the tables, with their indexes.
MCDdl == <<[table |-> "nodes", kind |-> "table"],
           [table |-> "nodes", kind |-> "indexes"],
           [table |-> "detection_events", kind |-> "table"],
           [table |-> "detection_events", kind |-> "indexes"]>>
=============================================================================

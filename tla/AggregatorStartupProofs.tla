------------------------ MODULE AggregatorStartupProofs ------------------------
(***************************************************************************)
(* What the starts of the aggregator guarantee for every set of starts,    *)
(* every batch of node keys and every list of tables, however they race,   *)
(* fail or die.                                                            *)
(***************************************************************************)
EXTENDS AggregatorStartup, TLAPS

Labels == {"inspect", "plan", "create", "verify", "seed", "insert", "commit",
           "serving", "refused", "beaten", "failed", "dead"}

\* Every <<node, key>> pair that some start was given, and their keys.
Pairs == UNION {BatchOf[p] : p \in Starts}
Keys  == {x[2] : x \in Pairs}

\* The variables that are functions are functions.
Functional ==
    /\ rows \in [Nodes -> Keys \cup {None}]
    /\ pc \in [Starts -> Labels]
    /\ todo \in [Starts -> SUBSET DOMAIN Ddl]
    /\ adding \in [Starts -> SUBSET Pairs]

\* Only a start that has found the schema complete goes near the registry.
OnTheSchema ==
    \A p \in Starts : pc[p] \in {"seed", "insert", "commit", "serving"} => schema = ToSet(Ddl)

\* A start inserts a batch that does not contradict itself, and what it does
\* not insert is there.
BatchIsSound ==
    \A p \in Starts : pc[p] \in {"insert", "commit"} =>
       /\ adding[p] # {}
       /\ ~Contradictory(BatchOf[p])
       /\ \A x \in BatchOf[p] \ adding[p] : rows[x[1]] = x[2]

\* What the writer is about to commit is still news.
CommitsNews == \A p \in Starts : pc[p] = "commit" => \A x \in adding[p] : rows[x[1]] = None

\* The inductive invariant of the registry.
SeedInv == /\ Functional
           /\ TypeOK
           /\ OnTheSchema
           /\ BatchIsSound
           /\ CommitsNews
           /\ ServingIsReady
-----------------------------------------------------------------------------
\* A pair of a batch is a pair: its node is one of Nodes and its key a key.
LEMMA PairsArePairs ==
    ASSUME NEW p \in Starts, NEW x \in BatchOf[p]
    PROVE  /\ x \in Pairs
           /\ x = <<x[1], x[2]>> /\ x[1] \in Nodes /\ x[2] \in Keys /\ x[2] # None
  BY StartupAssumption DEF Pairs, Keys

\* What the registry is with the batch of a sound start.
LEMMA WithAdds ==
    ASSUME Functional, NEW p \in Starts, adding[p] \subseteq BatchOf[p],
           ~Contradictory(BatchOf[p])
    PROVE  /\ With(p) \in [Nodes -> Keys \cup {None}]
           /\ \A x \in adding[p] : With(p)[x[1]] = x[2]
           /\ \A n \in Nodes : (\A x \in adding[p] : x[1] # n) => With(p)[n] = rows[n]
  <1>1. ASSUME NEW x \in adding[p]
        PROVE  With(p)[x[1]] = x[2]
    <2> DEFINE y == CHOOSE z \in adding[p] : z[1] = x[1]
    <2>1. y \in adding[p] /\ y[1] = x[1]
      OBVIOUS
    <2>2. y[2] = x[2]
      BY <2>1 DEF Contradictory
    <2>3. x[1] \in Nodes
      BY PairsArePairs
    <2> QED
      BY <2>2, <2>3 DEF With
  <1>2. ASSUME NEW n \in Nodes, \A x \in adding[p] : x[1] # n
        PROVE  With(p)[n] = rows[n]
    BY <1>2 DEF With
  <1>3. ASSUME NEW n \in Nodes
        PROVE  With(p)[n] \in Keys \cup {None}
    <2>1. CASE \E x \in adding[p] : x[1] = n
      BY <1>1, <2>1, PairsArePairs
    <2>2. CASE \A x \in adding[p] : x[1] # n
      BY <1>2, <2>2 DEF Functional
    <2> QED
      BY <2>1, <2>2
  <1> QED
    BY <1>1, <1>2, <1>3 DEF With

\* A step either leaves the registry alone or adds to it the batch of the start
\* that is committing.
LEMMA RowsAreAdded ==
    ASSUME [Next]_vars
    PROVE  UNCHANGED rows \/ \E p \in Starts : pc[p] = "commit" /\ rows' = With(p)
  <1>1. ASSUME NEW p \in Starts,
               \/ Inspect(p) \/ Plan(p) \/ Create(p) \/ Created(p) \/ Verify(p)
               \/ Select(p) \/ Insert(p) \/ Dies(p)
        PROVE  UNCHANGED rows
    BY <1>1 DEF Inspect, Plan, Create, Created, Verify, Select, Insert, Dies
  <1>2. ASSUME NEW p \in Starts, Commit(p) \/ Fails(p)
        PROVE  UNCHANGED rows \/ (pc[p] = "commit" /\ rows' = With(p))
    BY <1>2 DEF Commit, Fails
  <1>3. CASE UNCHANGED vars
    BY <1>3 DEF vars
  <1> QED
    BY <1>1, <1>2, <1>3 DEF Next

\* A registered key stays, and a new one is a key of some batch.
LEMMA KeysStay ==
    ASSUME SeedInv, [Next]_vars
    PROVE  /\ rows' \in [Nodes -> Keys \cup {None}]
           /\ \A n \in Nodes : rows[n] # None => rows'[n] = rows[n]
           /\ \A n \in Nodes : rows'[n] # None =>
                 \E p \in Starts : <<n, rows'[n]>> \in BatchOf[p]
  <1>1. CASE UNCHANGED rows
    BY <1>1 DEF SeedInv, TypeOK, Functional
  <1>2. ASSUME NEW p \in Starts, pc[p] = "commit", rows' = With(p)
        PROVE  /\ rows' \in [Nodes -> Keys \cup {None}]
               /\ \A n \in Nodes : rows[n] # None => rows'[n] = rows[n]
               /\ \A n \in Nodes : rows'[n] # None =>
                     \E q \in Starts : <<n, rows'[n]>> \in BatchOf[q]
    <2>1. /\ adding[p] \subseteq BatchOf[p] /\ ~Contradictory(BatchOf[p]) /\ Functional
          /\ \A x \in adding[p] : rows[x[1]] = None
      BY <1>2 DEF SeedInv, TypeOK, BatchIsSound, CommitsNews
    <2>2. /\ rows' \in [Nodes -> Keys \cup {None}]
          /\ \A x \in adding[p] : rows'[x[1]] = x[2]
          /\ \A n \in Nodes : (\A x \in adding[p] : x[1] # n) => rows'[n] = rows[n]
      BY <1>2, <2>1, WithAdds
    <2>3. ASSUME NEW n \in Nodes, rows[n] # None
          PROVE  rows'[n] = rows[n]
      BY <2>1, <2>2, <2>3
    <2>4. ASSUME NEW n \in Nodes, rows'[n] # None
          PROVE  \E q \in Starts : <<n, rows'[n]>> \in BatchOf[q]
      <3>1. CASE \E x \in adding[p] : x[1] = n
        BY <2>1, <2>2, <3>1, PairsArePairs
      <3>2. CASE \A x \in adding[p] : x[1] # n
        BY <2>2, <2>4, <3>2 DEF SeedInv, TypeOK
      <3> QED
        BY <3>1, <3>2
    <2> QED
      BY <2>2, <2>3, <2>4
  <1> QED
    BY <1>1, <1>2, RowsAreAdded

\* A pair that is registered stays registered.
LEMMA PairsStay ==
    ASSUME SeedInv, [Next]_vars, NEW p \in Starts, NEW x \in BatchOf[p], rows[x[1]] = x[2]
    PROVE  rows'[x[1]] = x[2]
  BY KeysStay, PairsArePairs

\* The schema only grows, by statements of create_all.
LEMMA SchemaGrows ==
    ASSUME [Next]_vars, schema \subseteq ToSet(Ddl), Functional
    PROVE  schema \subseteq schema' /\ schema' \subseteq ToSet(Ddl)
  <1>1. ASSUME NEW p \in Starts, Create(p)
        PROVE  schema \subseteq schema' /\ schema' \subseteq ToSet(Ddl)
    BY <1>1 DEF Create, ToSet, Functional
  <1>2. ASSUME NEW p \in Starts,
               \/ Inspect(p) \/ Plan(p) \/ Created(p) \/ Verify(p)
               \/ Select(p) \/ Insert(p) \/ Commit(p) \/ Fails(p) \/ Dies(p)
        PROVE  UNCHANGED schema
    BY <1>2 DEF Inspect, Plan, Created, Verify, Select, Insert, Commit, Fails, Dies
  <1>3. CASE UNCHANGED vars
    BY <1>3 DEF vars
  <1> QED
    BY <1>1, <1>2, <1>3 DEF Next

\* The first state.
LEMMA SeedInit == Init => SeedInv
  <1> SUFFICES ASSUME Init PROVE SeedInv
    OBVIOUS
  <1>1. Functional /\ TypeOK
    BY StartupAssumption DEF Init, Functional, TypeOK, Labels
  <1>2. OnTheSchema /\ BatchIsSound /\ CommitsNews /\ ServingIsReady
    BY DEF Init, OnTheSchema, BatchIsSound, CommitsNews, ServingIsReady
  <1> QED
    BY <1>1, <1>2 DEF SeedInv

\* What every step keeps of a start that stays where it is.
LEMMA OthersAreKept ==
    ASSUME SeedInv, [Next]_vars, NEW q \in Starts, UNCHANGED <<pc[q], adding[q]>>
    PROVE  /\ pc[q] \in {"seed", "insert", "commit", "serving"} => schema' = ToSet(Ddl)
           /\ pc[q] \in {"insert", "commit"} =>
                 /\ adding'[q] # {}
                 /\ ~Contradictory(BatchOf[q])
                 /\ \A x \in BatchOf[q] \ adding'[q] : rows'[x[1]] = x[2]
           /\ pc[q] = "serving" => \A b \in BatchOf[q] : rows'[b[1]] = b[2]
  <1>1. schema \subseteq schema' /\ schema' \subseteq ToSet(Ddl)
    BY SchemaGrows DEF SeedInv, TypeOK
  <1>2. pc[q] \in {"seed", "insert", "commit", "serving"} => schema' = ToSet(Ddl)
    BY <1>1 DEF SeedInv, OnTheSchema
  <1>3. \A x \in BatchOf[q] : rows[x[1]] = x[2] => rows'[x[1]] = x[2]
    BY PairsStay
  <1> QED
    BY <1>2, <1>3 DEF SeedInv, BatchIsSound, ServingIsReady

\* Every step keeps the invariant.
LEMMA NextKeepsSeed ==
    ASSUME SeedInv, [Next]_vars
    PROVE  SeedInv'
  <1> USE DEF SeedInv, Functional, TypeOK, OnTheSchema, BatchIsSound, CommitsNews,
          ServingIsReady, Labels, Goto
  <1>0. /\ schema \subseteq schema' /\ schema' \subseteq ToSet(Ddl)
        /\ rows' \in [Nodes -> Keys \cup {None}]
        /\ \A n \in Nodes : rows[n] # None => rows'[n] = rows[n]
        /\ \A n \in Nodes : rows'[n] # None =>
              \E p \in Starts : <<n, rows'[n]>> \in BatchOf[p]
    BY SchemaGrows, KeysStay
  <1>1. ASSUME NEW p \in Starts, Inspect(p)
        PROVE  SeedInv'
    BY <1>0, <1>1 DEF Inspect
  <1>2. ASSUME NEW p \in Starts, Plan(p)
        PROVE  SeedInv'
    BY <1>0, <1>2 DEF Plan
  <1>3. ASSUME NEW p \in Starts, Create(p)
        PROVE  SeedInv'
    BY <1>0, <1>3 DEF Create
  <1>4. ASSUME NEW p \in Starts, Created(p)
        PROVE  SeedInv'
    BY <1>0, <1>4 DEF Created
  <1>5. ASSUME NEW p \in Starts, Verify(p)
        PROVE  SeedInv'
    BY <1>0, <1>5 DEF Verify
  <1>6. ASSUME NEW p \in Starts, Select(p)
        PROVE  SeedInv'
    BY <1>0, <1>6, PairsArePairs DEF Select, Conflict
  <1>7. ASSUME NEW p \in Starts, Insert(p)
        PROVE  SeedInv'
    BY <1>0, <1>7, StartupAssumption DEF Insert
  <1>8. ASSUME NEW p \in Starts, Commit(p)
        PROVE  SeedInv'
    BY <1>0, <1>8, WithAdds, OthersAreKept, StartupAssumption DEF Commit
  <1>9. ASSUME NEW p \in Starts, Fails(p)
        PROVE  SeedInv'
    BY <1>0, <1>9, OthersAreKept, StartupAssumption DEF Fails, Release, Ended
  <1>10. ASSUME NEW p \in Starts, Dies(p)
        PROVE  SeedInv'
    BY <1>0, <1>10, StartupAssumption DEF Dies, Release
  <1>11. CASE UNCHANGED vars
    BY <1>11 DEF vars
  <1> QED
    BY <1>1, <1>2, <1>3, <1>4, <1>5, <1>6, <1>7, <1>8, <1>9, <1>10, <1>11 DEF Next

\* The inductive invariant holds in every behaviour.
THEOREM SeedInvariance == Spec => []SeedInv
  BY SeedInit, NextKeepsSeed, PTL DEF Spec

\* The state keeps its shape, and one start at a time is writing.
THEOREM TypeCorrect == Spec => []TypeOK
  <1>1. SeedInv => TypeOK
    BY DEF SeedInv
  <1> QED
    BY <1>1, SeedInvariance, PTL

\* An aggregator that serves does so on the exact schema, with every node it
\* was started with registered under the key it was given.
THEOREM ReadyToServe == Spec => []ServingIsReady
  <1>1. SeedInv => ServingIsReady
    BY DEF SeedInv
  <1> QED
    BY <1>1, SeedInvariance, PTL
-----------------------------------------------------------------------------
\* What the starts have come to, as NodeRegistry sees it.
Verdicts == [p \in Starts |-> VerdictOf(p)]

\* A start that moves changes its own verdict only.
LEMMA VerdictMoves ==
    ASSUME pc \in [Starts -> Labels], NEW p \in Starts, NEW l \in Labels, Goto(p, l)
    PROVE  /\ l = "serving" => Verdicts' = [Verdicts EXCEPT ![p] = "seeded"]
           /\ l \in {"refused", "beaten"} => Verdicts' = [Verdicts EXCEPT ![p] = "refused"]
           /\ l \in {"failed", "dead"} => Verdicts' = [Verdicts EXCEPT ![p] = "ended"]
           /\ ~Ended(p) /\ l \notin {"serving", "refused", "beaten", "failed", "dead"} =>
                 Verdicts' = Verdicts
  <1>1. /\ pc'[p] = l
        /\ \A q \in Starts \ {p} : VerdictOf(q)' = VerdictOf(q)
    BY DEF Goto, VerdictOf
  <1> QED
    BY <1>1 DEF Goto, Verdicts, VerdictOf, Ended, Labels

\* A start that has not ended has no verdict; one that is alive may end.
LEMMA VerdictIs ==
    ASSUME NEW p \in Starts
    PROVE  /\ ~Ended(p) => Verdicts[p] = "running"
           /\ pc[p] = "serving" => Verdicts[p] = "seeded"
  BY DEF Ended, Verdicts, VerdictOf

\* The registry has a name of its own for a batch and its conflicts.
LEMMA SameWords ==
    /\ \A p \in Starts : Registry!Contradictory(BatchOf[p]) <=> Contradictory(BatchOf[p])
    /\ \A p \in Starts : Registry!Conflict(BatchOf[p]) <=> Conflict(BatchOf[p])
  BY DEF Registry!Contradictory, Registry!Conflict, Contradictory, Conflict

\* The commit of a start registers its whole batch: what it leaves out is there.
LEMMA CommitIsWhole ==
    ASSUME SeedInv, NEW p \in Starts, pc[p] = "commit"
    PROVE  /\ ~Conflict(BatchOf[p])
           /\ With(p) = [n \in Nodes |-> IF \E x \in BatchOf[p] : x[1] = n
                                         THEN (CHOOSE x \in BatchOf[p] : x[1] = n)[2]
                                         ELSE rows[n]]
  <1>1. /\ adding[p] \subseteq BatchOf[p] /\ ~Contradictory(BatchOf[p]) /\ Functional
        /\ \A x \in adding[p] : rows[x[1]] = None
        /\ \A x \in BatchOf[p] \ adding[p] : rows[x[1]] = x[2]
    BY DEF SeedInv, TypeOK, BatchIsSound, CommitsNews
  <1>2. ~Conflict(BatchOf[p])
    BY <1>1 DEF Conflict
  <1>3. ASSUME NEW n \in Nodes, NEW x \in BatchOf[p], x[1] = n
        PROVE  With(p)[n] = x[2]
    <2>1. CASE \E y \in adding[p] : y[1] = n
      <3>1. PICK y \in adding[p] : y[1] = n
        BY <2>1
      <3>2. With(p)[n] = y[2]
        BY <1>1, <3>1, WithAdds
      <3>3. y[2] = x[2]
        BY <1>1, <1>3, <3>1 DEF Contradictory
      <3> QED
        BY <3>2, <3>3
    <2>2. CASE \A y \in adding[p] : y[1] # n
      <3>1. With(p)[n] = rows[n]
        BY <1>1, <2>2, WithAdds
      <3>2. x \notin adding[p]
        BY <1>3, <2>2
      <3> QED
        BY <1>1, <1>3, <3>1, <3>2
    <2> QED
      BY <2>1, <2>2
  <1>4. ASSUME NEW n \in Nodes
        PROVE  With(p)[n] = IF \E x \in BatchOf[p] : x[1] = n
                            THEN (CHOOSE x \in BatchOf[p] : x[1] = n)[2]
                            ELSE rows[n]
    <2>1. CASE \E x \in BatchOf[p] : x[1] = n
      <3> DEFINE y == CHOOSE x \in BatchOf[p] : x[1] = n
      <3>1. y \in BatchOf[p] /\ y[1] = n
        BY <2>1
      <3>2. With(p)[n] = y[2]
        BY <1>3, <3>1
      <3> QED
        BY <2>1, <3>2
    <2>2. CASE \A x \in BatchOf[p] : x[1] # n
      <3>1. \A x \in adding[p] : x[1] # n
        BY <1>1, <2>2
      <3>2. With(p)[n] = rows[n]
        BY <1>1, <3>1, WithAdds
      <3> QED
        BY <2>2, <3>2
    <2> QED
      BY <2>1, <2>2
  <1> QED
    BY <1>2, <1>4 DEF With

\* A step of the registry: p comes to a verdict.
LEMMA RefuseStep ==
    ASSUME NEW p \in Starts, ~Ended(p), UNCHANGED rows,
           Verdicts' = [Verdicts EXCEPT ![p] = "refused"]
    PROVE  Registry!Next
  <1>1. Registry!Refuse(p)
    BY VerdictIs DEF Registry!Refuse, Registry!Conclude, Verdicts
  <1> QED
    BY <1>1 DEF Registry!Next

\* The process of p ends, before its verdict or after it has served.
LEMMA EndStep ==
    ASSUME NEW p \in Starts, ~Ended(p) \/ pc[p] = "serving", UNCHANGED rows,
           Verdicts' = [Verdicts EXCEPT ![p] = "ended"]
    PROVE  Registry!Next
  <1>1. Registry!End(p)
    BY VerdictIs DEF Registry!End, Verdicts
  <1> QED
    BY <1>1 DEF Registry!Next

\* A commit, or a COMMIT that raises and has taken effect.
LEMMA SeedStep ==
    ASSUME SeedInv, NEW p \in Starts, pc[p] = "commit", rows' = With(p),
           NEW v \in {"seeded", "ended"},
           Verdicts' = [Verdicts EXCEPT ![p] = v]
    PROVE  Registry!Next
  <1>1. ~Registry!Contradictory(BatchOf[p]) /\ ~Registry!Conflict(BatchOf[p])
    BY CommitIsWhole, SameWords DEF SeedInv, BatchIsSound
  <1>2. rows' = [n \in Nodes |-> IF \E x \in BatchOf[p] : x[1] = n
                                 THEN (CHOOSE x \in BatchOf[p] : x[1] = n)[2]
                                 ELSE rows[n]]
    BY CommitIsWhole
  <1>3. Registry!Conclude(p, v)
    BY VerdictIs DEF Registry!Conclude, Ended, Verdicts
  <1>4. Registry!Seed(p)
    BY <1>1, <1>2, <1>3 DEF Registry!Seed
  <1> QED
    BY <1>4 DEF Registry!Next

\* A start that finds its whole batch registered serves without writing: to the
\* registry, that is a batch that changes nothing.
LEMMA NothingToAdd ==
    ASSUME SeedInv, NEW p \in Starts, pc[p] = "seed",
           ~Contradictory(BatchOf[p]), ~Conflict(BatchOf[p]),
           \A x \in BatchOf[p] : rows[x[1]] # None,
           UNCHANGED rows, Verdicts' = [Verdicts EXCEPT ![p] = "seeded"]
    PROVE  Registry!Next
  <1>1. ~Registry!Contradictory(BatchOf[p]) /\ ~Registry!Conflict(BatchOf[p])
    BY SameWords
  <1>2. \A x \in BatchOf[p] : rows[x[1]] = x[2]
    BY DEF Conflict
  <1>3. ASSUME NEW n \in Nodes
        PROVE  rows[n] = IF \E x \in BatchOf[p] : x[1] = n
                         THEN (CHOOSE x \in BatchOf[p] : x[1] = n)[2]
                         ELSE rows[n]
    <2> DEFINE y == CHOOSE x \in BatchOf[p] : x[1] = n
    <2>1. (\E x \in BatchOf[p] : x[1] = n) => y \in BatchOf[p] /\ y[1] = n
      OBVIOUS
    <2> QED
      BY <1>2, <2>1
  <1>4. rows = [n \in Nodes |-> rows[n]]
    BY DEF SeedInv, Functional
  <1>5. rows' = [n \in Nodes |-> IF \E x \in BatchOf[p] : x[1] = n
                                 THEN (CHOOSE x \in BatchOf[p] : x[1] = n)[2]
                                 ELSE rows[n]]
    BY <1>3, <1>4
  <1>6. Registry!Conclude(p, "seeded")
    BY VerdictIs DEF Registry!Conclude, Ended, Verdicts
  <1>7. Registry!Seed(p)
    BY <1>1, <1>5, <1>6 DEF Registry!Seed
  <1> QED
    BY <1>7 DEF Registry!Next

\* Every step of a start is a step of the registry, or none.
LEMMA RegistrySteps ==
    ASSUME SeedInv, [Next]_vars
    PROVE  [Registry!Next]_<<rows, Verdicts>>
  <1>0. pc \in [Starts -> Labels]
    BY DEF SeedInv, Functional
  <1>1. ASSUME NEW p \in Starts, Inspect(p) \/ Verify(p)
        PROVE  [Registry!Next]_<<rows, Verdicts>>
    <2>1. /\ ~Ended(p) /\ UNCHANGED rows
          /\ \E l \in {"plan", "verify", "seed", "refused"} : Goto(p, l)
      BY <1>1 DEF Inspect, Verify, Ended
    <2>2. UNCHANGED Verdicts \/ Verdicts' = [Verdicts EXCEPT ![p] = "refused"]
      BY <1>0, <2>1, VerdictMoves DEF Labels
    <2> QED
      BY <2>1, <2>2, RefuseStep
  <1>2. ASSUME NEW p \in Starts, Plan(p) \/ Created(p)
        PROVE  [Registry!Next]_<<rows, Verdicts>>
    <2>1. ~Ended(p) /\ UNCHANGED rows /\ \E l \in {"create", "verify"} : Goto(p, l)
      BY <1>2 DEF Plan, Created, Ended
    <2> QED
      BY <1>0, <2>1, VerdictMoves DEF Labels
  <1>3. ASSUME NEW p \in Starts, Create(p) \/ Insert(p)
        PROVE  [Registry!Next]_<<rows, Verdicts>>
    <2>1. /\ ~Ended(p) /\ UNCHANGED rows
          /\ UNCHANGED pc \/ Goto(p, "commit") \/ Goto(p, "beaten")
      BY <1>3 DEF Create, Insert, Ended
    <2>2. UNCHANGED pc => UNCHANGED Verdicts
      BY DEF Verdicts, VerdictOf
    <2>3. UNCHANGED Verdicts \/ Verdicts' = [Verdicts EXCEPT ![p] = "refused"]
      BY <1>0, <2>1, <2>2, VerdictMoves DEF Labels
    <2> QED
      BY <2>1, <2>3, RefuseStep
  <1>4. ASSUME NEW p \in Starts, Select(p)
        PROVE  [Registry!Next]_<<rows, Verdicts>>
    <2>1. ~Ended(p) /\ pc[p] = "seed" /\ UNCHANGED rows
      BY <1>4 DEF Select, Ended
    <2>2. CASE Contradictory(BatchOf[p]) \/ Conflict(BatchOf[p])
      <3>1. Goto(p, "refused")
        BY <1>4, <2>2 DEF Select
      <3>2. Verdicts' = [Verdicts EXCEPT ![p] = "refused"]
        BY <1>0, <3>1, VerdictMoves DEF Labels
      <3> QED
        BY <2>1, <3>2, RefuseStep
    <2>3. CASE ~Contradictory(BatchOf[p]) /\ ~Conflict(BatchOf[p]) /\ adding'[p] = {}
      <3>1. Goto(p, "serving")
        BY <1>4, <2>3 DEF Select
      <3>2. Verdicts' = [Verdicts EXCEPT ![p] = "seeded"]
        BY <1>0, <3>1, VerdictMoves DEF Labels
      <3>3. \A x \in BatchOf[p] : rows[x[1]] # None
        BY <1>4, <2>3 DEF Select, SeedInv, Functional
      <3> QED
        BY <2>1, <2>3, <3>2, <3>3, NothingToAdd
    <2>4. CASE ~Contradictory(BatchOf[p]) /\ ~Conflict(BatchOf[p]) /\ adding'[p] # {}
      <3>1. Goto(p, "insert")
        BY <1>4, <2>4 DEF Select
      <3>2. UNCHANGED Verdicts
        BY <1>0, <2>1, <3>1, VerdictMoves DEF Labels
      <3> QED
        BY <2>1, <3>2
    <2> QED
      BY <2>2, <2>3, <2>4
  <1>5. ASSUME NEW p \in Starts, Commit(p)
        PROVE  [Registry!Next]_<<rows, Verdicts>>
    <2>1. pc[p] = "commit" /\ rows' = With(p) /\ Goto(p, "serving")
      BY <1>5 DEF Commit
    <2>2. Verdicts' = [Verdicts EXCEPT ![p] = "seeded"]
      BY <1>0, <2>1, VerdictMoves DEF Labels
    <2> QED
      BY <2>1, <2>2, SeedStep
  <1>6. ASSUME NEW p \in Starts, Fails(p)
        PROVE  [Registry!Next]_<<rows, Verdicts>>
    <2>1. /\ ~Ended(p) /\ Goto(p, "failed")
          /\ rows' = rows \/ (pc[p] = "commit" /\ rows' = With(p))
      BY <1>6 DEF Fails
    <2>2. Verdicts' = [Verdicts EXCEPT ![p] = "ended"]
      BY <1>0, <2>1, VerdictMoves DEF Labels
    <2> QED
      BY <2>1, <2>2, EndStep, SeedStep
  <1>7. ASSUME NEW p \in Starts, Dies(p)
        PROVE  [Registry!Next]_<<rows, Verdicts>>
    <2>1. /\ ~Ended(p) \/ pc[p] = "serving"
          /\ Goto(p, "dead") /\ UNCHANGED rows
      BY <1>7 DEF Dies, Ended
    <2>2. Verdicts' = [Verdicts EXCEPT ![p] = "ended"]
      BY <1>0, <2>1, VerdictMoves DEF Labels
    <2> QED
      BY <2>1, <2>2, EndStep
  <1>8. CASE UNCHANGED vars
    BY <1>8 DEF vars, Verdicts, VerdictOf
  <1> QED
    BY <1>1, <1>2, <1>3, <1>4, <1>5, <1>6, <1>7, <1>8 DEF Next

\* Starts that race, fail and die implement the registry: keys are added and
\* never replaced, by whole batches, and a start that is refused adds nothing.
THEOREM ImplementsTheRegistry == Spec => ImplementsRegistry
  <1>1. Init => Registry!Init
    BY DEF Init, Registry!Init, VerdictOf
  <1>2. SeedInv /\ [Next]_vars => [Registry!Next]_<<rows, Verdicts>>
    BY RegistrySteps
  <1> QED
    BY <1>1, <1>2, SeedInvariance, PTL DEF Spec, ImplementsRegistry, Registry!Spec, Verdicts
-----------------------------------------------------------------------------
\* The schema race, on the indices of the statements.  Own(i) is the statement
\* that creates the table of statement i.
Indices == DOMAIN Ddl
Own(i)  == CHOOSE j \in 1 .. i :
              /\ Ddl[j].kind = "table"
              /\ \A k \in j .. i : Ddl[k].table = Ddl[i].table
Here(i) == Ddl[i] \in schema

\* What create_all makes of its tables: it takes one after another.
LEMMA OwnIs ==
    /\ \A i \in Indices : i \in Nat \ {0} /\ \A k \in 1 .. i : k \in Indices
    /\ \A i \in Indices : /\ Own(i) \in Indices /\ Own(i) \in Nat
                          /\ Own(i) =< i /\ Own(Own(i)) = Own(i)
    /\ \A i, k \in Indices : i =< k => Own(i) =< Own(k)
  <1>1. \A i \in Indices : i \in Nat \ {0} /\ \A k \in 1 .. i : k \in Indices
    BY DdlAssumption DEF Indices
  <1>2. ASSUME NEW i \in Indices
        PROVE  /\ Own(i) \in 1 .. i
               /\ Ddl[Own(i)].kind = "table"
               /\ \A k \in Own(i) .. i : Ddl[k].table = Ddl[i].table
    BY DdlAssumption DEF Indices, Own
  <1>3. ASSUME NEW i \in Indices, NEW k \in Indices,
               Ddl[i].kind = "table", Ddl[k].kind = "table", Ddl[i].table = Ddl[k].table
        PROVE  i = k
    BY <1>3, DdlAssumption DEF Indices
  <1>4. ASSUME NEW i \in Indices
        PROVE  Own(i) \in Indices /\ Own(i) =< i /\ Own(Own(i)) = Own(i)
    <2>1. Own(i) \in Indices /\ Own(i) \in 1 .. i
      BY <1>1, <1>2
    <2>2. Own(Own(i)) \in Indices /\ Own(Own(i)) \in 1 .. Own(i)
      BY <1>1, <1>2, <2>1
    <2>3. Ddl[Own(Own(i))].table = Ddl[Own(i)].table
      BY <1>2, <2>1, <2>2
    <2> QED
      BY <1>1, <1>2, <1>3, <2>1, <2>2, <2>3
  <1>5. ASSUME NEW i \in Indices, NEW k \in Indices, i =< k, Own(k) < Own(i)
        PROVE  FALSE
    <2>1. Own(i) \in Indices /\ Own(k) \in Indices /\ Own(i) \in Own(k) .. k
      BY <1>1, <1>4, <1>5
    <2>2. Ddl[Own(i)].table = Ddl[k].table
      BY <1>2, <2>1
    <2>3. Ddl[Own(k)].table = Ddl[k].table
      BY <1>1, <1>2, <1>4
    <2>4. Own(i) = Own(k)
      BY <1>2, <1>3, <2>1, <2>2, <2>3
    <2> QED
      BY <1>1, <1>5, <2>1, <2>4
  <1> QED
    BY <1>1, <1>4, <1>5

\* A table is there when the statement that creates it has taken effect.
LEMMA TableIsHere ==
    ASSUME schema \subseteq ToSet(Ddl), NEW i \in Indices
    PROVE  HasTable(Ddl[i].table) <=> Here(Own(i))
  <1>1. /\ Own(i) \in 1 .. i /\ Own(i) \in Indices /\ Ddl[Own(i)].kind = "table"
        /\ Ddl[Own(i)].table = Ddl[i].table
    BY OwnIs, DdlAssumption DEF Indices, Own
  <1>2. ASSUME NEW s \in schema, s.table = Ddl[i].table, s.kind = "table"
        PROVE  s = Ddl[Own(i)]
    <2>1. PICK k \in Indices : s = Ddl[k]
      BY DEF ToSet, Indices
    <2> QED
      BY <1>1, <1>2, <2>1, DdlAssumption DEF Indices
  <1> QED
    BY <1>1, <1>2 DEF HasTable, Here

Creating(p) == pc[p] = "create"

\* p will still execute statement i: nothing that comes before it for p is there.
OnDuty(p, i) == /\ Creating(p) /\ i \in todo[p]
                /\ \A j \in todo[p] : j =< i => ~Here(j)

\* The tables come into being in the order of create_all, each before its indexes.
TablesInOrder == \A i, k \in Indices : i =< k /\ Here(k) => Here(Own(i))

\* What a start leaves out has its table; a table it creates, it creates with
\* everything that belongs to it.
PlansAreWhole ==
    \A p \in Starts : Creating(p) =>
       \A i \in Indices : /\ i \notin todo[p] => Here(Own(i))
                          /\ Own(i) \in todo[p] => i \in todo[p]

\* Who has created a table creates its indexes alone.
OneOwner ==
    \A p, q \in Starts : Creating(p) /\ Creating(q) =>
       \A i \in todo[p] \cap todo[q] :
          Own(i) \notin todo[p] /\ Own(i) \notin todo[q] => p = q

\* Unless a start has failed or died, every statement is there or some start
\* will execute it.
Covered ==
    \/ \E p \in Starts : pc[p] \in {"failed", "dead"}
    \/ schema = {} /\ \E p \in Starts : pc[p] \in {"inspect", "plan"}
    \/ \A i \in Indices : Here(i) \/ \E p \in Starts : OnDuty(p, i)

\* The inductive invariant of the race.
RaceInv == TablesInOrder /\ PlansAreWhole /\ OneOwner /\ Covered

\* The first state: somebody has yet to look at the empty database.
LEMMA RaceInit == Init => RaceInv
  BY StartupAssumption DEF Init, RaceInv, TablesInOrder, PlansAreWhole, OneOwner, Covered,
     Creating, Here

\* A start plans: it takes the tables that are not there, whole.
LEMMA RacePlans ==
    ASSUME SeedInv, RaceInv, NEW p \in Starts, Plan(p)
    PROVE  RaceInv'
  <1>1. /\ UNCHANGED schema /\ pc' = [pc EXCEPT ![p] = "create"]
        /\ todo' = [todo EXCEPT ![p] = {i \in Indices : ~HasTable(Ddl[i].table)}]
        /\ pc \in [Starts -> Labels] /\ todo \in [Starts -> SUBSET Indices]
        /\ schema \subseteq ToSet(Ddl) /\ pc[p] = "plan"
    BY DEF Plan, Goto, SeedInv, TypeOK, Functional, Indices
  <1>2. \A i \in Indices : Here(i)' <=> Here(i)
    BY <1>1 DEF Here
  <1>3. \A i \in Indices : i \in todo'[p] <=> ~Here(Own(i))
    BY <1>1, TableIsHere
  <1>4. \A q \in Starts \ {p} : todo'[q] = todo[q] /\ (Creating(q)' <=> Creating(q))
    BY <1>1 DEF Creating
  <1>5. TablesInOrder'
    BY <1>2, OwnIs DEF RaceInv, TablesInOrder
  <1>6. PlansAreWhole'
    BY <1>1, <1>2, <1>3, <1>4, OwnIs DEF RaceInv, PlansAreWhole
  <1>7. OneOwner'
    <2>1. \A i \in todo'[p] : Own(i) \in todo'[p]
      BY <1>1, <1>3, OwnIs
    <2> QED
      BY <1>4, <2>1 DEF RaceInv, OneOwner
  <1>8. Covered'
    <2>1. CASE \E q \in Starts : pc[q] \in {"failed", "dead"}
      BY <1>1, <2>1 DEF Covered
    <2>2. CASE schema = {}
      <3>1. Creating(p)' /\ \A i \in Indices : ~Here(i)' /\ i \in todo'[p]
        BY <1>1, <1>2, <1>3, <2>2, OwnIs DEF Here, Creating
      <3>2. \A i \in Indices : OnDuty(p, i)'
        BY <1>1, <3>1 DEF OnDuty
      <3> QED
        BY <3>2 DEF Covered
    <2>3. CASE \A i \in Indices : Here(i) \/ \E q \in Starts : OnDuty(q, i)
      <3>1. ASSUME NEW q \in Starts, NEW i \in Indices, OnDuty(q, i)
            PROVE  OnDuty(q, i)'
        <4>1. q # p
          BY <1>1, <3>1 DEF OnDuty, Creating
        <4> QED
          BY <1>1, <1>2, <1>4, <3>1, <4>1 DEF OnDuty
      <3> QED
        BY <1>2, <2>3, <3>1 DEF Covered
    <2> QED
      BY <2>1, <2>2, <2>3 DEF RaceInv, Covered
  <1> QED
    BY <1>5, <1>6, <1>7, <1>8 DEF RaceInv

\* A start executes a statement.
LEMMA RaceCreates ==
    ASSUME SeedInv, RaceInv, NEW q \in Starts, Creating(q),
           NEW m \in Indices, IsNext(q, m), ~Here(m),
           schema' = schema \cup {Ddl[m]}, todo' = [todo EXCEPT ![q] = @ \ {m}],
           UNCHANGED pc
    PROVE  RaceInv'
  <1>1. /\ todo \in [Starts -> SUBSET Indices] /\ m \in todo[q]
        /\ todo[q] \subseteq Indices /\ m \in Nat /\ \A i \in Indices : i \in Nat
        /\ \A j \in todo[q] : m =< j
    BY OwnIs DEF SeedInv, Functional, Indices, IsNext
  <1>2. \A i \in Indices : Here(i)' <=> Here(i) \/ i = m
    BY DdlAssumption DEF Here, Indices
  <1>3. /\ todo'[q] = todo[q] \ {m}
        /\ \A p \in Starts \ {q} : todo'[p] = todo[p]
        /\ \A p \in Starts : Creating(p)' <=> Creating(p)
    BY <1>1 DEF Creating
  <1>4. \A i \in Indices : i =< m => Own(i) = m \/ Here(Own(i))
    <2> SUFFICES ASSUME NEW i \in Indices, i =< m, Own(i) # m
                 PROVE  Here(Own(i))
      OBVIOUS
    <2>1. Own(i) \in Indices /\ Own(i) \in Nat /\ ~(m =< Own(i)) /\ Own(Own(i)) = Own(i)
      BY <1>1, OwnIs
    <2>2. Own(i) \notin todo[q]
      BY <1>1, <2>1
    <2> QED
      BY <2>1, <2>2 DEF RaceInv, PlansAreWhole
  <1>5. TablesInOrder'
    BY <1>2, <1>4, OwnIs DEF RaceInv, TablesInOrder
  <1>6. PlansAreWhole'
    <2>1. \A i \in Indices : i \notin todo'[q] => Here(Own(i))'
      BY <1>2, <1>3, <1>4, OwnIs DEF RaceInv, PlansAreWhole
    <2>2. \A i \in Indices : Own(i) \in todo'[q] => i \in todo'[q]
      <3>1. Own(m) \in todo[q] => Own(m) = m
        BY <1>1, OwnIs
      <3> QED
        BY <1>3, <3>1 DEF RaceInv, PlansAreWhole
    <2>3. \A p \in Starts \ {q} : Creating(p)' =>
             \A i \in Indices : /\ i \notin todo'[p] => Here(Own(i))'
                                /\ Own(i) \in todo'[p] => i \in todo'[p]
      BY <1>2, <1>3, OwnIs DEF RaceInv, PlansAreWhole
    <2> QED
      BY <2>1, <2>2, <2>3 DEF PlansAreWhole
  <1>7. OneOwner'
    <2>1. ASSUME NEW p \in Starts \ {q}, Creating(p),
                 NEW i \in todo'[p] \cap todo'[q],
                 Own(i) \notin todo'[p], Own(i) \notin todo'[q]
          PROVE  FALSE
      <3>1. i \in Indices /\ i \in todo[p] \cap todo[q] /\ Own(i) \notin todo[p]
        BY <1>1, <1>3, <2>1
      <3>2. Own(i) \in todo[q]
        BY <2>1, <3>1 DEF RaceInv, OneOwner
      <3>3. Own(i) = m
        BY <1>3, <2>1, <3>2
      <3>4. Here(Own(Own(i)))
        BY <2>1, <3>1, OwnIs DEF RaceInv, PlansAreWhole
      <3> QED
        BY <3>1, <3>3, <3>4, OwnIs
    <2> QED
      BY <1>3, <2>1 DEF RaceInv, OneOwner
  <1>8. Covered'
    <2>1. CASE \E p \in Starts : pc[p] \in {"failed", "dead"}
      BY <2>1 DEF Covered
    <2>2. CASE schema = {}
      <3>1. \A i \in Indices : ~Here(i)
        BY <2>2 DEF Here
      <3>2. \A i \in Indices : i \in todo[q]
        BY <3>1, OwnIs DEF RaceInv, PlansAreWhole
      <3>3. \A i \in Indices : i = m \/ OnDuty(q, i)'
        BY <1>1, <1>2, <1>3, <3>1, <3>2 DEF OnDuty
      <3> QED
        BY <1>2, <3>3 DEF Covered
    <2>3. CASE \A i \in Indices : Here(i) \/ \E p \in Starts : OnDuty(p, i)
      <3> SUFFICES ASSUME NEW i \in Indices, ~Here(i), i # m
                   PROVE  \E p \in Starts : OnDuty(p, i)'
        BY <1>2 DEF Covered
      <3>1. PICK p \in Starts : OnDuty(p, i)
        BY <2>3
      <3>2. CASE p = q
        BY <1>1, <1>2, <1>3, <3>1, <3>2 DEF OnDuty
      <3>3. CASE p # q /\ (m \notin todo[p] \/ ~(m =< i))
        BY <1>1, <1>2, <1>3, <3>1, <3>3 DEF OnDuty
      <3>4. CASE p # q /\ m \in todo[p] /\ m =< i /\ Own(m) = m
        <4>1. ASSUME NEW k \in Indices, m =< k, Here(k)
              PROVE  FALSE
          BY <3>4, <4>1 DEF RaceInv, TablesInOrder
        <4>2. Own(i) \in Indices /\ m =< Own(i)
          BY <3>4, OwnIs
        <4>3. i \in todo[q]
          BY <4>1, <4>2 DEF RaceInv, PlansAreWhole
        <4>4. OnDuty(q, i)'
          BY <1>1, <1>2, <1>3, <4>1, <4>3 DEF OnDuty
        <4> QED
          BY <4>4
      <3>5. CASE p # q /\ m \in todo[p] /\ m =< i /\ Own(m) # m
        <4>1. Own(m) \in Indices /\ ~(m =< Own(m)) /\ Own(m) =< i /\ Here(Own(m))
          BY <1>1, <1>4, <3>5, OwnIs
        <4>2. Own(m) \notin todo[q]
          BY <1>1, <3>5, <4>1
        <4>3. Own(m) \notin todo[p]
          BY <1>1, <3>1, <3>5, <4>1 DEF OnDuty
        <4> QED
          BY <1>1, <3>1, <3>5, <4>2, <4>3 DEF RaceInv, OneOwner, OnDuty
      <3> QED
        BY <3>2, <3>3, <3>4, <3>5
    <2> QED
      BY <2>1, <2>2, <2>3 DEF RaceInv, Covered
  <1> QED
    BY <1>5, <1>6, <1>7, <1>8 DEF RaceInv

\* A start goes on to another place than the making of the schema: it has not
\* begun it, or has finished it, is beaten to its next statement, fails or dies.
LEMMA RaceGoesOn ==
    ASSUME SeedInv, RaceInv, NEW p \in Starts, NEW l \in Labels \ {"create"},
           Goto(p, l), UNCHANGED <<schema, todo>>,
           pc[p] \notin {"failed", "dead"},
           Creating(p) => \/ l \in {"failed", "dead"}
                          \/ todo[p] = {}
                          \/ \E m \in todo[p] : IsNext(p, m) /\ Here(m),
           pc[p] \in {"inspect", "plan"} /\ schema = {} => l \in {"plan", "failed", "dead"}
    PROVE  RaceInv'
  <1>1. /\ pc' = [pc EXCEPT ![p] = l] /\ pc'[p] = l /\ ~Creating(p)'
        /\ todo' = todo /\ schema' = schema
        /\ \A q \in Starts \ {p} : pc'[q] = pc[q]
    BY DEF Goto, SeedInv, Functional, Creating
  <1>2. \A q \in Starts : Creating(q)' => Creating(q) /\ q # p
    BY <1>1 DEF Creating
  <1>3. \A i : Here(i)' <=> Here(i)
    BY <1>1 DEF Here
  <1>4. TablesInOrder' /\ PlansAreWhole' /\ OneOwner'
    BY <1>1, <1>2, <1>3 DEF RaceInv, TablesInOrder, PlansAreWhole, OneOwner
  <1>5. Covered'
    <2>1. CASE l \in {"failed", "dead"}
      BY <1>1, <2>1 DEF Covered
    <2>2. CASE \E q \in Starts : pc[q] \in {"failed", "dead"}
      BY <1>1, <2>2 DEF Covered
    <2>3. CASE schema = {} /\ (\E q \in Starts : pc[q] \in {"inspect", "plan"})
               /\ l \notin {"failed", "dead"}
      BY <1>1, <2>3 DEF Covered
    <2>4. CASE (\A i \in Indices : Here(i) \/ \E q \in Starts : OnDuty(q, i))
               /\ l \notin {"failed", "dead"}
      <3> SUFFICES ASSUME NEW q \in Starts, NEW i \in Indices, OnDuty(q, i)
                   PROVE  OnDuty(q, i)'
        BY <1>3, <2>4 DEF Covered
      <3>1. i \in Nat /\ todo[q] \subseteq Nat
        BY OwnIs DEF SeedInv, Functional, Indices
      <3>2. q # p
        BY <2>4, <3>1 DEF OnDuty, IsNext
      <3> QED
        BY <1>1, <1>3, <3>2 DEF OnDuty, Creating
    <2> QED
      BY <2>1, <2>2, <2>3, <2>4 DEF RaceInv, Covered
  <1> QED
    BY <1>4, <1>5 DEF RaceInv

\* Every step keeps the invariant of the race.
LEMMA NextKeepsRace ==
    ASSUME SeedInv, RaceInv, [Next]_vars
    PROVE  RaceInv'
  <1>1. ASSUME NEW p \in Starts, Inspect(p)
        PROVE  RaceInv'
    <2> DEFINE l == IF \A t \in Tables : ~HasTable(t) THEN "plan"
                    ELSE IF \A t \in Tables : HasTable(t) THEN "verify"
                    ELSE "refused"
    <2>1. /\ l \in Labels \ {"create"} /\ Goto(p, l) /\ UNCHANGED <<schema, todo>>
          /\ pc[p] = "inspect"
      BY <1>1 DEF Inspect, Labels
    <2>2. schema = {} => l = "plan"
      BY DEF HasTable
    <2> QED
      BY <2>1, <2>2, RaceGoesOn DEF Creating
  <1>2. ASSUME NEW p \in Starts, Plan(p)
        PROVE  RaceInv'
    BY <1>2, RacePlans
  <1>3. ASSUME NEW p \in Starts, Create(p)
        PROVE  RaceInv'
    <2>1. PICK m \in todo[p] :
             /\ IsNext(p, m)
             /\ IF Ddl[m] \in schema
                THEN Goto(p, "beaten") /\ UNCHANGED <<schema, todo>>
                ELSE /\ schema' = schema \cup {Ddl[m]}
                     /\ todo' = [todo EXCEPT ![p] = @ \ {m}]
                     /\ UNCHANGED pc
      BY <1>3 DEF Create
    <2>2. m \in Indices /\ Creating(p)
      BY <1>3 DEF Create, Creating, SeedInv, Functional, Indices
    <2>3. CASE Here(m)
      BY <2>1, <2>2, <2>3, RaceGoesOn DEF Here, Labels, Creating
    <2>4. CASE ~Here(m)
      BY <2>1, <2>2, <2>4, RaceCreates DEF Here
    <2> QED
      BY <2>3, <2>4
  <1>4. ASSUME NEW p \in Starts, Created(p)
        PROVE  RaceInv'
    BY <1>4, RaceGoesOn DEF Created, Labels
  <1>5. ASSUME NEW p \in Starts, Verify(p) \/ Select(p) \/ Insert(p) \/ Commit(p)
        PROVE  RaceInv'
    <2>1. /\ pc[p] \in {"verify", "seed", "insert", "commit"}
          /\ UNCHANGED <<schema, todo>>
          /\ \E l \in {"seed", "refused", "serving", "insert", "beaten", "commit"} : Goto(p, l)
      BY <1>5 DEF Verify, Select, Insert, Commit
    <2> QED
      BY <2>1, RaceGoesOn DEF Labels, Creating
  <1>6. ASSUME NEW p \in Starts, Fails(p) \/ Dies(p)
        PROVE  RaceInv'
    <2>1. /\ pc[p] \notin {"failed", "dead"} /\ UNCHANGED <<schema, todo>>
          /\ \E l \in {"failed", "dead"} : Goto(p, l)
      BY <1>6 DEF Fails, Dies, Ended
    <2> QED
      BY <2>1, RaceGoesOn DEF Labels
  <1>7. CASE UNCHANGED vars
    BY <1>7 DEF vars, RaceInv, TablesInOrder, PlansAreWhole, OneOwner, Covered, OnDuty,
                Creating, Here
  <1> QED
    BY <1>1, <1>2, <1>3, <1>4, <1>5, <1>6, <1>7 DEF Next

\* Starts that race over an empty database complete its schema between them;
\* only one that fails or dies can leave it unfinished.
THEOREM RaceIsWon == Spec => []RaceCompletesTheSchema
  <1>1. SeedInv /\ RaceInv => RaceCompletesTheSchema
    <2> SUFFICES ASSUME SeedInv, RaceInv,
                        \A p \in Starts : pc[p] \in {"serving", "refused", "beaten"}
                 PROVE  schema = ToSet(Ddl)
      BY DEF RaceCompletesTheSchema
    <2>1. \A i \in Indices : Here(i)
      BY DEF RaceInv, Covered, OnDuty, Creating
    <2> QED
      BY <2>1 DEF Here, Indices, ToSet, SeedInv, TypeOK
  <1> QED
    BY <1>1, SeedInit, NextKeepsSeed, RaceInit, NextKeepsRace, PTL DEF Spec
=============================================================================

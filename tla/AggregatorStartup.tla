--------------------------- MODULE AggregatorStartup ---------------------------
(***************************************************************************)
(* How the aggregator starts: apps/aggregator/main.py with                 *)
(* initialize_database and seed_node_registry of secureedge/persistence.py.*)
(*                                                                         *)
(* Starts may run one after another or race on one SQLite file, and any of *)
(* them may die.  A start first makes the schema or verifies it, then adds *)
(* the node keys it was given, then serves.  The sqlite3 driver opens a    *)
(* transaction before an INSERT but not before DDL, so each statement that *)
(* creates a table, or the indexes of one, is durable by itself.           *)
(***************************************************************************)
EXTENDS Integers, Sequences, SequencesExt

CONSTANTS
    Starts,   \* runs of main
    BatchOf,  \* the --node-public-key options of each: set of <<node, key>>
    Nodes,    \* the nodes they name
    Ddl,      \* the statements of create_all in order: sequence of [table, kind]
    None      \* no row, nobody

\* Somebody starts the aggregator, with options that name nodes and keys.
ASSUME StartupAssumption ==
    /\ Starts # {} /\ None \notin Starts
    /\ \A p \in Starts : \A b \in BatchOf[p] :
          b = <<b[1], b[2]>> /\ b[1] \in Nodes /\ b[2] # None

\* create_all takes the tables one after another: a table, then its indexes.
ASSUME DdlAssumption ==
    /\ Ddl \in Seq(ToSet(Ddl))
    /\ \A i, j \in DOMAIN Ddl : Ddl[i] = Ddl[j] => i = j
    /\ \A i \in DOMAIN Ddl : \E j \in 1 .. i :
          /\ Ddl[j].kind = "table"
          /\ \A k \in j .. i : Ddl[k].table = Ddl[i].table
    /\ \A i \in DOMAIN Ddl :
          /\ Ddl[i] = [table |-> Ddl[i].table, kind |-> Ddl[i].kind]
          /\ Ddl[i].kind \in {"table", "indexes"}

Tables == {s.table : s \in ToSet(Ddl)}

VARIABLES
    schema,  \* the statements that have taken effect
    rows,    \* nodes table, per node: its key, or None
    writer,  \* the start whose INSERTs hold the write lock, or None
    pc,      \* per start: where it is
    todo,    \* per start: the indices in Ddl of the statements it has yet to execute
    adding   \* per start: the <<node, key>> pairs it found to be missing

vars == <<schema, rows, writer, pc, todo, adding>>

Init == /\ schema = {}
        /\ rows = [n \in Nodes |-> None]
        /\ writer = None
        /\ pc = [p \in Starts |-> "inspect"]
        /\ todo = [p \in Starts |-> {}]
        /\ adding = [p \in Starts |-> {}]

Ended(p)    == pc[p] \in {"serving", "refused", "beaten", "failed", "dead"}
Goto(p, l)  == pc' = [pc EXCEPT ![p] = l]
HasTable(t) == \E s \in schema : s.table = t /\ s.kind = "table"
-----------------------------------------------------------------------------
\* initialize_database looks at the table names.
Inspect(p) ==
    /\ pc[p] = "inspect"
    /\ Goto(p, IF \A t \in Tables : ~HasTable(t) THEN "plan"
               ELSE IF \A t \in Tables : HasTable(t) THEN "verify"
               ELSE "refused")
    /\ UNCHANGED <<schema, rows, writer, todo, adding>>

\* create_all looks again and leaves out the tables it finds.
Plan(p) ==
    /\ pc[p] = "plan"
    /\ todo' = [todo EXCEPT ![p] = {i \in DOMAIN Ddl : ~HasTable(Ddl[i].table)}]
    /\ Goto(p, "create")
    /\ UNCHANGED <<schema, rows, writer, adding>>

\* The statement that p executes next.
IsNext(p, i) == i \in todo[p] /\ \A j \in todo[p] : i =< j

\* Mutant: a start that fails drops the tables.
CreateDropsAll(p) ==
    /\ pc[p] = "create"
    /\ \E i \in todo[p] :
          /\ IsNext(p, i)
          /\ IF Ddl[i] \in schema
             THEN Goto(p, "beaten") /\ schema' = {} /\ UNCHANGED todo
             ELSE /\ schema' = schema \cup {Ddl[i]}
                  /\ todo' = [todo EXCEPT ![p] = @ \ {i}]
                  /\ UNCHANGED pc
    /\ UNCHANGED <<rows, writer, adding>>

\* It executes one statement, which fails if its table is there by now.
Create(p) ==
    /\ pc[p] = "create"
    /\ \E i \in todo[p] :
          /\ IsNext(p, i)
          /\ IF Ddl[i] \in schema
             THEN Goto(p, "beaten") /\ UNCHANGED <<schema, todo>>
             ELSE /\ schema' = schema \cup {Ddl[i]}
                  /\ todo' = [todo EXCEPT ![p] = @ \ {i}]
                  /\ UNCHANGED pc
    /\ UNCHANGED <<rows, writer, adding>>

Created(p) ==
    /\ pc[p] = "create" /\ todo[p] = {}
    /\ Goto(p, "verify")
    /\ UNCHANGED <<schema, rows, writer, todo, adding>>

\* Mutant: only the names of the tables are compared.
VerifyNames(p) ==
    /\ pc[p] = "verify"
    /\ Goto(p, IF \A t \in Tables : HasTable(t) THEN "seed" ELSE "refused")
    /\ UNCHANGED <<schema, rows, writer, todo, adding>>

\* _verify_schema compares everything.
Verify(p) ==
    /\ pc[p] = "verify"
    /\ Goto(p, IF schema = ToSet(Ddl) THEN "seed" ELSE "refused")
    /\ UNCHANGED <<schema, rows, writer, todo, adding>>

\* The options name one node with two keys.
Contradictory(b) == \E x, y \in b : x[1] = y[1] /\ x[2] # y[2]

\* A node is registered with another key.
Conflict(b) == \E x \in b : rows[x[1]] \notin {None, x[2]}

\* seed_node_registry checks the batch and reads the rows of its nodes.
Select(p) ==
    /\ pc[p] = "seed"
    /\ adding' = [adding EXCEPT ![p] = {x \in BatchOf[p] : rows[x[1]] = None}]
    /\ Goto(p, IF Contradictory(BatchOf[p]) \/ Conflict(BatchOf[p]) THEN "refused"
               ELSE IF adding'[p] = {} THEN "serving"
               ELSE "insert")
    /\ UNCHANGED <<schema, rows, writer, todo>>

\* The rows of nodes, once those that p adds are there.
With(p) == [n \in Nodes |-> IF \E x \in adding[p] : x[1] = n
                            THEN (CHOOSE x \in adding[p] : x[1] = n)[2]
                            ELSE rows[n]]

\* Mutant: INSERT OR REPLACE.
InsertReplaces(p) ==
    /\ pc[p] = "insert" /\ writer = None
    /\ writer' = p /\ Goto(p, "commit")
    /\ UNCHANGED <<schema, rows, todo, adding>>

\* The INSERTs take the write lock; the primary key refuses a node that
\* another start has added since the SELECT.
Insert(p) ==
    /\ pc[p] = "insert" /\ writer = None
    /\ IF \E x \in adding[p] : rows[x[1]] # None
       THEN Goto(p, "beaten") /\ UNCHANGED writer
       ELSE writer' = p /\ Goto(p, "commit")
    /\ UNCHANGED <<schema, rows, todo, adding>>

\* Mutant: each node is committed by itself.
CommitOne(p) ==
    /\ pc[p] = "commit"
    /\ \E x \in adding[p] : rows' = [rows EXCEPT ![x[1]] = x[2]]
    /\ writer' = None
    /\ Goto(p, "serving")
    /\ UNCHANGED <<schema, todo, adding>>

Commit(p) ==
    /\ pc[p] = "commit"
    /\ rows' = With(p)
    /\ writer' = None
    /\ Goto(p, "serving")
    /\ UNCHANGED <<schema, todo, adding>>

\* Mutant: the rollback is forgotten.
ReleaseForgotten(p) == UNCHANGED writer

\* The rollback, or the end of the process, gives the write lock back.
Release(p) == writer' = IF writer = p THEN None ELSE writer

\* The database raises (it is locked, or the disk fails) and the start gives
\* up; a COMMIT that raises may have taken effect.
Fails(p) ==
    /\ ~Ended(p)
    /\ rows' = rows \/ (pc[p] = "commit" /\ rows' = With(p))
    /\ Release(p)
    /\ Goto(p, "failed")
    /\ UNCHANGED <<schema, todo, adding>>

\* The process dies, before it serves or later.
Dies(p) ==
    /\ pc[p] \notin {"refused", "beaten", "failed", "dead"}
    /\ Release(p)
    /\ Goto(p, "dead")
    /\ UNCHANGED <<schema, rows, todo, adding>>

Next == \E p \in Starts :
           \/ Inspect(p) \/ Plan(p) \/ Create(p) \/ Created(p) \/ Verify(p)
           \/ Select(p) \/ Insert(p) \/ Commit(p)
           \/ Fails(p) \/ Dies(p)

Spec == Init /\ [][Next]_vars
-----------------------------------------------------------------------------
\* The shape of the state; one start at a time is writing.
TypeOK ==
    /\ schema \subseteq ToSet(Ddl)
    /\ \A n \in Nodes : rows[n] # None => \E p \in Starts : <<n, rows[n]>> \in BatchOf[p]
    /\ writer \in Starts \cup {None}
    /\ \A p \in Starts :
          /\ pc[p] \in {"inspect", "plan", "create", "verify", "seed", "insert",
                        "commit", "serving", "refused", "beaten", "failed", "dead"}
          /\ pc[p] = "commit" <=> writer = p
          /\ todo[p] \subseteq DOMAIN Ddl
          /\ adding[p] \subseteq BatchOf[p]

\* An aggregator that serves does so on the exact schema, and every node it
\* was started with is registered with the key it was given, whoever added it.
ServingIsReady ==
    \A p \in Starts : pc[p] = "serving" =>
       /\ schema = ToSet(Ddl)
       /\ \A b \in BatchOf[p] : rows[b[1]] = b[2]

\* What a start has come to.
VerdictOf(p) == CASE pc[p] = "serving"               -> "seeded"
                  [] pc[p] \in {"refused", "beaten"} -> "refused"
                  [] pc[p] \in {"failed", "dead"}    -> "ended"
                  [] OTHER                           -> "running"

Registry == INSTANCE NodeRegistry
            WITH keys    <- rows,
                 verdict <- [p \in Starts |-> VerdictOf(p)]

\* Starts that race, fail and die keep the promise of the registry: keys are
\* added and never replaced or removed ("attempting to replace",
\* docs/configuration.md 47), a start adds its whole batch in one step or none
\* of it, and a start that is refused adds nothing, whatever was added between
\* its SELECT and its INSERT.
ImplementsRegistry == Registry!Spec

\* Starts that race over an empty database complete its schema between them:
\* whichever create_all is beaten to a table, another goes on from there.  Only
\* a start that dies or fails can leave a schema that every later one refuses.
RaceCompletesTheSchema ==
    (\A p \in Starts : pc[p] \in {"serving", "refused", "beaten"})
       => schema = ToSet(Ddl)
=============================================================================

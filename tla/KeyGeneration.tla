----------------------------- MODULE KeyGeneration -----------------------------
(***************************************************************************)
(* Creation of node key pairs: scripts/generate_node_keys.py.              *)
(*                                                                         *)
(* Several invocations may run at once, for one node or for several, in    *)
(* one output directory.  Each action is one access to the file system     *)
(* that another invocation may notice or disturb, so the invocations       *)
(* interleave between them.  From the fstat of a file that was just        *)
(* created to the lstat that checks it is one action (Write): the calls in *)
(* between go to the open file, which no other invocation opens or         *)
(* removes.  Any call may fail, and an invocation may be killed anywhere,  *)
(* which includes the exceptions that generate_node_key_files does not     *)
(* catch.  Nobody else writes in the directory, private to its owner.      *)
(***************************************************************************)
EXTENDS Naturals, Sequences

CONSTANTS
    Generators,  \* invocations of the script
    NodeOf,      \* the --node-id of each
    None         \* no file

\* What a target may be.
Files == [owner : Generators, data : {"empty", "partial", "whole"}]

ASSUME KeyAssumption == Generators # {} /\ None \notin Files

VARIABLES
    directory,  \* the output directory: "absent", "open", "private" or "other"
    file,       \* per target path: [owner, data], or None
    pc,         \* per invocation: where it is
    target,     \* per invocation: which of its two targets it is at
    created,    \* per invocation: the created list of [path, verified]
    trouble     \* history: what the file system denied it: "none", "io", "unlink"

vars == <<directory, file, pc, target, created, trouble>>

\* The two targets in the order in which they are inspected and written.
Targets(g) == <<<<NodeOf[g], "key">>, <<NodeOf[g], "pub">>>>
Paths      == {NodeOf[g] : g \in Generators} \X {"key", "pub"}
Here(g)    == Targets(g)[target[g]]

Init == /\ directory \in {"absent", "open", "private", "other"}
        /\ file = [p \in Paths |-> None]
        /\ pc = [g \in Generators |-> "look"]
        /\ target = [g \in Generators |-> 1]
        /\ created = [g \in Generators |-> <<>>]
        /\ trouble = [g \in Generators |-> "none"]
-----------------------------------------------------------------------------
Goto(g, p) == pc' = [pc EXCEPT ![g] = p]

\* An access is denied: the invocation leaves by way of p.
Denied(g, p) == Goto(g, p) /\ trouble' = [trouble EXCEPT ![g] = "io"]

\* _ensure_secure_directory looks at the directory.
LookAtDirectory(g) ==
    /\ pc[g] = "look"
    /\ \/ /\ Goto(g, CASE directory = "absent" -> "mkdir"
                       [] directory = "other"  -> "refused"
                       [] OTHER -> "chmod")
          /\ UNCHANGED trouble
       \/ Denied(g, "refused")
    /\ UNCHANGED <<directory, file, target, created>>

\* It makes the directory it did not find.  Another may have made it since,
\* and mkdir with exist_ok=False refuses that.
MakeDirectory(g) ==
    /\ pc[g] = "mkdir"
    /\ \/ /\ directory = "absent"
          /\ directory' = "private" /\ Goto(g, "chmod") /\ UNCHANGED trouble
       \/ directory # "absent" /\ Goto(g, "refused") /\ UNCHANGED <<directory, trouble>>
       \/ Denied(g, "refused") /\ UNCHANGED directory
    /\ UNCHANGED <<file, target, created>>

\* It makes the directory private and checks that it became so.
SecureDirectory(g) ==
    /\ pc[g] = "chmod"
    /\ \/ directory' = "private" /\ Goto(g, "inspect") /\ UNCHANGED trouble
       \/ Denied(g, "refused") /\ UNCHANGED directory
    /\ UNCHANGED <<file, target, created>>

\* _reject_existing_targets, one target at a time.
Inspect(g) ==
    /\ pc[g] = "inspect"
    /\ \/ file[Here(g)] # None /\ Goto(g, "refused") /\ UNCHANGED <<target, trouble>>
       \/ /\ file[Here(g)] = None
          /\ IF target[g] = 1
             THEN target' = [target EXCEPT ![g] = 2] /\ UNCHANGED pc
             ELSE target' = [target EXCEPT ![g] = 1] /\ Goto(g, "open")
          /\ UNCHANGED trouble
       \/ Denied(g, "refused") /\ UNCHANGED target
    /\ UNCHANGED <<directory, file, created>>

Fresh(g)   == [owner |-> g, data |-> "empty"]
Put(p, f)  == file' = [file EXCEPT ![p] = f]
Noted(p)   == [path |-> p, verified |-> FALSE]

\* Mutants: O_EXCL is missing; a target that exists is put on the list.
OpenShared(g) ==
    /\ pc[g] = "open"
    /\ Put(Here(g), Fresh(g))
    /\ created' = [created EXCEPT ![g] = Append(@, Noted(Here(g)))]
    /\ Goto(g, "write")
    /\ UNCHANGED <<directory, target, trouble>>
OpenNotedEarly(g) ==
    /\ pc[g] = "open"
    /\ created' = [created EXCEPT ![g] = Append(@, Noted(Here(g)))]
    /\ IF file[Here(g)] = None
       THEN Put(Here(g), Fresh(g)) /\ Goto(g, "write")
       ELSE Goto(g, "cleanup") /\ UNCHANGED file
    /\ UNCHANGED <<directory, target, trouble>>

\* _write_exclusive opens the target with O_CREAT and O_EXCL and notes it.
OpenExclusive(g) ==
    /\ pc[g] = "open"
    /\ \/ /\ file[Here(g)] = None
          /\ Put(Here(g), Fresh(g))
          /\ created' = [created EXCEPT ![g] = Append(@, Noted(Here(g)))]
          /\ Goto(g, "write") /\ UNCHANGED trouble
       \/ file[Here(g)] # None /\ Goto(g, "cleanup") /\ UNCHANGED <<file, created, trouble>>
       \/ Denied(g, "cleanup") /\ UNCHANGED <<file, created>>
    /\ UNCHANGED <<directory, target>>

\* The created list once fstat has told the identity of the file it ends with.
Verified(g) == created' = [created EXCEPT ![g][Len(created[g])].verified = TRUE]

Own(g, p) == file[p] # None /\ file[p].owner = g

\* A write that is broken off once the file is identified has written any part.
HalfWritten(g) ==
    /\ Verified(g)
    /\ \E d \in {"empty", "partial", "whole"} :
          file' = [file EXCEPT ![Here(g)] = IF Own(g, Here(g))
                                            THEN [owner |-> g, data |-> d] ELSE @]

\* It identifies the open file, writes, syncs and finds it still at its path;
\* the private key comes first, and the invocation ends with the public one.
\* A failure leaves an unidentified file empty, an identified one with any data.
Write(g) ==
    /\ pc[g] = "write"
    /\ \/ /\ Verified(g)
          /\ IF ~Own(g, Here(g)) THEN Goto(g, "cleanup") /\ UNCHANGED <<file, target>>
             ELSE /\ Put(Here(g), [owner |-> g, data |-> "whole"])
                  /\ IF target[g] = 1
                     THEN target' = [target EXCEPT ![g] = 2] /\ Goto(g, "open")
                     ELSE Goto(g, "done") /\ UNCHANGED target
          /\ UNCHANGED trouble
       \/ Denied(g, "cleanup") /\ UNCHANGED <<file, target, created>>
       \/ Denied(g, "cleanup") /\ HalfWritten(g) /\ UNCHANGED target
    /\ UNCHANGED directory

\* _cleanup_created removes a file it can tell is its own, or an empty one
\* whose identity it never learnt.
MayRemove(g, c) ==
    /\ file[c.path] # None
    /\ IF c.verified THEN Own(g, c.path) ELSE file[c.path].data = "empty"

\* Mutant: only the first file is removed.
CleanUpOne(g) ==
    /\ pc[g] = "cleanup"
    /\ IF created[g] = <<>> THEN Goto(g, "refused") /\ UNCHANGED <<file, created, trouble>>
       ELSE /\ created' = [created EXCEPT ![g] = <<>>]
            /\ file' = [file EXCEPT ![created[g][Len(created[g])].path] = None]
            /\ UNCHANGED <<pc, trouble>>
    /\ UNCHANGED <<directory, target>>

\* The last entry of the list is taken off and its file removed, if it may be
\* and can be; errors are passed over.
CleanUp(g) ==
    /\ pc[g] = "cleanup"
    /\ IF created[g] = <<>>
       THEN Goto(g, "refused") /\ UNCHANGED <<file, created, trouble>>
       ELSE LET last == created[g][Len(created[g])] IN
            /\ created' = [created EXCEPT ![g] = SubSeq(@, 1, Len(@) - 1)]
            /\ \/ MayRemove(g, last) /\ Put(last.path, None) /\ UNCHANGED trouble
               \/ ~MayRemove(g, last) /\ UNCHANGED <<file, trouble>>
               \/ trouble' = [trouble EXCEPT ![g] = "unlink"] /\ UNCHANGED file
            /\ UNCHANGED pc
    /\ UNCHANGED <<directory, target>>

\* The process dies, or leaves by an exception nobody catches.
Killed(g) ==
    /\ pc[g] \notin {"done", "refused", "killed"}
    /\ Goto(g, "killed")
    /\ \/ UNCHANGED <<file, created>>
       \/ pc[g] = "write" /\ HalfWritten(g)
    /\ UNCHANGED <<directory, target, trouble>>

Next == \E g \in Generators :
           \/ LookAtDirectory(g) \/ MakeDirectory(g) \/ SecureDirectory(g)
           \/ Inspect(g) \/ OpenExclusive(g) \/ Write(g) \/ CleanUp(g)
           \/ Killed(g)

Spec == Init /\ [][Next]_vars
-----------------------------------------------------------------------------
Holds(p, g) == file[p] = [owner |-> g, data |-> "whole"]

\* An invocation that reports success has left both files, whole, and no other
\* invocation ever takes one away or writes over it (scripts/README.md 10-11).
SuccessIsAPair ==
    \A g \in Generators : pc[g] = "done" =>
       \A i \in 1 .. 2 : Holds(Targets(g)[i], g)

\* An invocation that reports an error has left nothing behind, unless the
\* file system refused the removal (scripts/generate_node_keys.py 184-209).
RefusalLeavesNothing ==
    \A p \in Paths : file[p] # None =>
       \/ pc[file[p].owner] # "refused"
       \/ trouble[file[p].owner] = "unlink"

\* Invocations that race never all refuse one another: if all have ended and
\* none was killed or met an error of the file system, one has its pair.
SomebodySucceeds ==
    (/\ directory = "private"
     /\ \A g \in Generators : pc[g] \in {"done", "refused"} /\ trouble[g] = "none")
    => \E g \in Generators : \A i \in 1 .. 2 : Holds(Targets(g)[i], g)
=============================================================================

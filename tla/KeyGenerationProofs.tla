--------------------------- MODULE KeyGenerationProofs ---------------------------
(***************************************************************************)
(* What creating key pairs guarantees for any number of invocations, for   *)
(* any nodes, that race in one directory, fail and are killed anywhere.    *)
(***************************************************************************)
EXTENDS KeyGeneration, SequenceTheorems, TLAPS

USE KeyAssumption

Early   == {"look", "mkdir", "chmod", "inspect"}
Places  == Early \cup {"open", "write", "cleanup", "done", "refused", "killed"}
Entries == [path : Paths, verified : BOOLEAN]

\* The state has this shape.
Shape ==
    /\ file \in [Paths -> Files \cup {None}]
    /\ pc \in [Generators -> Places]
    /\ target \in [Generators -> 1 .. 2]
    /\ created \in [Generators -> Seq(Entries)]
    /\ trouble \in [Generators -> {"none", "io", "unlink"}]

\* What an invocation lists is there and its own, in the order of its targets,
\* and still empty if it was not identified.
ListIsOwn(g) ==
    \A i \in DOMAIN created[g] :
       /\ i \in 1 .. 2
       /\ created[g][i].path = Targets(g)[i]
       /\ Own(g, Targets(g)[i])
       /\ ~created[g][i].verified => file[Targets(g)[i]].data = "empty"

\* How long the list is where the invocation is, and which files are whole.
ListFits(g) ==
    /\ pc[g] \in Early \cup {"refused"} => Len(created[g]) = 0
    /\ pc[g] = "open" => Len(created[g]) = target[g] - 1
    /\ pc[g] = "write" => Len(created[g]) = target[g]
    /\ pc[g] \in {"open", "write"} /\ target[g] = 2 => Holds(Targets(g)[1], g)
    /\ pc[g] = "done" => /\ Len(created[g]) = 2
                         /\ Holds(Targets(g)[1], g) /\ Holds(Targets(g)[2], g)

\* A file is on the list of its owner, unless the file system refused to remove it.
IsListed(p) ==
    file[p] # None =>
       \/ trouble[file[p].owner] = "unlink"
       \/ \E i \in DOMAIN created[file[p].owner] : created[file[p].owner][i].path = p

\* It refuses only removals.
UnlinkIsLate ==
    \A g \in Generators : trouble[g] = "unlink" => pc[g] \in {"cleanup", "refused", "killed"}

\* The inductive invariant.
KInv == /\ Shape
        /\ \A g \in Generators : ListIsOwn(g) /\ ListFits(g)
        /\ \A p \in Paths : IsListed(p)
        /\ UnlinkIsLate
-----------------------------------------------------------------------------
\* The two targets of an invocation are paths, and are not one.
LEMMA TargetsAre ==
    ASSUME NEW g \in Generators
    PROVE  /\ Targets(g)[1] = <<NodeOf[g], "key">> /\ Targets(g)[2] = <<NodeOf[g], "pub">>
           /\ \A i \in 1 .. 2 : Targets(g)[i] \in Paths
           /\ Targets(g)[1] # Targets(g)[2]
  BY DEF Targets, Paths

\* Who owns a file is an invocation.
LEMMA OwnersAre ==
    ASSUME Shape, NEW p \in Paths, file[p] # None
    PROVE  file[p] \in Files /\ file[p].owner \in Generators
  BY DEF Shape, Files

\* There is nothing at first.
LEMMA InitHolds == Init => KInv
  <1> SUFFICES ASSUME Init
               PROVE  KInv
    OBVIOUS
  <1>1. Shape
    <2>1. <<>> \in Seq(Entries)
      OBVIOUS
    <2>2. file \in [Paths -> Files \cup {None}] /\ target \in [Generators -> 1 .. 2]
      BY DEF Init
    <2>3. created \in [Generators -> Seq(Entries)]
      BY <2>1 DEF Init
    <2>4. /\ pc \in [Generators -> Places]
          /\ trouble \in [Generators -> {"none", "io", "unlink"}]
      BY DEF Init, Places, Early
    <2> QED
      BY <2>2, <2>3, <2>4 DEF Shape
  <1>2. \A g \in Generators : DOMAIN created[g] = {} /\ Len(created[g]) = 0
    <2>1. \A g \in Generators : created[g] = <<>>
      BY DEF Init
    <2>2. DOMAIN <<>> = {} /\ Len(<<>>) = 0
      OBVIOUS
    <2> QED
      BY <2>1, <2>2
  <1>3. \A g \in Generators : ListIsOwn(g) /\ ListFits(g)
    BY <1>2 DEF Init, ListIsOwn, ListFits
  <1>4. \A p \in Paths : file[p] = None
    BY DEF Init
  <1>5. \A p \in Paths : IsListed(p)
    BY <1>4 DEF IsListed
  <1>6. UnlinkIsLate
    BY DEF Init, UnlinkIsLate
  <1> QED
    BY <1>1, <1>3, <1>5, <1>6 DEF KInv

\* An invocation that has created nothing yet goes on, or gives up.
LEMMA EarlyKeeps ==
    ASSUME KInv, NEW g \in Generators, pc[g] \in Early, UNCHANGED <<file, created>>,
           NEW p \in Early \cup {"refused", "open"}, pc' = [pc EXCEPT ![g] = p],
           target' \in [Generators -> 1 .. 2], p = "open" => target'[g] = 1,
           \A h \in Generators : h # g => target'[h] = target[h],
           \/ trouble' = trouble
           \/ trouble' = [trouble EXCEPT ![g] = "io"]
    PROVE  KInv'
  <1>1. Shape'
    <2>1. p \in Places
      BY DEF Places
    <2>2. pc' \in [Generators -> Places]
      BY <2>1 DEF KInv, Shape
    <2>3. trouble' \in [Generators -> {"none", "io", "unlink"}]
      BY DEF KInv, Shape
    <2> QED
      BY <2>2, <2>3 DEF KInv, Shape
  <1>2. \A h \in Generators : ListIsOwn(h)'
    BY DEF KInv, ListIsOwn, Own
  <1>3. \A h \in Generators : ListFits(h)'
    <2>1. Len(created[g]) = 0
      BY DEF KInv, ListFits
    <2>2. /\ pc'[g] = p /\ p \notin {"write", "done"}
          /\ \A h \in Generators : h # g => pc'[h] = pc[h]
      BY DEF KInv, Shape, Early
    <2>3. ListFits(g)'
      BY <2>1, <2>2 DEF ListFits
    <2>4. ASSUME NEW h \in Generators, h # g
          PROVE  ListFits(h)'
      BY <2>2, <2>4 DEF KInv, ListFits, Holds
    <2> QED
      BY <2>3, <2>4
  <1>4. trouble[g] # "unlink"
    BY DEF KInv, UnlinkIsLate, Early
  <1>5. \A h \in Generators : trouble'[h] = "unlink" <=> trouble[h] = "unlink"
    BY <1>4 DEF KInv, Shape
  <1>6. \A q \in Paths : IsListed(q)'
    <2>1. \A q \in Paths : file[q] # None => file[q].owner \in Generators
      BY OwnersAre DEF KInv
    <2> QED
      BY <1>5, <2>1 DEF KInv, IsListed
  <1>7. UnlinkIsLate'
    BY <1>4, <1>5 DEF KInv, Shape, UnlinkIsLate
  <1> QED
    BY <1>1, <1>2, <1>3, <1>6, <1>7 DEF KInv

\* An invocation stops where it is, to clean up or for good.
LEMMA StopKeeps ==
    ASSUME KInv, NEW g \in Generators, UNCHANGED <<file, created, target>>,
           NEW p \in {"cleanup", "killed"}, pc' = [pc EXCEPT ![g] = p],
           \/ trouble' = trouble
           \/ trouble[g] # "unlink" /\ trouble' = [trouble EXCEPT ![g] = "io"]
    PROVE  KInv'
  <1>1. Shape'
    <2>1. p \in Places
      BY DEF Places
    <2>2. pc' \in [Generators -> Places]
      BY <2>1 DEF KInv, Shape
    <2>3. trouble' \in [Generators -> {"none", "io", "unlink"}]
      BY DEF KInv, Shape
    <2> QED
      BY <2>2, <2>3 DEF KInv, Shape
  <1>2. \A h \in Generators : ListIsOwn(h)'
    BY DEF KInv, ListIsOwn, Own
  <1>3. /\ pc'[g] = p /\ p \notin Early
        /\ \A h \in Generators : h # g => pc'[h] = pc[h]
    BY DEF KInv, Shape, Early
  <1>4. \A h \in Generators : ListFits(h)'
    <2>1. ListFits(g)'
      BY <1>3 DEF ListFits
    <2>2. ASSUME NEW h \in Generators, h # g
          PROVE  ListFits(h)'
      BY <1>3, <2>2 DEF KInv, ListFits, Holds
    <2> QED
      BY <2>1, <2>2
  <1>5. \A h \in Generators : trouble'[h] = "unlink" <=> trouble[h] = "unlink"
    BY DEF KInv, Shape
  <1>6. \A q \in Paths : IsListed(q)'
    <2>1. \A q \in Paths : file[q] # None => file[q].owner \in Generators
      BY OwnersAre DEF KInv
    <2> QED
      BY <1>5, <2>1 DEF KInv, IsListed
  <1>7. UnlinkIsLate'
    BY <1>3, <1>5 DEF KInv, UnlinkIsLate
  <1> QED
    BY <1>1, <1>2, <1>4, <1>6, <1>7 DEF KInv

\* A file that changes is nobody's or one's own: it disturbs no other invocation.
LEMMA OthersStay ==
    ASSUME KInv, NEW g \in Generators, NEW p \in Paths, NEW f, file' = [file EXCEPT ![p] = f],
           file[p] = None \/ Own(g, p),
           NEW h \in Generators, h # g,
           created'[h] = created[h], pc'[h] = pc[h], target'[h] = target[h]
    PROVE  ListIsOwn(h)' /\ ListFits(h)'
  <1>1. \A q \in Paths : Own(h, q) => q # p /\ file'[q] = file[q]
    BY DEF Own, KInv, Shape
  <1>2. \A i \in 1 .. 2 : Targets(h)[i] \in Paths /\ Targets(h)'[i] = Targets(h)[i]
    BY TargetsAre DEF Targets
  <1>3. ListIsOwn(h)'
    BY <1>1, <1>2 DEF KInv, ListIsOwn, Own
  <1>4. \A i \in 1 .. 2 : Holds(Targets(h)[i], h) => Own(h, Targets(h)[i])
    BY <1>2 DEF Holds, Own, Files
  <1>5. \A i \in 1 .. 2 : Holds(Targets(h)[i], h) => Holds(Targets(h)[i], h)'
    BY <1>1, <1>2, <1>4 DEF Holds
  <1>6. ListFits(h)'
    BY <1>5 DEF KInv, ListFits
  <1> QED
    BY <1>3, <1>6

\* A target is created where there was none, and put on the list.
LEMMA CreateKeeps ==
    ASSUME KInv, NEW g \in Generators, pc[g] = "open", file[Here(g)] = None,
           Put(Here(g), Fresh(g)),
           created' = [created EXCEPT ![g] = Append(@, Noted(Here(g)))],
           Goto(g, "write"), UNCHANGED <<target, trouble>>
    PROVE  KInv'
  <1> DEFINE n == target[g]
             old == created[g]
             new == created'[g]
             entry == Noted(Here(g))
  <1>1. /\ n \in 1 .. 2 /\ Here(g) = Targets(g)[n] /\ Here(g) \in Paths
        /\ old \in Seq(Entries) /\ Len(old) = n - 1
    BY TargetsAre DEF KInv, Shape, ListFits, Here
  <1>2. entry.path = Here(g) /\ entry.verified = FALSE /\ entry \in Entries
    BY <1>1 DEF Noted, Entries
  <1>3. new = Append(old, entry)
    BY DEF KInv, Shape
  <1> HIDE DEF old, new, entry
  <1>4. /\ new \in Seq(Entries) /\ Len(new) = n
        /\ DOMAIN old = 1 .. n - 1 /\ DOMAIN new = 1 .. n
        /\ \A i \in 1 .. n - 1 : new[i] = old[i]
        /\ new[n] = entry
    BY <1>1, <1>2, <1>3
  <1> HIDE DEF n
  <1>5. \A h \in Generators : h # g => created'[h] = created[h] /\ pc'[h] = pc[h]
    BY DEF KInv, Shape, Goto
  <1>6. created' \in [Generators -> Seq(Entries)]
    <2>1. created' = [created EXCEPT ![g] = new]
      BY DEF KInv, Shape, new
    <2> QED
      BY <1>4, <2>1 DEF KInv, Shape
  <1>7. Fresh(g) \in Files /\ Fresh(g).owner = g /\ Fresh(g).data = "empty" /\ Fresh(g) # None
    BY DEF Fresh, Files
  <1>8. Shape'
    <2>1. file' \in [Paths -> Files \cup {None}]
      BY <1>1, <1>7 DEF KInv, Shape, Put
    <2>2. pc' \in [Generators -> Places]
      BY DEF KInv, Shape, Goto, Places
    <2> QED
      BY <1>6, <2>1, <2>2 DEF KInv, Shape
  <1>9. /\ file'[Here(g)] = Fresh(g)
        /\ \A q \in Paths : q # Here(g) => file'[q] = file[q]
    BY <1>1 DEF Put, KInv, Shape
  <1>10. \A i \in 1 .. 2 : Targets(g)'[i] = Targets(g)[i] /\ Targets(g)[i] \in Paths
    BY TargetsAre DEF Targets
  <1>11. ListIsOwn(g)'
    <2>1. ASSUME NEW i \in 1 .. n - 1
          PROVE  /\ i \in 1 .. 2 /\ new[i].path = Targets(g)[i]
                 /\ Own(g, Targets(g)[i]) /\ Targets(g)[i] # Here(g)
                 /\ ~new[i].verified => file[Targets(g)[i]].data = "empty"
      BY <1>1, <1>4 DEF KInv, ListIsOwn, Own, old
    <2>2. ASSUME NEW i \in DOMAIN new
          PROVE  /\ i \in 1 .. 2 /\ new[i].path = Targets(g)'[i]
                 /\ file'[Targets(g)'[i]] # None /\ file'[Targets(g)'[i]].owner = g
                 /\ ~new[i].verified => file'[Targets(g)'[i]].data = "empty"
      <3>1. CASE i = n
        BY <1>1, <1>2, <1>4, <1>7, <1>9, <1>10, <3>1
      <3>2. CASE i # n
        <4>1. i \in 1 .. n - 1
          BY <1>1, <1>4, <3>2
        <4> QED
          BY <1>9, <1>10, <2>1, <4>1 DEF Own
      <3> QED
        BY <3>1, <3>2
    <2> QED
      BY <2>2 DEF ListIsOwn, Own, new
  <1>12. ListFits(g)'
    <2>1. pc'[g] = "write" /\ target'[g] = n /\ Len(created'[g]) = n
      BY <1>4 DEF KInv, Shape, Goto, new, n
    <2>2. n = 2 => Holds(Targets(g)[1], g)'
      <3>1. n = 2 => Holds(Targets(g)[1], g)
        BY DEF KInv, ListFits, n
      <3>2. n = 2 => Targets(g)[1] # Here(g)
        BY <1>1, TargetsAre
      <3> QED
        BY <1>9, <1>10, <3>1, <3>2 DEF Holds
    <2> QED
      BY <2>1, <2>2 DEF ListFits, Early
  <1>13. ASSUME NEW h \in Generators, h # g
         PROVE  ListIsOwn(h)' /\ ListFits(h)'
    BY <1>1, <1>5, <1>13, OthersStay DEF Put
  <1>14. ASSUME NEW q \in Paths
         PROVE  IsListed(q)'
    <2>1. CASE q = Here(g)
      BY <1>1, <1>2, <1>4, <1>7, <1>9, <2>1 DEF IsListed, new
    <2>2. CASE q # Here(g) /\ file[q] # None
      <3>1. file'[q] = file[q] /\ file[q].owner \in Generators
        BY <1>9, <2>2, OwnersAre DEF KInv
      <3>2. CASE file[q].owner = g
        <4>1. (\E i \in 1 .. n - 1 : old[i].path = q) => \E i \in 1 .. n : new[i].path = q
          BY <1>1, <1>4
        <4> QED
          BY <1>4, <2>2, <3>1, <3>2, <4>1 DEF KInv, IsListed, new, old
      <3>3. CASE file[q].owner # g
        BY <1>5, <2>2, <3>1, <3>3 DEF KInv, IsListed
      <3> QED
        BY <3>2, <3>3
    <2>3. CASE q # Here(g) /\ file[q] = None
      BY <1>9, <2>3 DEF IsListed
    <2> QED
      BY <2>1, <2>2, <2>3
  <1>15. UnlinkIsLate'
    BY <1>5 DEF KInv, Shape, UnlinkIsLate
  <1> QED
    BY <1>8, <1>11, <1>12, <1>13, <1>14, <1>15 DEF KInv

\* The file that is open is identified and written, wholly or not.
LEMMA WriteOwnKeeps ==
    ASSUME KInv, NEW g \in Generators, pc[g] = "write", Verified(g),
           NEW d \in {"empty", "partial", "whole"},
           file' = [file EXCEPT ![Here(g)] = [owner |-> g, data |-> d]],
           NEW p \in {"open", "done", "cleanup", "killed"}, Goto(g, p),
           target' \in [Generators -> 1 .. 2],
           \A h \in Generators : h # g => target'[h] = target[h],
           p = "open" => target[g] = 1 /\ target'[g] = 2 /\ d = "whole",
           p = "done" => target[g] = 2 /\ target'[g] = 2 /\ d = "whole",
           p # "cleanup" => trouble' = trouble,
           p = "cleanup" => trouble' = [trouble EXCEPT ![g] = "io"]
    PROVE  KInv'
  <1> DEFINE n == target[g]
             old == created[g]
             new == created'[g]
             whole == [owner |-> g, data |-> d]
  <1>1. /\ n \in 1 .. 2 /\ Here(g) = Targets(g)[n] /\ Here(g) \in Paths
        /\ old \in Seq(Entries) /\ Len(old) = n /\ DOMAIN old = 1 .. n
    BY TargetsAre DEF KInv, Shape, ListFits, Here
  <1>2. new = [old EXCEPT ![n].verified = TRUE]
    BY <1>1 DEF KInv, Shape, Verified
  <1>3. whole \in Files /\ whole.owner = g /\ whole.data = d /\ whole # None
    BY DEF Files
  <1>4. \A h \in Generators : h # g => created'[h] = created[h] /\ pc'[h] = pc[h]
    BY DEF KInv, Shape, Goto, Verified
  <1>5. pc'[g] = p
    BY DEF KInv, Shape, Goto
  <1> HIDE DEF old, new, whole
  <1>6. /\ new \in Seq(Entries) /\ Len(new) = n /\ DOMAIN new = 1 .. n
        /\ \A i \in 1 .. n : new[i].path = old[i].path /\ (i # n => new[i] = old[i])
        /\ new[n].verified = TRUE
    <2>1. old[n] \in Entries
      BY <1>1
    <2> DEFINE entry == [old[n] EXCEPT !.verified = TRUE]
    <2>2. new = [old EXCEPT ![n] = entry]
      BY <1>2
    <2>3. entry.path = old[n].path /\ entry.verified = TRUE /\ entry \in Entries
      BY <2>1 DEF Entries
    <2> HIDE DEF entry
    <2>4. /\ new \in Seq(Entries) /\ Len(new) = n
          /\ \A i \in 1 .. n : new[i] = IF i = n THEN entry ELSE old[i]
      BY <1>1, <2>2, <2>3, ExceptSeq
    <2>5. DOMAIN new = 1 .. n
      BY <2>4
    <2> QED
      BY <1>1, <2>3, <2>4, <2>5
  <1> HIDE DEF n
  <1>7. created' \in [Generators -> Seq(Entries)]
    <2>1. created' = [created EXCEPT ![g] = new]
      BY DEF KInv, Shape, Verified, new
    <2> QED
      BY <1>6, <2>1 DEF KInv, Shape
  <1>8. Shape'
    <2>1. file' \in [Paths -> Files \cup {None}]
      BY <1>1, <1>3 DEF KInv, Shape, whole
    <2>2. pc' \in [Generators -> Places]
      BY DEF KInv, Shape, Goto, Places
    <2>3. trouble' \in [Generators -> {"none", "io", "unlink"}]
      BY DEF KInv, Shape
    <2> QED
      BY <1>7, <2>1, <2>2, <2>3 DEF Shape
  <1>9. /\ file'[Here(g)] = whole
        /\ \A q \in Paths : q # Here(g) => file'[q] = file[q]
    BY <1>1 DEF KInv, Shape, whole
  <1>10. \A i \in 1 .. 2 : Targets(g)'[i] = Targets(g)[i] /\ Targets(g)[i] \in Paths
    BY TargetsAre DEF Targets
  <1>11. Own(g, Here(g))
    BY <1>1 DEF KInv, ListIsOwn, old
  <1>12. ListIsOwn(g)'
    <2>1. ASSUME NEW i \in 1 .. n
          PROVE  /\ i \in 1 .. 2 /\ new[i].path = Targets(g)[i]
                 /\ i # n => /\ Own(g, Targets(g)[i]) /\ Targets(g)[i] # Here(g)
                             /\ ~new[i].verified => file[Targets(g)[i]].data = "empty"
      <3>1. /\ i \in 1 .. 2 /\ old[i].path = Targets(g)[i]
            /\ Own(g, Targets(g)[i])
            /\ ~old[i].verified => file[Targets(g)[i]].data = "empty"
        BY <1>1 DEF KInv, ListIsOwn, old
      <3>2. i # n => Targets(g)[i] # Here(g)
        BY <1>1, <3>1, TargetsAre
      <3> QED
        BY <1>6, <3>1, <3>2
    <2>2. ASSUME NEW i \in DOMAIN new
          PROVE  /\ i \in 1 .. 2 /\ new[i].path = Targets(g)'[i]
                 /\ file'[Targets(g)'[i]] # None /\ file'[Targets(g)'[i]].owner = g
                 /\ ~new[i].verified => file'[Targets(g)'[i]].data = "empty"
      <3>1. CASE i = n
        BY <1>1, <1>3, <1>6, <1>9, <1>10, <2>1, <3>1
      <3>2. CASE i # n
        BY <1>6, <1>9, <1>10, <2>1, <3>2 DEF Own
      <3> QED
        BY <3>1, <3>2
    <2> QED
      BY <2>2 DEF ListIsOwn, Own, new
  <1>13. ListFits(g)'
    <2>1. Len(created'[g]) = n
      BY <1>6 DEF new
    <2>2. d = "whole" => \A q \in Paths : q = Here(g) => Holds(q, g)'
      BY <1>9 DEF Holds, whole
    <2>3. n = 2 => Holds(Targets(g)[1], g)'
      <3>1. n = 2 => Holds(Targets(g)[1], g)
        BY DEF KInv, ListFits, n
      <3>2. n = 2 => Targets(g)[1] # Here(g)
        BY <1>1, TargetsAre
      <3> QED
        BY <1>9, <1>10, <3>1, <3>2 DEF Holds
    <2>4. CASE p = "open"
      <3>1. n = 1 /\ target'[g] = 2 /\ d = "whole"
        BY <2>4 DEF n
      <3>2. Holds(Targets(g)[1], g)'
        BY <1>1, <1>10, <2>2, <3>1
      <3> QED
        BY <1>5, <2>1, <2>4, <3>1, <3>2 DEF ListFits, Early
    <2>5. CASE p = "done"
      <3>1. n = 2 /\ d = "whole"
        BY <2>5 DEF n
      <3>2. Holds(Targets(g)[1], g)' /\ Holds(Targets(g)[2], g)'
        BY <1>1, <1>10, <2>2, <2>3, <3>1
      <3> QED
        BY <1>5, <2>1, <2>5, <3>1, <3>2 DEF ListFits, Early
    <2>6. CASE p \in {"cleanup", "killed"}
      BY <1>5, <2>6 DEF ListFits, Early
    <2> QED
      BY <2>4, <2>5, <2>6
  <1>14. ASSUME NEW h \in Generators, h # g
         PROVE  ListIsOwn(h)' /\ ListFits(h)'
    BY <1>1, <1>4, <1>11, <1>14, OthersStay
  <1>15. trouble[g] # "unlink" /\ trouble'[g] # "unlink"
    BY DEF KInv, Shape, UnlinkIsLate
  <1>16. \A h \in Generators : h # g => trouble'[h] = trouble[h]
    BY DEF KInv, Shape
  <1>17. ASSUME NEW q \in Paths
         PROVE  IsListed(q)'
    <2>1. CASE q = Here(g)
      <3>1. new[n].path = q
        BY <1>1, <1>6, <2>1 DEF KInv, ListIsOwn, old
      <3> QED
        BY <1>1, <1>3, <1>6, <1>9, <2>1, <3>1 DEF IsListed, new
    <2>2. CASE q # Here(g) /\ file[q] # None
      <3>1. file'[q] = file[q] /\ file[q].owner \in Generators
        BY <1>9, <2>2, OwnersAre DEF KInv
      <3>2. CASE file[q].owner = g
        <4>1. \E i \in 1 .. n : old[i].path = q
          BY <1>1, <1>15, <2>2, <3>2 DEF KInv, IsListed, old
        <4>2. PICK i \in 1 .. n : new[i].path = q
          BY <1>6, <4>1
        <4>3. i \in DOMAIN created'[g] /\ created'[g][i].path = q
          BY <1>6, <4>2 DEF new
        <4> QED
          BY <3>1, <3>2, <4>3 DEF IsListed
      <3>3. CASE file[q].owner # g
        BY <1>4, <1>16, <2>2, <3>1, <3>3 DEF KInv, IsListed
      <3> QED
        BY <3>2, <3>3
    <2>3. CASE q # Here(g) /\ file[q] = None
      BY <1>9, <2>3 DEF IsListed
    <2> QED
      BY <2>1, <2>2, <2>3
  <1>18. UnlinkIsLate'
    BY <1>4, <1>15, <1>16 DEF KInv, UnlinkIsLate
  <1> QED
    BY <1>8, <1>12, <1>13, <1>14, <1>17, <1>18 DEF KInv

\* The last entry is taken off, and its file removed: it may be, since it is the
\* invocation's own and empty if it was not identified.
LEMMA CleanUpKeeps ==
    ASSUME KInv, NEW g \in Generators, CleanUp(g)
    PROVE  KInv'
  <1> DEFINE n == Len(created[g])
             old == created[g]
             new == created'[g]
             last == old[n]
  <1>1. CASE created[g] = <<>> /\ Goto(g, "refused") /\ UNCHANGED <<file, created, trouble>>
    <2>1. Len(created[g]) = 0
      BY <1>1
    <2>2. /\ pc[g] = "cleanup" /\ target' = target /\ pc'[g] = "refused"
          /\ pc' \in [Generators -> Places]
          /\ \A h \in Generators : h # g => pc'[h] = pc[h]
      BY <1>1 DEF CleanUp, KInv, Shape, Goto, Places
    <2>3. Shape'
      BY <1>1, <2>2 DEF KInv, Shape
    <2>4. \A h \in Generators : ListIsOwn(h)'
      BY <1>1 DEF KInv, ListIsOwn, Own
    <2>5. ListFits(g)'
      BY <1>1, <2>1, <2>2 DEF ListFits
    <2>6. ASSUME NEW h \in Generators, h # g
          PROVE  ListFits(h)'
      BY <1>1, <2>2, <2>6 DEF KInv, ListFits, Holds
    <2>7. \A q \in Paths : IsListed(q)'
      BY <1>1 DEF KInv, IsListed
    <2>8. UnlinkIsLate'
      BY <1>1, <2>2 DEF KInv, UnlinkIsLate
    <2> QED
      BY <2>3, <2>4, <2>5, <2>6, <2>7, <2>8 DEF KInv
  <1>2. CASE /\ created[g] # <<>>
             /\ created' = [created EXCEPT ![g] = SubSeq(@, 1, Len(@) - 1)]
             /\ \/ MayRemove(g, last) /\ Put(last.path, None) /\ UNCHANGED trouble
                \/ ~MayRemove(g, last) /\ UNCHANGED <<file, trouble>>
                \/ trouble' = [trouble EXCEPT ![g] = "unlink"] /\ UNCHANGED file
             /\ UNCHANGED pc
    <2>1. pc[g] = "cleanup" /\ UNCHANGED <<directory, target>>
      BY DEF CleanUp
    <2>2. /\ old \in Seq(Entries) /\ n \in Nat /\ n # 0 /\ DOMAIN old = 1 .. n
      BY <1>2 DEF KInv, Shape
    <2>3. n \in 1 .. 2 /\ last.path = Targets(g)[n] /\ Targets(g)[n] \in Paths
      <3>1. n \in DOMAIN created[g]
        BY <2>2
      <3> QED
        BY <3>1, TargetsAre DEF KInv, ListIsOwn
    <2>4. Own(g, last.path) /\ (~last.verified => file[last.path].data = "empty")
      BY <2>2, <2>3 DEF KInv, ListIsOwn
    <2>5. MayRemove(g, last)
      BY <2>4 DEF MayRemove, Own
    <2>6. new = SubSeq(old, 1, n - 1)
      BY <1>2 DEF KInv, Shape
    <2>7. /\ new \in Seq(Entries) /\ Len(new) = n - 1 /\ DOMAIN new = 1 .. n - 1
          /\ \A i \in 1 .. n - 1 : new[i] = old[i]
      BY <2>2, <2>3, <2>6
    <2>8. created' \in [Generators -> Seq(Entries)]
      <3>1. created' = [created EXCEPT ![g] = new]
        BY <1>2 DEF KInv, Shape
      <3> QED
        BY <2>7, <3>1 DEF KInv, Shape
    <2>9. \A h \in Generators : h # g => created'[h] = created[h]
      BY <1>2 DEF KInv, Shape
    <2>10. \A i \in 1 .. 2 : Targets(g)'[i] = Targets(g)[i] /\ Targets(g)[i] \in Paths
      BY TargetsAre DEF Targets
    <2>11. ListFits(g)'
      BY <1>2, <2>1 DEF ListFits, Early
    <2>12. ASSUME NEW i \in 1 .. n - 1
           PROVE  /\ i \in 1 .. 2 /\ new[i].path = Targets(g)[i] /\ Targets(g)[i] # last.path
                  /\ Own(g, Targets(g)[i])
                  /\ ~new[i].verified => file[Targets(g)[i]].data = "empty"
      <3>1. /\ i \in 1 .. 2 /\ old[i].path = Targets(g)[i]
            /\ Own(g, Targets(g)[i])
            /\ ~old[i].verified => file[Targets(g)[i]].data = "empty"
        BY <2>2 DEF KInv, ListIsOwn
      <3>2. i = 1 /\ n = 2
        BY <2>3
      <3> QED
        BY <2>3, <2>7, <3>1, <3>2, TargetsAre
    <2> HIDE DEF n, old, new, last
    <2>13. CASE file' = [file EXCEPT ![last.path] = None] /\ trouble' = trouble
      <3>1. /\ file'[last.path] = None
            /\ \A q \in Paths : q # last.path => file'[q] = file[q]
        BY <2>3, <2>13 DEF KInv, Shape
      <3>2. Shape'
        BY <1>2, <2>1, <2>3, <2>8, <2>13 DEF KInv, Shape
      <3>3. ListIsOwn(g)'
        <4>1. ASSUME NEW i \in DOMAIN new
              PROVE  /\ i \in 1 .. 2 /\ new[i].path = Targets(g)'[i]
                     /\ file'[Targets(g)'[i]] # None /\ file'[Targets(g)'[i]].owner = g
                     /\ ~new[i].verified => file'[Targets(g)'[i]].data = "empty"
          BY <2>7, <2>10, <2>12, <3>1 DEF Own
        <4> QED
          BY <4>1 DEF ListIsOwn, Own, new
      <3>4. ASSUME NEW h \in Generators, h # g
            PROVE  ListIsOwn(h)' /\ ListFits(h)'
        BY <1>2, <2>1, <2>3, <2>4, <2>9, <2>13, <3>4, OthersStay
      <3>5. ASSUME NEW q \in Paths, file'[q] # None
            PROVE  IsListed(q)'
        <4>1. q # last.path /\ file'[q] = file[q] /\ file[q].owner \in Generators
          BY <3>1, <3>5, OwnersAre DEF KInv
        <4>2. CASE file[q].owner = g
          <5>1. \/ trouble[g] = "unlink"
                \/ \E i \in 1 .. n : old[i].path = q
            BY <2>2, <3>5, <4>1, <4>2 DEF KInv, IsListed, old
          <5>2. (\E i \in 1 .. n : old[i].path = q) => \E i \in 1 .. n - 1 : new[i].path = q
            BY <2>2, <2>7, <4>1 DEF last
          <5> QED
            BY <2>7, <2>13, <4>1, <4>2, <5>1, <5>2 DEF IsListed, new
        <4>3. CASE file[q].owner # g
          BY <2>9, <2>13, <3>5, <4>1, <4>3 DEF KInv, IsListed
        <4> QED
          BY <4>2, <4>3
      <3>6. \A q \in Paths : IsListed(q)'
        BY <3>5 DEF IsListed
      <3>7. UnlinkIsLate'
        BY <1>2, <2>13 DEF KInv, UnlinkIsLate
      <3> QED
        BY <2>11, <3>2, <3>3, <3>4, <3>6, <3>7 DEF KInv
    <2>14. CASE trouble' = [trouble EXCEPT ![g] = "unlink"] /\ UNCHANGED file
      <3>1. /\ trouble'[g] = "unlink" /\ trouble' \in [Generators -> {"none", "io", "unlink"}]
            /\ \A h \in Generators : h # g => trouble'[h] = trouble[h]
        BY <2>14 DEF KInv, Shape
      <3>2. Shape'
        BY <1>2, <2>1, <2>8, <2>14, <3>1 DEF KInv, Shape
      <3>3. ListIsOwn(g)'
        <4>1. ASSUME NEW i \in DOMAIN new
              PROVE  /\ i \in 1 .. 2 /\ new[i].path = Targets(g)'[i]
                     /\ file'[Targets(g)'[i]] # None /\ file'[Targets(g)'[i]].owner = g
                     /\ ~new[i].verified => file'[Targets(g)'[i]].data = "empty"
          BY <2>7, <2>10, <2>12, <2>14 DEF Own
        <4> QED
          BY <4>1 DEF ListIsOwn, Own, new
      <3>4. ASSUME NEW h \in Generators, h # g
            PROVE  ListIsOwn(h)' /\ ListFits(h)'
        BY <1>2, <2>1, <2>9, <2>14, <3>4 DEF KInv, ListIsOwn, ListFits, Own, Holds
      <3>5. ASSUME NEW q \in Paths, file[q] # None
            PROVE  IsListed(q)'
        <4>1. file[q].owner \in Generators
          BY <3>5, OwnersAre DEF KInv
        <4> QED
          BY <2>9, <2>14, <3>1, <3>5, <4>1 DEF KInv, IsListed
      <3>6. \A q \in Paths : IsListed(q)'
        BY <2>14, <3>5 DEF IsListed
      <3>7. UnlinkIsLate'
        BY <1>2, <2>1, <3>1 DEF KInv, UnlinkIsLate
      <3> QED
        BY <2>11, <3>2, <3>3, <3>4, <3>6, <3>7 DEF KInv
    <2> QED
      BY <1>2, <2>5, <2>13, <2>14 DEF Put
  <1> QED
    BY <1>1, <1>2 DEF CleanUp

\* An invocation turns to a target of its.
LEMMA TargetMoves ==
    ASSUME Shape, NEW g \in Generators, NEW i \in {1, 2}, target' = [target EXCEPT ![g] = i]
    PROVE  /\ target' \in [Generators -> 1 .. 2] /\ target'[g] = i
           /\ \A h \in Generators : h # g => target'[h] = target[h]
  BY DEF Shape

\* Every step keeps the invariant.
LEMMA NextKeeps ==
    ASSUME KInv, [Next]_vars
    PROVE  KInv'
  <1>1. ASSUME NEW g \in Generators, LookAtDirectory(g) \/ MakeDirectory(g) \/ SecureDirectory(g)
        PROVE  KInv'
    <2>1. pc[g] \in Early /\ target' \in [Generators -> 1 .. 2]
      BY <1>1 DEF LookAtDirectory, MakeDirectory, SecureDirectory, Early, KInv, Shape
    <2>2. PICK p \in Early \cup {"refused"} : /\ pc' = [pc EXCEPT ![g] = p]
                                             /\ \/ trouble' = trouble
                                                \/ trouble' = [trouble EXCEPT ![g] = "io"]
      BY <1>1 DEF LookAtDirectory, MakeDirectory, SecureDirectory, Early, Goto, Denied
    <2>3. UNCHANGED <<file, target, created>> /\ p # "open"
      BY <1>1 DEF LookAtDirectory, MakeDirectory, SecureDirectory, Early
    <2> QED
      BY <2>1, <2>2, <2>3, EarlyKeeps
  <1>2. ASSUME NEW g \in Generators, Inspect(g)
        PROVE  KInv'
    <2>1. pc[g] = "inspect" /\ pc[g] \in Early /\ UNCHANGED <<file, created>>
      BY <1>2 DEF Inspect, Early
    <2>2. PICK p \in Early \cup {"refused", "open"} :
             /\ pc' = [pc EXCEPT ![g] = p]
             /\ trouble' = trouble \/ trouble' = [trouble EXCEPT ![g] = "io"]
             /\ p = "open" => target' = [target EXCEPT ![g] = 1]
             /\ p # "open" => target' = target \/ target' = [target EXCEPT ![g] = 2]
      <3>1. CASE UNCHANGED pc
        <4>1. pc' = [pc EXCEPT ![g] = "inspect"]
          BY <2>1, <3>1 DEF KInv, Shape
        <4> QED
          BY <1>2, <2>1, <3>1, <4>1 DEF Inspect, Early, Goto, Denied
      <3>2. CASE pc' # pc
        BY <1>2, <3>2 DEF Inspect, Goto, Denied
      <3> QED
        BY <3>1, <3>2
    <2>3. /\ target' \in [Generators -> 1 .. 2] /\ (p = "open" => target'[g] = 1)
          /\ \A h \in Generators : h # g => target'[h] = target[h]
      <3>1. target' = target => target' \in [Generators -> 1 .. 2]
        BY DEF KInv, Shape
      <3> QED
        BY <2>2, <3>1, TargetMoves DEF KInv
    <2> QED
      BY <2>1, <2>2, <2>3, EarlyKeeps
  <1>3. ASSUME NEW g \in Generators, OpenExclusive(g)
        PROVE  KInv'
    <2>1. pc[g] = "open" /\ UNCHANGED <<directory, target>> /\ trouble[g] # "unlink"
      BY <1>3 DEF OpenExclusive, KInv, UnlinkIsLate
    <2>2. CASE /\ file[Here(g)] = None /\ Put(Here(g), Fresh(g))
               /\ created' = [created EXCEPT ![g] = Append(@, Noted(Here(g)))]
               /\ Goto(g, "write") /\ UNCHANGED trouble
      BY <2>1, <2>2, CreateKeeps
    <2>3. CASE Goto(g, "cleanup") /\ UNCHANGED <<file, created, trouble>>
      BY <2>1, <2>3, StopKeeps DEF Goto
    <2>4. CASE Denied(g, "cleanup") /\ UNCHANGED <<file, created>>
      BY <2>1, <2>4, StopKeeps DEF Denied, Goto
    <2> QED
      BY <1>3, <2>2, <2>3, <2>4 DEF OpenExclusive
  <1>4. ASSUME NEW g \in Generators, Write(g)
        PROVE  KInv'
    <2>1. pc[g] = "write" /\ trouble[g] # "unlink" /\ target[g] \in 1 .. 2
      BY <1>4 DEF Write, KInv, Shape, UnlinkIsLate
    <2>2. Own(g, Here(g))
      <3>1. target[g] \in DOMAIN created[g]
        BY <2>1 DEF KInv, Shape, ListFits
      <3> QED
        BY <3>1 DEF KInv, ListIsOwn, Here
    <2>3. CASE /\ Verified(g) /\ Put(Here(g), [owner |-> g, data |-> "whole"])
               /\ IF target[g] = 1
                  THEN target' = [target EXCEPT ![g] = 2] /\ Goto(g, "open")
                  ELSE Goto(g, "done") /\ UNCHANGED target
               /\ UNCHANGED trouble
      <3>1. CASE target[g] = 1
        <4>1. /\ target' \in [Generators -> 1 .. 2] /\ target'[g] = 2
              /\ \A h \in Generators : h # g => target'[h] = target[h]
          BY <2>3, <3>1, TargetMoves DEF KInv
        <4> QED
          BY <2>1, <2>3, <3>1, <4>1, WriteOwnKeeps DEF Put
      <3>2. CASE target[g] # 1
        <4>1. target[g] = 2 /\ target' = target /\ target' \in [Generators -> 1 .. 2]
          BY <2>1, <2>3, <3>2 DEF KInv, Shape
        <4> QED
          BY <2>1, <2>3, <3>2, <4>1, WriteOwnKeeps DEF Put
      <3> QED
        BY <3>1, <3>2
    <2>4. CASE Denied(g, "cleanup") /\ UNCHANGED <<file, target, created>>
      BY <2>1, <2>4, StopKeeps DEF Denied, Goto
    <2>5. CASE Denied(g, "cleanup") /\ HalfWritten(g) /\ UNCHANGED target
      <3>1. PICK d \in {"empty", "partial", "whole"} :
               Verified(g) /\ file' = [file EXCEPT ![Here(g)] = [owner |-> g, data |-> d]]
        BY <2>2, <2>5 DEF HalfWritten
      <3>2. target' \in [Generators -> 1 .. 2]
        BY <2>5 DEF KInv, Shape
      <3> QED
        BY <2>1, <2>5, <3>1, <3>2, WriteOwnKeeps DEF Denied
    <2> QED
      BY <1>4, <2>2, <2>3, <2>4, <2>5 DEF Write
  <1>5. ASSUME NEW g \in Generators, Killed(g)
        PROVE  KInv'
    <2>1. CASE UNCHANGED <<file, created>>
      BY <1>5, <2>1, StopKeeps DEF Killed, Goto
    <2>2. CASE pc[g] = "write" /\ HalfWritten(g)
      <3>1. Own(g, Here(g))
        <4>1. target[g] \in DOMAIN created[g]
          BY <2>2 DEF KInv, Shape, ListFits
        <4> QED
          BY <4>1 DEF KInv, ListIsOwn, Here, Shape
      <3>2. PICK d \in {"empty", "partial", "whole"} :
               Verified(g) /\ file' = [file EXCEPT ![Here(g)] = [owner |-> g, data |-> d]]
        BY <2>2, <3>1 DEF HalfWritten
      <3>3. /\ Goto(g, "killed") /\ trouble' = trouble /\ target' = target
            /\ target' \in [Generators -> 1 .. 2]
        BY <1>5 DEF Killed, KInv, Shape
      <3> QED
        BY <2>2, <3>2, <3>3, WriteOwnKeeps
    <2> QED
      BY <1>5, <2>1, <2>2 DEF Killed
  <1>6. CASE UNCHANGED vars
    <2>1. UNCHANGED <<file, pc, target, created, trouble>>
      BY <1>6 DEF vars
    <2>2. Shape'
      BY <2>1 DEF KInv, Shape
    <2>3. UnlinkIsLate'
      BY <2>1 DEF KInv, UnlinkIsLate
    <2>4. \A g \in Generators : ListIsOwn(g)'
      BY <2>1 DEF KInv, ListIsOwn, Own
    <2>5. \A g \in Generators : ListFits(g)'
      BY <2>1 DEF KInv, ListFits, Holds
    <2>6. \A p \in Paths : IsListed(p)'
      BY <2>1 DEF KInv, IsListed
    <2> QED
      BY <2>2, <2>3, <2>4, <2>5, <2>6 DEF KInv
  <1> QED
    BY <1>1, <1>2, <1>3, <1>4, <1>5, <1>6, CleanUpKeeps DEF Next
-----------------------------------------------------------------------------
(***************************************************************************)
(* When nobody is killed and the file system denies nothing.               *)
(***************************************************************************)
Quiet == \A g \in Generators : trouble[g] = "none" /\ pc[g] # "killed"

\* An invocation that can no longer be beaten to the directory, or its file.
Ahead(g) == pc[g] \in {"chmod", "inspect", "open", "write", "done"}

\* Files stay, and with them their owners: who has the private key is creating
\* the public one, and nobody else can.
FilesAreClaimed ==
    /\ \A p \in Paths : file[p] # None => pc[file[p].owner] \in {"open", "write", "done"}
    /\ \A g \in Generators : file[Targets(g)[2]] # None =>
          file[Targets(g)[1]] # None /\ file[Targets(g)[1]].owner = file[Targets(g)[2]].owner

\* Who is beaten was beaten by one that is ahead.
SomebodyIsAhead ==
    /\ directory \in {"absent", "open", "private", "other"}
    /\ directory = "absent" => \A g \in Generators : pc[g] \in {"look", "mkdir"}
    /\ directory = "other" => \A g \in Generators : pc[g] \in {"look", "refused"}
    /\ \A g \in Generators :
          /\ directory \in {"open", "private"}
          /\ pc[g] \in {"mkdir", "cleanup", "refused"}
          => \E h \in Generators : Ahead(h)

\* The inductive invariant of a quiet race, given KInv.
RaceInv == Quiet => FilesAreClaimed /\ SomebodyIsAhead

\* Nobody owns a file or has been beaten before the first call.
LEMMA RaceBegins == Init => RaceInv
  <1> SUFFICES ASSUME Init
               PROVE  FilesAreClaimed /\ SomebodyIsAhead
    BY DEF RaceInv
  <1>1. \A p \in Paths : file[p] = None
    BY DEF Init
  <1>2. FilesAreClaimed
    BY <1>1, TargetsAre DEF FilesAreClaimed
  <1>3. SomebodyIsAhead
    BY DEF Init, SomebodyIsAhead
  <1> QED
    BY <1>2, <1>3

\* What is quiet was quiet, and was denied nothing by the last step either.
LEMMA QuietWas ==
    ASSUME KInv, Next, Quiet'
    PROVE  Quiet /\ trouble' = trouble
  <1>1. PICK g \in Generators :
           \/ LookAtDirectory(g) \/ MakeDirectory(g) \/ SecureDirectory(g)
           \/ Inspect(g) \/ OpenExclusive(g) \/ Write(g) \/ CleanUp(g) \/ Killed(g)
    BY DEF Next
  <1>2. \/ trouble' = trouble
        \/ trouble' = [trouble EXCEPT ![g] = "io"]
        \/ trouble' = [trouble EXCEPT ![g] = "unlink"]
    BY <1>1 DEF LookAtDirectory, MakeDirectory, SecureDirectory, Inspect, OpenExclusive, Write,
       CleanUp, Killed, Denied
  <1>3. trouble' = trouble
    <2>1. trouble'[g] = "none"
      BY DEF Quiet
    <2> QED
      BY <1>2, <2>1 DEF KInv, Shape
  <1>4. pc[g] # "killed" /\ \A h \in Generators : h # g => pc'[h] = pc[h]
    <2>1. pc[g] # "killed"
      BY <1>1 DEF LookAtDirectory, MakeDirectory, SecureDirectory, Inspect, OpenExclusive, Write,
         CleanUp, Killed
    <2>2. \E p : pc' = [pc EXCEPT ![g] = p] \/ pc' = pc
      BY <1>1 DEF LookAtDirectory, MakeDirectory, SecureDirectory, Inspect, OpenExclusive, Write,
         CleanUp, Killed, Denied, Goto
    <2> QED
      BY <2>1, <2>2 DEF KInv, Shape
  <1> QED
    BY <1>3, <1>4 DEF Quiet

\* A step of an invocation that leaves the files alone.
LEMMA FilesStayClaimed ==
    ASSUME KInv, Quiet, FilesAreClaimed, NEW g \in Generators, file' = file,
           \A h \in Generators : h # g => pc'[h] = pc[h],
           pc[g] \in {"open", "write", "done"} => pc'[g] \in {"open", "write", "done"}
    PROVE  FilesAreClaimed'
  <1>1. \A p \in Paths : file[p] # None => file[p].owner \in Generators
    BY OwnersAre DEF KInv
  <1>2. \A h \in Generators : \A i \in 1 .. 2 : Targets(h)'[i] = Targets(h)[i]
    BY DEF Targets
  <1> QED
    BY <1>1, <1>2 DEF FilesAreClaimed

\* Somebody is ahead after a step of g if it is g, or another that was before.
LEMMA OthersStayAhead ==
    ASSUME SomebodyIsAhead, NEW g \in Generators,
           directory' \in {"open", "private"},
           \A h \in Generators : h # g => pc'[h] = pc[h],
           \/ Ahead(g)'
           \/ \E h \in Generators : h # g /\ Ahead(h)
           \/ directory \in {"open", "private"} /\ pc[g] \in {"mkdir", "cleanup"}
    PROVE  SomebodyIsAhead'
  <1>1. Ahead(g)' \/ \E h \in Generators : h # g /\ Ahead(h)
    BY DEF SomebodyIsAhead, Ahead
  <1>2. \E h \in Generators : Ahead(h)'
    BY <1>1 DEF Ahead
  <1> QED
    BY <1>2 DEF SomebodyIsAhead

\* A step of a quiet race keeps it so that somebody wins it.
LEMMA RaceKeeps ==
    ASSUME KInv, RaceInv, [Next]_vars
    PROVE  RaceInv'
  <1> SUFFICES ASSUME Quiet', Next
               PROVE  FilesAreClaimed' /\ SomebodyIsAhead'
    <2>1. CASE UNCHANGED vars
      <3>1. UNCHANGED <<directory, file, pc, trouble>>
        BY <2>1 DEF vars
      <3>2. (Quiet' <=> Quiet) /\ (SomebodyIsAhead' <=> SomebodyIsAhead)
        BY <3>1 DEF Quiet, SomebodyIsAhead, Ahead
      <3>3. FilesAreClaimed => FilesAreClaimed'
        BY <3>1 DEF FilesAreClaimed, Targets
      <3> QED
        BY <3>2, <3>3 DEF RaceInv
    <2> QED
      BY <2>1 DEF RaceInv
  <1>1. Quiet /\ trouble' = trouble /\ FilesAreClaimed /\ SomebodyIsAhead
    BY QuietWas DEF RaceInv
  <1>2. \A h \in Generators : trouble[h] = "none" /\ trouble'[h] = "none"
    BY <1>1 DEF Quiet
  <1>3. ASSUME NEW g \in Generators, NEW p
        PROVE  ~Denied(g, p)
    <2>1. Denied(g, p) => trouble'[g] = "io"
      BY DEF Denied, KInv, Shape
    <2> QED
      BY <1>2, <2>1
  <1>4. ASSUME NEW g \in Generators, NEW p, Goto(g, p)
        PROVE  pc'[g] = p /\ \A h \in Generators : h # g => pc'[h] = pc[h]
    BY <1>4 DEF Goto, KInv, Shape
  <1>5. ASSUME NEW g \in Generators, LookAtDirectory(g)
        PROVE  FilesAreClaimed' /\ SomebodyIsAhead'
    <2>1. /\ pc[g] = "look" /\ file' = file /\ directory' = directory
          /\ Goto(g, CASE directory = "absent" -> "mkdir"
                       [] directory = "other"  -> "refused"
                       [] OTHER -> "chmod")
      BY <1>3, <1>5 DEF LookAtDirectory
    <2>2. /\ \A h \in Generators : h # g => pc'[h] = pc[h]
          /\ directory = "absent" => pc'[g] = "mkdir"
          /\ directory = "other" => pc'[g] = "refused"
          /\ directory \in {"open", "private"} => pc'[g] = "chmod"
      BY <1>4, <2>1
    <2>3. FilesAreClaimed'
      BY <1>1, <2>1, <2>2, FilesStayClaimed
    <2>4. CASE directory \in {"absent", "other"}
      <3>1. CASE directory = "absent"
        <4>1. \A h \in Generators : pc'[h] \in {"look", "mkdir"}
          BY <1>1, <2>2, <3>1 DEF SomebodyIsAhead
        <4> QED
          BY <2>1, <2>3, <3>1, <4>1 DEF SomebodyIsAhead
      <3>2. CASE directory = "other"
        <4>1. \A h \in Generators : pc'[h] \in {"look", "refused"}
          BY <1>1, <2>2, <3>2 DEF SomebodyIsAhead
        <4> QED
          BY <2>1, <2>3, <3>2, <4>1 DEF SomebodyIsAhead
      <3> QED
        BY <2>4, <3>1, <3>2
    <2>5. CASE directory \in {"open", "private"}
      <3>1. Ahead(g)'
        BY <2>2, <2>5 DEF Ahead
      <3> QED
        BY <1>1, <2>1, <2>2, <2>3, <2>5, <3>1, OthersStayAhead
    <2> QED
      BY <1>1, <2>3, <2>4, <2>5 DEF SomebodyIsAhead
  <1>6. ASSUME NEW g \in Generators, MakeDirectory(g)
        PROVE  FilesAreClaimed' /\ SomebodyIsAhead'
    <2>1. /\ pc[g] = "mkdir" /\ file' = file
          /\ \/ directory' = "private" /\ Goto(g, "chmod")
             \/ directory # "absent" /\ directory' = directory /\ Goto(g, "refused")
      BY <1>3, <1>6 DEF MakeDirectory
    <2>2. \A h \in Generators : h # g => pc'[h] = pc[h]
      BY <1>4, <2>1
    <2>3. FilesAreClaimed'
      BY <1>1, <2>1, <2>2, FilesStayClaimed
    <2>4. directory # "other"
      BY <1>1, <2>1 DEF SomebodyIsAhead
    <2>5. CASE directory' = "private" /\ Goto(g, "chmod")
      <3>1. Ahead(g)'
        BY <1>4, <2>5 DEF Ahead
      <3> QED
        BY <1>1, <2>2, <2>3, <2>5, <3>1, OthersStayAhead
    <2>6. CASE directory # "absent" /\ directory' = directory
      <3>1. directory \in {"open", "private"}
        BY <1>1, <2>4, <2>6 DEF SomebodyIsAhead
      <3> QED
        BY <1>1, <2>1, <2>2, <2>3, <2>6, <3>1, OthersStayAhead
    <2> QED
      BY <2>1, <2>5, <2>6
  <1>7. ASSUME NEW g \in Generators, SecureDirectory(g)
        PROVE  FilesAreClaimed' /\ SomebodyIsAhead'
    <2>1. pc[g] = "chmod" /\ file' = file /\ directory' = "private" /\ Goto(g, "inspect")
      BY <1>3, <1>7 DEF SecureDirectory
    <2>2. pc'[g] = "inspect" /\ \A h \in Generators : h # g => pc'[h] = pc[h]
      BY <1>4, <2>1
    <2>3. FilesAreClaimed'
      BY <1>1, <2>1, <2>2, FilesStayClaimed
    <2> QED
      BY <1>1, <2>1, <2>2, <2>3, OthersStayAhead DEF Ahead
  <1>8. ASSUME NEW g \in Generators, Ahead(g)
        PROVE  directory \in {"open", "private"}
    BY <1>1, <1>8 DEF SomebodyIsAhead, Ahead
  <1>9. ASSUME NEW g \in Generators, NEW p \in Paths, file[p] # None, ~Own(g, p)
        PROVE  \E h \in Generators : h # g /\ Ahead(h)
    <2>1. file[p].owner \in Generators /\ file[p].owner # g
      BY <1>9, OwnersAre DEF KInv, Own
    <2> QED
      BY <1>1, <1>9, <2>1 DEF FilesAreClaimed, Ahead
  <1>10. ASSUME NEW g \in Generators, Inspect(g)
         PROVE  FilesAreClaimed' /\ SomebodyIsAhead'
    <2>1. /\ pc[g] = "inspect" /\ file' = file /\ directory' = directory
          /\ \/ file[Here(g)] # None /\ Goto(g, "refused")
             \/ file[Here(g)] = None /\ (pc' = pc \/ Goto(g, "open"))
      BY <1>3, <1>10 DEF Inspect
    <2>2. \A h \in Generators : h # g => pc'[h] = pc[h]
      BY <1>4, <2>1
    <2>3. FilesAreClaimed'
      BY <1>1, <2>1, <2>2, FilesStayClaimed
    <2>4. directory \in {"open", "private"}
      BY <1>8, <2>1 DEF Ahead
    <2>5. Ahead(g)' \/ \E h \in Generators : h # g /\ Ahead(h)
      <3>1. CASE file[Here(g)] = None
        BY <1>4, <2>1, <3>1 DEF Ahead
      <3>2. CASE file[Here(g)] # None
        <4>1. Here(g) \in Paths
          BY TargetsAre DEF KInv, Shape, Here
        <4>2. ~Own(g, Here(g))
          BY <1>1, <2>1, <3>2, <4>1 DEF Own, FilesAreClaimed
        <4> QED
          BY <1>9, <3>2, <4>1, <4>2
      <3> QED
        BY <3>1, <3>2
    <2> QED
      BY <1>1, <2>1, <2>2, <2>3, <2>4, <2>5, OthersStayAhead
  <1>11. ASSUME NEW g \in Generators, OpenExclusive(g)
         PROVE  FilesAreClaimed' /\ SomebodyIsAhead'
    <2>1. pc[g] = "open" /\ directory' = directory
      BY <1>11 DEF OpenExclusive
    <2>2. directory \in {"open", "private"}
      BY <1>8, <2>1 DEF Ahead
    <2>3. /\ target[g] \in 1 .. 2 /\ Here(g) = Targets(g)[target[g]] /\ Here(g) \in Paths
          /\ Len(created[g]) = target[g] - 1 /\ DOMAIN created[g] = 1 .. target[g] - 1
      BY <2>1, TargetsAre DEF KInv, Shape, ListFits, Here
    <2>4. ~Own(g, Here(g))
      <3>1. SUFFICES ASSUME Own(g, Here(g))
                     PROVE  FALSE
        OBVIOUS
      <3>2. PICK i \in DOMAIN created[g] : created[g][i].path = Here(g)
        BY <1>2, <2>3, <3>1 DEF Own, KInv, IsListed
      <3>3. i = 1 /\ target[g] = 2 /\ created[g][i].path = Targets(g)[1]
        BY <2>3, <3>2 DEF KInv, ListIsOwn
      <3> QED
        BY <2>3, <3>2, <3>3, TargetsAre
    <2>5. CASE file[Here(g)] = None /\ Put(Here(g), Fresh(g)) /\ Goto(g, "write")
      <3>1. pc'[g] = "write" /\ \A h \in Generators : h # g => pc'[h] = pc[h]
        BY <1>4, <2>5
      <3>2. SomebodyIsAhead'
        BY <1>1, <2>1, <2>2, <3>1, OthersStayAhead DEF Ahead
      <3>3. /\ file'[Here(g)] = Fresh(g) /\ Fresh(g).owner = g /\ Fresh(g) # None
            /\ \A q \in Paths : q # Here(g) => file'[q] = file[q]
        BY <2>3, <2>5 DEF Put, Fresh, Files, KInv, Shape
      <3>4. ASSUME NEW q \in Paths, file'[q] # None
            PROVE  pc'[file'[q].owner] \in {"open", "write", "done"}
        <4>1. CASE q = Here(g)
          BY <3>1, <3>3, <4>1
        <4>2. CASE q # Here(g)
          BY <1>1, <3>1, <3>3, <3>4, <4>2, OwnersAre DEF KInv, FilesAreClaimed
        <4> QED
          BY <4>1, <4>2
      <3>5. ASSUME NEW h \in Generators, file'[Targets(h)[2]] # None
            PROVE  /\ file'[Targets(h)[1]] # None
                   /\ file'[Targets(h)[1]].owner = file'[Targets(h)[2]].owner
        <4>1. Targets(h)[1] \in Paths /\ Targets(h)[2] \in Paths /\ Targets(h)[1] # Targets(h)[2]
          BY TargetsAre
        <4>2. CASE Here(g) = Targets(h)[2]
          <5>1. target[g] = 2 /\ Targets(g)[1] = Targets(h)[1]
            <6>1. Here(g)[1] = NodeOf[h] /\ Here(g)[2] = "pub"
              BY <4>2, TargetsAre
            <6>2. target[g] = 1 => Here(g)[2] = "key"
              BY <2>3, TargetsAre
            <6>3. target[g] = 2
              BY <2>3, <6>1, <6>2
            <6>4. Here(g)[1] = NodeOf[g]
              BY <2>3, <6>3, TargetsAre
            <6> QED
              BY <6>1, <6>3, <6>4, TargetsAre
          <5>2. Holds(Targets(g)[1], g)
            BY <2>1, <5>1 DEF KInv, ListFits
          <5>3. file[Targets(g)[1]] # None /\ file[Targets(g)[1]].owner = g
            BY <5>2 DEF Holds, Files
          <5> QED
            BY <3>3, <4>1, <4>2, <5>1, <5>3
        <4>3. CASE Here(g) # Targets(h)[2]
          <5>1. /\ file[Targets(h)[2]] # None /\ file[Targets(h)[1]] # None
                /\ file[Targets(h)[1]].owner = file[Targets(h)[2]].owner
            BY <1>1, <3>3, <3>5, <4>1, <4>3 DEF FilesAreClaimed
          <5>2. Here(g) # Targets(h)[1]
            BY <2>5, <5>1
          <5> QED
            BY <3>3, <4>1, <4>3, <5>1, <5>2
        <4> QED
          BY <4>2, <4>3
      <3>6. FilesAreClaimed'
        <4>1. \A h \in Generators : \A i \in 1 .. 2 : Targets(h)'[i] = Targets(h)[i]
          BY DEF Targets
        <4> QED
          BY <3>4, <3>5, <4>1 DEF FilesAreClaimed
      <3> QED
        BY <3>2, <3>6
    <2>6. CASE file[Here(g)] # None
      <3>1. PICK h \in Generators : h # g /\ file[Here(g)].owner = h
        BY <2>3, <2>4, <2>6, OwnersAre DEF KInv, Own
      <3>2. target[g] # 2
        <4>1. SUFFICES ASSUME target[g] = 2
                       PROVE  FALSE
          OBVIOUS
        <4>2. Holds(Targets(g)[1], g)
          BY <2>1, <4>1 DEF KInv, ListFits
        <4>3. file[Targets(g)[1]].owner = g
          BY <4>2 DEF Holds
        <4> QED
          BY <1>1, <2>3, <2>6, <3>1, <4>1, <4>3 DEF FilesAreClaimed
      <3>3. created[g] = <<>> /\ file' = file /\ Goto(g, "cleanup")
        BY <1>3, <1>11, <2>3, <2>6, <3>2 DEF OpenExclusive, KInv, Shape
      <3>4. \A k \in Generators : k # g => pc'[k] = pc[k]
        BY <1>4, <3>3
      <3>5. FilesAreClaimed'
        <4>1. ASSUME NEW p \in Paths, file[p] # None
              PROVE  file[p].owner # g
          <5>1. SUFFICES ASSUME file[p].owner = g
                         PROVE  FALSE
            OBVIOUS
          <5> QED
            BY <1>2, <2>3, <3>2, <4>1, <5>1 DEF KInv, IsListed
        <4>2. \A p \in Paths : file[p] # None => file[p].owner \in Generators
          BY OwnersAre DEF KInv
        <4>3. \A k \in Generators : \A i \in 1 .. 2 : Targets(k)'[i] = Targets(k)[i]
          BY DEF Targets
        <4> QED
          BY <1>1, <3>3, <3>4, <4>1, <4>2, <4>3 DEF FilesAreClaimed
      <3>6. \E k \in Generators : k # g /\ Ahead(k)
        BY <1>9, <2>3, <2>4, <2>6
      <3> QED
        BY <1>1, <2>1, <2>2, <3>4, <3>5, <3>6, OthersStayAhead
    <2> QED
      BY <1>3, <1>11, <2>5, <2>6 DEF OpenExclusive
  <1>12. ASSUME NEW g \in Generators, Write(g)
         PROVE  FilesAreClaimed' /\ SomebodyIsAhead'
    <2>1. pc[g] = "write" /\ directory' = directory
      BY <1>12 DEF Write
    <2>2. directory \in {"open", "private"}
      BY <1>8, <2>1 DEF Ahead
    <2>3. Here(g) \in Paths /\ Own(g, Here(g))
      <3>1. target[g] \in 1 .. 2 /\ target[g] \in DOMAIN created[g]
        BY <2>1 DEF KInv, Shape, ListFits
      <3> QED
        BY <3>1, TargetsAre DEF KInv, ListIsOwn, Here
    <2>4. /\ Put(Here(g), [owner |-> g, data |-> "whole"])
          /\ Goto(g, "open") \/ Goto(g, "done")
      BY <1>3, <1>12, <2>3 DEF Write
    <2>5. pc'[g] \in {"open", "done"} /\ \A h \in Generators : h # g => pc'[h] = pc[h]
      BY <1>4, <2>4
    <2>6. SomebodyIsAhead'
      BY <1>1, <2>1, <2>2, <2>5, OthersStayAhead DEF Ahead
    <2>7. \A q \in Paths : /\ file'[q] = None <=> file[q] = None
                           /\ file[q] # None => file'[q].owner = file[q].owner
      <3>1. [owner |-> g, data |-> "whole"] # None
        BY DEF Files
      <3> QED
        BY <2>3, <2>4, <3>1 DEF Put, Own, KInv, Shape
    <2>8. \A q \in Paths : file[q] # None => file[q].owner \in Generators
      BY OwnersAre DEF KInv
    <2>9. \A h \in Generators : \A i \in 1 .. 2 :
             Targets(h)'[i] = Targets(h)[i] /\ Targets(h)[i] \in Paths
      BY TargetsAre DEF Targets
    <2>10. FilesAreClaimed'
      BY <1>1, <2>5, <2>7, <2>8, <2>9 DEF FilesAreClaimed
    <2> QED
      BY <2>6, <2>10
  <1>13. ASSUME NEW g \in Generators, CleanUp(g)
         PROVE  FilesAreClaimed' /\ SomebodyIsAhead'
    <2>1. pc[g] = "cleanup" /\ directory' = directory
      BY <1>13 DEF CleanUp
    <2>2. directory \in {"open", "private"}
      BY <1>1, <2>1 DEF SomebodyIsAhead
    <2>3. created[g] = <<>>
      <3>1. SUFFICES ASSUME created[g] # <<>>
                     PROVE  FALSE
        OBVIOUS
      <3>2. 1 \in DOMAIN created[g]
        BY <3>1 DEF KInv, Shape
      <3>3. Own(g, Targets(g)[1]) /\ Targets(g)[1] \in Paths
        BY <3>2, TargetsAre DEF KInv, ListIsOwn
      <3> QED
        BY <1>1, <2>1, <3>3 DEF Own, FilesAreClaimed
    <2>4. file' = file /\ Goto(g, "refused")
      BY <1>13, <2>3 DEF CleanUp
    <2>5. \A h \in Generators : h # g => pc'[h] = pc[h]
      BY <1>4, <2>4
    <2>6. FilesAreClaimed'
      BY <1>1, <2>1, <2>4, <2>5, FilesStayClaimed
    <2> QED
      BY <1>1, <2>1, <2>2, <2>5, <2>6, OthersStayAhead
  <1>14. ASSUME NEW g \in Generators
         PROVE  ~Killed(g)
    <2>1. Killed(g) => pc'[g] = "killed"
      BY <1>4 DEF Killed
    <2> QED
      BY <2>1 DEF Quiet
  <1> QED
    BY <1>5, <1>6, <1>7, <1>10, <1>11, <1>12, <1>13, <1>14 DEF Next
-----------------------------------------------------------------------------
\* Both invariants hold of every behaviour.
THEOREM KeyInvariance == Spec => [](KInv /\ RaceInv)
  <1>1. Init => KInv /\ RaceInv
    BY InitHolds, RaceBegins
  <1>2. KInv /\ RaceInv /\ [Next]_vars => (KInv /\ RaceInv)'
    BY NextKeeps, RaceKeeps
  <1> QED
    BY <1>1, <1>2, PTL DEF Spec

\* An invocation that reports success has both files, whole, and keeps them.
THEOREM SuccessLeavesAPair == Spec => []SuccessIsAPair
  <1>1. ASSUME KInv
        PROVE  SuccessIsAPair
    <2>1. \A i \in 1 .. 2 : i = 1 \/ i = 2
      OBVIOUS
    <2> QED
      BY <1>1, <2>1 DEF KInv, ListFits, SuccessIsAPair
  <1> QED
    BY KeyInvariance, <1>1, PTL

\* A file that is there is changed or removed by nobody but its maker, and by that
\* one only while it writes or cleans up: what a finished, refused or killed
\* invocation has left stays (scripts/generate_node_keys.py 133-209).
OnlyMakersTouch ==
    \A p \in Paths : file[p] # None /\ file'[p] # file[p] =>
       /\ pc[file[p].owner] \in {"write", "cleanup"}
       /\ file'[p] # None => file'[p].owner = file[p].owner
       /\ \A h \in Generators \ {file[p].owner} : UNCHANGED <<pc[h], target[h], created[h]>>

\* The files of others are out of reach, also of the cleanup, which may remove a
\* file whose maker it cannot tell.
THEOREM FilesStayTheirMakers == Spec => [][OnlyMakersTouch]_vars
  <1>1. ASSUME KInv, [Next]_vars, NEW p \in Paths, file[p] # None, file'[p] # file[p]
        PROVE  /\ pc[file[p].owner] \in {"write", "cleanup"}
               /\ file'[p] # None => file'[p].owner = file[p].owner
               /\ \A h \in Generators \ {file[p].owner} : UNCHANGED <<pc[h], target[h], created[h]>>
    <2>1. file \in [Paths -> Files \cup {None}] /\ Shape
      BY <1>1 DEF KInv, Shape
    <2>2. PICK g \in Generators : OpenExclusive(g) \/ Write(g) \/ CleanUp(g) \/ Killed(g)
      BY <1>1 DEF Next, vars, LookAtDirectory, MakeDirectory, SecureDirectory, Inspect
    <2>3. \A h \in Generators \ {g} : UNCHANGED <<pc[h], target[h], created[h]>>
      BY <2>1, <2>2 DEF Shape, OpenExclusive, Write, CleanUp, Killed, Goto, Denied, Verified,
         HalfWritten
    <2>4. ~OpenExclusive(g)
      BY <1>1, <2>1 DEF OpenExclusive, Put
    <2>5. CASE Write(g) \/ Killed(g)
      <3>1. pc[g] = "write" /\ target[g] \in DOMAIN created[g]
        BY <1>1, <2>1, <2>5 DEF Write, Killed, KInv, Shape, ListFits
      <3>2. Own(g, Here(g))
        BY <1>1, <3>1 DEF KInv, ListIsOwn, Here
      <3>3. PICK d : file' = [file EXCEPT ![Here(g)] = [owner |-> g, data |-> d]]
        BY <1>1, <2>5, <3>2 DEF Write, Killed, HalfWritten, Put
      <3>4. p = Here(g) /\ file'[p] = [owner |-> g, data |-> d]
        BY <1>1, <2>1, <3>3
      <3> QED
        BY <2>3, <3>1, <3>2, <3>4 DEF Own
    <2>6. CASE CleanUp(g)
      <3>1. /\ pc[g] = "cleanup" /\ created[g] # <<>> /\ created[g] \in Seq(Entries)
            /\ file' = [file EXCEPT ![created[g][Len(created[g])].path] = None]
        BY <1>1, <2>1, <2>6 DEF CleanUp, Put, Shape
      <3>2. p = created[g][Len(created[g])].path /\ file'[p] = None
        BY <1>1, <2>1, <3>1
      <3>3. Len(created[g]) \in DOMAIN created[g]
        BY <3>1
      <3>4. Own(g, p)
        BY <1>1, <3>2, <3>3 DEF KInv, ListIsOwn
      <3> QED
        BY <2>3, <3>1, <3>2, <3>4 DEF Own
    <2> QED
      BY <2>2, <2>4, <2>5, <2>6
  <1> QED
    <2>1. KInv /\ [Next]_vars => [OnlyMakersTouch]_vars
      BY <1>1 DEF OnlyMakersTouch
    <2> QED
      BY KeyInvariance, <2>1, PTL DEF Spec

\* An invocation that reports an error leaves nothing the file system let it
\* remove.
THEOREM RefusalIsClean == Spec => []RefusalLeavesNothing
  <1>1. ASSUME KInv, NEW p \in Paths, file[p] # None, pc[file[p].owner] = "refused"
        PROVE  trouble[file[p].owner] = "unlink"
    <2>1. file[p].owner \in Generators
      BY <1>1, OwnersAre DEF KInv
    <2>2. Len(created[file[p].owner]) = 0 /\ created[file[p].owner] \in Seq(Entries)
      BY <1>1, <2>1 DEF KInv, Shape, ListFits
    <2>3. DOMAIN created[file[p].owner] = {}
      BY <2>2
    <2> QED
      BY <1>1, <2>3 DEF KInv, IsListed
  <1>2. KInv => RefusalLeavesNothing
    BY <1>1 DEF RefusalLeavesNothing
  <1> QED
    BY KeyInvariance, <1>2, PTL

\* Invocations that race never all refuse one another.
THEOREM SomebodyWins == Spec => []SomebodySucceeds
  <1>1. ASSUME KInv, RaceInv
        PROVE  SomebodySucceeds
    <2>1. SUFFICES ASSUME directory = "private",
                          \A g \in Generators : pc[g] \in {"done", "refused"} /\ trouble[g] = "none"
                   PROVE  \E g \in Generators : pc[g] = "done"
      <3>1. \A i \in 1 .. 2 : i = 1 \/ i = 2
        OBVIOUS
      <3> QED
        BY <1>1, <3>1 DEF SomebodySucceeds, KInv, ListFits
    <2>2. SomebodyIsAhead
      BY <1>1, <2>1 DEF RaceInv, Quiet
    <2>3. (\E g \in Generators : pc[g] = "refused") => \E g \in Generators : Ahead(g)
      BY <2>1, <2>2 DEF SomebodyIsAhead
    <2> QED
      BY <2>1, <2>3, KeyAssumption DEF Ahead
  <1> QED
    BY KeyInvariance, <1>1, PTL
=============================================================================

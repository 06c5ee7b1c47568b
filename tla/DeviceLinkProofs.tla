--------------------------- MODULE DeviceLinkProofs ---------------------------
(***************************************************************************)
(* Theorems about one DeviceLink session, for every set of names, every    *)
(* limit on entries and items and any number of steps of other programs.   *)
(***************************************************************************)
EXTENDS DeviceLink, TLAPS

USE LimitsAssumption DEF LimitsAssumption

\* Nothing is beneath anything but a directory.
WellFormed(t) ==
  \A p \in Paths : t[p] # "none" => \A q \in Ancestors(p) : t[q] = "dir"

Links(t) == {p \in Paths : t[p] = "link"}

\* The file being received is the one that is cut off, as long as it has a path.
StreamInv ==
  /\ phase = "receive" => op = "upload"
  /\ phase = "receive" /\ stream \in Paths => tree[stream] = "partial"
  /\ phase # "dead" =>
       \A p \in Paths : tree[p] = "partial" => phase = "receive" /\ p = stream

\* What a request has been asked for so far is sent, reported or removed.
ProgressInv ==
  /\ phase \in {"open", "idle"} => asked = {} /\ delivered = {} /\ failed = {}
  /\ phase = "busy" /\ op = "download" => asked \subseteq delivered \cup failed
  /\ phase = "busy" /\ op = "remove" =>
       \A p \in asked : p \in Paths /\ tree[p] = "none"

SessionInv == TypeOK /\ WellFormed(tree) /\ StreamInv /\ ProgressInv
-----------------------------------------------------------------------------
(* Paths: one or two names                                                 *)

LEMMA PathShape ==
  ASSUME NEW p \in Paths
  PROVE  (\E n \in Names : p = <<n>>) \/ (\E m, n \in Names : p = <<m, n>>)
BY DEF Paths

LEMMA PrefixOfOne ==
  ASSUME NEW n \in Names, NEW q \in Paths
  PROVE  /\ IsPrefix(q, <<n>>) <=> q = <<n>>
         /\ IsPrefix(<<n>>, q) <=> q = <<n>> \/ \E m \in Names : q = <<n, m>>
<1>1. CASE \E k \in Names : q = <<k>>
  <2> PICK k \in Names : q = <<k>>
    BY <1>1
  <2> QED BY DEF IsPrefix
<1>2. CASE \E k, l \in Names : q = <<k, l>>
  <2> PICK k \in Names, l \in Names : q = <<k, l>>
    BY <1>2
  <2> QED BY DEF IsPrefix
<1> QED BY <1>1, <1>2, PathShape

LEMMA PrefixOfTwo ==
  ASSUME NEW m \in Names, NEW n \in Names, NEW q \in Paths
  PROVE  /\ IsPrefix(q, <<m, n>>) <=> q = <<m>> \/ q = <<m, n>>
         /\ IsPrefix(<<m, n>>, q) <=> q = <<m, n>>
<1>1. CASE \E k \in Names : q = <<k>>
  <2> PICK k \in Names : q = <<k>>
    BY <1>1
  <2> QED BY DEF IsPrefix
<1>2. CASE \E k, l \in Names : q = <<k, l>>
  <2> PICK k \in Names, l \in Names : q = <<k, l>>
    BY <1>2
  <2> QED BY DEF IsPrefix
<1> QED BY <1>1, <1>2, PathShape

\* Above a path there is nothing, or one directory that has nothing above it.
LEMMA Above ==
  ASSUME NEW p \in Paths, NEW q \in Ancestors(p)
  PROVE  /\ q \in Paths /\ q # p
         /\ Ancestors(q) = {} /\ Ancestors(p) = {q} /\ p \in Subtree(q)
<1>1. CASE \E n \in Names : p = <<n>>
  BY <1>1, PrefixOfOne DEF Ancestors, IsStrictPrefix
<1>2. CASE \E m, n \in Names : p = <<m, n>>
  <2> PICK m \in Names, n \in Names : p = <<m, n>>
    BY <1>2
  <2>1. \A r \in Paths : r \in Ancestors(<<m, n>>) <=> r = <<m>>
    BY PrefixOfTwo DEF Ancestors, IsStrictPrefix
  <2>2. <<m>> \in Paths
    BY DEF Paths
  <2>3. q = <<m>>
    BY <2>1 DEF Ancestors
  <2>4. \A r \in Paths : r \notin Ancestors(<<m>>)
    BY PrefixOfOne DEF Ancestors, IsStrictPrefix
  <2>5. Ancestors(<<m>>) = {} /\ Ancestors(<<m, n>>) = {<<m>>}
    BY <2>1, <2>2, <2>4 DEF Ancestors
  <2>6. <<m, n>> \in Subtree(<<m>>)
    BY PrefixOfOne DEF Subtree
  <2> QED BY <2>2, <2>3, <2>5, <2>6
<1> QED BY <1>1, <1>2, PathShape

\* A subtree is its root and what has the root above it.
LEMMA Beneath ==
  ASSUME NEW p \in Paths
  PROVE  Subtree(p) = {p} \cup {q \in Paths : p \in Ancestors(q)}
<1>1. p \in Subtree(p)
  BY PathShape, PrefixOfOne, PrefixOfTwo DEF Subtree
<1>2. ASSUME NEW q \in Paths
      PROVE  q \in Subtree(p) /\ q # p <=> p \in Ancestors(q)
  BY <1>2 DEF Subtree, Ancestors, IsStrictPrefix
<1> QED BY <1>1, <1>2 DEF Subtree

\* What corresponds to a path beneath the target is beneath the source.
LEMMA OriginBeneath ==
  ASSUME NEW source \in Paths, NEW target \in Paths,
         NEW q \in Subtree(target), Origin(source, target, q) \in Paths
  PROVE  /\ Origin(source, target, q) \in Subtree(source)
         /\ q = target => Origin(source, target, q) = source
         /\ target \in Ancestors(q) => source \in Ancestors(Origin(source, target, q))
<1>1. CASE q = target
  <2>1. Origin(source, target, target) = source
    BY PathShape DEF Origin
  <2>2. q \notin Ancestors(q)
    BY DEF Ancestors, IsStrictPrefix
  <2> QED BY <1>1, <2>1, <2>2, Beneath
<1>2. CASE target \in Ancestors(q)
  <2>1. q \in Paths
    BY DEF Subtree
  <2>2. PICK m \in Names, n \in Names : q = <<m, n>> /\ target = <<m>>
    BY <1>2, <2>1, PathShape, PrefixOfOne, PrefixOfTwo
       DEF Ancestors, IsStrictPrefix
  <2>3. Origin(source, target, q) = source \o <<n>>
    BY <2>2 DEF Origin
  <2>4. PICK x \in Names : source = <<x>>
    BY <2>3, PathShape DEF Paths
  <2>5. PICK k \in Names, l \in Names : Origin(source, target, q) = <<k, l>>
    <3>1. Len(<<x>> \o <<n>>) = 2
      OBVIOUS
    <3>2. Len(Origin(source, target, q)) = 2
      BY <2>3, <2>4, <3>1, Zenon
    <3>3. \A k \in Names : Origin(source, target, q) # <<k>>
      BY <3>2
    <3> QED BY <3>3, PathShape, Zenon
  <2>6. k = x
    <3>1. (<<x>> \o <<n>>)[1] = x /\ <<k, l>>[1] = k
      OBVIOUS
    <3> QED BY <2>3, <2>4, <2>5, <3>1
  <2>7. source \in Ancestors(Origin(source, target, q))
    BY <2>4, <2>5, <2>6, PrefixOfTwo DEF Ancestors, IsStrictPrefix
  <2> QED BY <1>2, <2>7, Above, Beneath
<1> QED BY <1>1, <1>2, Beneath
-----------------------------------------------------------------------------
(* Trees: each change keeps nothing beneath anything but a directory       *)

Trees == {t \in [Paths -> Kinds] : WellFormed(t)}

LEMMA PuttingIsSafe ==
  ASSUME NEW t \in Trees, NEW p \in Paths, NEW k \in Kinds,
         \A q \in Ancestors(p) : t[q] = "dir",
         k = "dir" \/ t[p] # "dir"
  PROVE  [t EXCEPT ![p] = k] \in Trees
<1> DEFINE new == [t EXCEPT ![p] = k]
<1>1. new \in [Paths -> Kinds]
  BY DEF Trees
<1>2. \A q \in Paths : new[q] = IF q = p THEN k ELSE t[q]
  BY DEF Trees
<1>3. ASSUME NEW q \in Paths, new[q] # "none", NEW r \in Ancestors(q)
      PROVE  new[r] = "dir"
  <2> HIDE DEF new
  <2>1. r \in Paths /\ r # q
    BY Above
  <2>2. CASE q = p
    BY <1>2, <2>1, <2>2
  <2>3. CASE q # p
    <3>1. t[r] = "dir"
      BY <1>2, <1>3, <2>3 DEF Trees, WellFormed
    <3> QED BY <1>2, <2>1, <3>1
  <2> QED BY <2>2, <2>3
<1> QED BY <1>1, <1>3 DEF Trees, WellFormed

LEMMA ParentsAreSafe ==
  ASSUME NEW t \in Trees, NEW p \in Paths, Checked(t, p)
  PROVE  /\ WithParent(t, p) \in Trees
         /\ \A q \in Paths : \/ WithParent(t, p)[q] = t[q]
                             \/ t[q] = "none" /\ WithParent(t, p)[q] = "dir"
         /\ \A q \in Ancestors(p) : WithParent(t, p)[q] = "dir"
         /\ WithParent(t, p)[p] = t[p]
<1> DEFINE new == WithParent(t, p)
<1>1. new \in [Paths -> Kinds]
  BY DEF WithParent, Trees, Kinds
<1>2. \A q \in Paths : new[q] = IF q \in Ancestors(p) THEN "dir" ELSE t[q]
  BY DEF WithParent
<1> HIDE DEF new
<1>3. ASSUME NEW q \in Paths, new[q] # "none", NEW r \in Ancestors(q)
      PROVE  new[r] = "dir"
  <2>1. r \in Paths /\ Ancestors(q) # {}
    BY Above
  <2>2. q \notin Ancestors(p)
    BY <2>1, Above
  <2>3. t[r] = "dir"
    BY <1>2, <1>3, <2>2 DEF Trees, WellFormed
  <2> QED BY <1>2, <2>1, <2>3
<1>4. new \in Trees
  BY <1>1, <1>3 DEF Trees, WellFormed
<1>5. p \notin Ancestors(p) /\ Ancestors(p) \subseteq Paths
  BY Above
<1>6. \A q \in Ancestors(p) : t[q] \in {"dir", "none"}
  BY DEF Checked
<1> QED BY <1>2, <1>4, <1>5, <1>6 DEF new

LEMMA RemovingIsSafe ==
  ASSUME NEW t \in Trees, NEW p \in Paths
  PROVE  /\ Without(t, p) \in Trees
         /\ \A q \in Paths :
              Without(t, p)[q] = IF q \in Subtree(p) THEN "none" ELSE t[q]
<1> DEFINE new == Without(t, p)
<1>1. new \in [Paths -> Kinds]
  BY DEF Without, Trees, Kinds
<1>2. \A q \in Paths : new[q] = IF q \in Subtree(p) THEN "none" ELSE t[q]
  BY DEF Without
<1> HIDE DEF new
<1>3. ASSUME NEW q \in Paths, new[q] # "none", NEW r \in Ancestors(q)
      PROVE  new[r] = "dir"
  <2>1. q \notin Subtree(p) /\ t[q] # "none"
    BY <1>2, <1>3
  <2>2. r \in Paths /\ Ancestors(r) = {} /\ t[r] = "dir"
    BY <2>1, Above DEF Trees, WellFormed
  <2>3. r \notin Subtree(p)
    BY <2>1, <2>2, Beneath
  <2> QED BY <1>2, <2>2, <2>3
<1> QED BY <1>1, <1>2, <1>3 DEF new, Trees, WellFormed

LEMMA CopyingIsSafe ==
  ASSUME NEW t \in Trees, NEW source \in Paths, NEW target \in Paths,
         \A q \in Ancestors(target) : t[q] = "dir"
  PROVE  /\ Copied(t, source, target) \in Trees
         /\ \A q \in Paths \ Subtree(target) : Copied(t, source, target)[q] = t[q]
         /\ \A q \in Subtree(target) :
              \/ Copied(t, source, target)[q] = "none"
              \/ \E s \in Subtree(source) : Copied(t, source, target)[q] = t[s]
<1> DEFINE new == Copied(t, source, target)
           from(q) == Origin(source, target, q)
<1>0. Subtree(target) \subseteq Paths /\ Subtree(source) \subseteq Paths
  BY DEF Subtree
<1>1. \A q \in Paths :
        new[q] = IF q \notin Subtree(target) THEN t[q] ELSE Kind(t, from(q))
  BY DEF Copied
<1>2. new \in [Paths -> Kinds]
  BY DEF Copied, Kind, Trees, Kinds
<1> HIDE DEF new, from
<1>3. ASSUME NEW q \in Subtree(target), new[q] # "none"
      PROVE  /\ from(q) \in Subtree(source) /\ new[q] = t[from(q)]
             /\ q = target => from(q) = source
             /\ target \in Ancestors(q) => source \in Ancestors(from(q))
  <2>1. from(q) \in Paths /\ new[q] = t[from(q)]
    BY <1>0, <1>1, <1>3 DEF Kind
  <2> QED BY <2>1, OriginBeneath DEF from
<1>4. ASSUME NEW q \in Paths, new[q] # "none", NEW r \in Ancestors(q)
      PROVE  new[r] = "dir"
  <2>1. r \in Paths /\ Ancestors(r) = {} /\ Ancestors(q) = {r}
    BY Above
  <2>2. CASE q \notin Subtree(target)
    <3>1. t[r] = "dir"
      BY <1>1, <1>4, <2>2 DEF Trees, WellFormed
    <3>2. r \notin Subtree(target)
      BY <2>1, <2>2, Beneath
    <3> QED BY <1>1, <2>1, <3>1, <3>2
  <2>3. CASE q = target
    <3>1. r \notin Subtree(target)
      BY <2>1, <2>3, Above, Beneath
    <3> QED BY <1>1, <2>1, <2>3, <3>1
  <2>4. CASE target \in Ancestors(q)
    <3>1. r = target
      BY <2>1, <2>4
    <3>2. t[source] = "dir"
      <4>1. q \in Subtree(target)
        BY <2>4, Beneath
      <4>2. source \in Ancestors(from(q)) /\ t[from(q)] # "none"
        BY <1>3, <1>4, <2>4, <4>1
      <4>3. from(q) \in Paths
        BY <1>0, <1>3, <1>4, <4>1
      <4> QED BY <4>2, <4>3 DEF Trees, WellFormed
    <3>3. target \in Subtree(target) /\ from(target) = source
      <4>1. Origin(source, target, target) = source
        BY PathShape DEF Origin
      <4> QED BY <4>1, Beneath DEF from
    <3> QED BY <1>1, <3>1, <3>2, <3>3 DEF Kind
  <2> QED BY <2>2, <2>3, <2>4, Beneath
<1>5. new \in Trees
  BY <1>2, <1>4 DEF Trees, WellFormed
<1>6. \A q \in Subtree(target) :
        new[q] = "none" \/ \E s \in Subtree(source) : new[q] = t[s]
  BY <1>3
<1> QED BY <1>1, <1>5, <1>6 DEF new
-----------------------------------------------------------------------------
(* Requests: what they may do to the tree                                  *)

Whole(t) == \A p \in Paths : t[p] # "partial"

\* The same links as before, in a tree that is still one.
Keeps(t, new) == new \in Trees /\ Links(new) = Links(t)

LEMMA AppendedBeneath ==
  ASSUME NEW p \in Paths, NEW n, Append(p, n) \in Paths
  PROVE  Ancestors(Append(p, n)) = {p}
<1>1. PICK k \in Names, l \in Names : Append(p, n) = <<k, l>>
  <2>1. Len(p) >= 1 /\ Len(Append(p, n)) = Len(p) + 1 /\ Len(p) \in Nat
    BY PathShape
  <2>2. \A k \in Names : Append(p, n) # <<k>>
    BY <2>1
  <2> QED BY <2>2, PathShape
<1>2. p = <<k>>
  <2>1. CASE \E m \in Names : p = <<m>>
    <3> PICK m \in Names : p = <<m>>
      BY <2>1
    <3>1. Append(<<m>>, n)[1] = m /\ <<k, l>>[1] = k
      OBVIOUS
    <3> QED BY <1>1, <3>1
  <2>2. CASE \E m, o \in Names : p = <<m, o>>
    <3> PICK m \in Names, o \in Names : p = <<m, o>>
      BY <2>2
    <3>1. Len(Append(<<m, o>>, n)) = 3 /\ Len(<<k, l>>) = 2
      OBVIOUS
    <3> QED BY <1>1, <3>1
  <2> QED BY <2>1, <2>2, PathShape
<1>3. p \in Ancestors(<<k, l>>)
  BY <1>2, PrefixOfTwo DEF Ancestors, IsStrictPrefix, Paths
<1> QED BY <1>1, <1>3, Above

\* Above the place where something is put there are directories only.
LEMMA TargetIsReady ==
  ASSUME NEW t \in Trees, NEW source \in Paths, NEW destination \in Paths,
         \A q \in Ancestors(destination) : t[q] = "dir",
         Target(t, source, destination) \in Paths
  PROVE  /\ \A q \in Ancestors(Target(t, source, destination)) : t[q] = "dir"
         /\ \/ Target(t, source, destination) = destination
            \/ t[destination] = "dir"
BY AppendedBeneath DEF Target

LEMMA ParentsKeep ==
  ASSUME NEW t \in Trees, NEW p \in Paths, Checked(t, p)
  PROVE  /\ Keeps(t, WithParent(t, p))
         /\ Whole(t) => Whole(WithParent(t, p))
BY ParentsAreSafe DEF Keeps, Links, Whole

LEMMA RemovingKeeps ==
  ASSUME NEW t \in Trees, NEW p \in Paths,
         \A q \in Subtree(p) : t[q] # "link"
  PROVE  /\ Keeps(t, Without(t, p))
         /\ Whole(t) => Whole(Without(t, p))
BY RemovingIsSafe DEF Keeps, Links, Whole

LEMMA CopyingKeeps ==
  ASSUME NEW t \in Trees, NEW source \in Paths, NEW target \in Paths,
         \A q \in Ancestors(target) : t[q] = "dir",
         \A q \in Subtree(source) \cup Subtree(target) : t[q] # "link"
  PROVE  /\ Keeps(t, Copied(t, source, target))
         /\ Whole(t) => Whole(Copied(t, source, target))
<1>1. Subtree(source) \subseteq Paths /\ Subtree(target) \subseteq Paths
  BY DEF Subtree
<1>2. \A q \in Paths :
        \/ q \notin Subtree(target) /\ Copied(t, source, target)[q] = t[q]
        \/ q \in Subtree(target) /\ \/ Copied(t, source, target)[q] = "none"
                                    \/ \E s \in Subtree(source) :
                                         Copied(t, source, target)[q] = t[s]
  BY CopyingIsSafe
<1>3. Links(Copied(t, source, target)) = Links(t)
  BY <1>1, <1>2 DEF Links
<1>4. Whole(t) => Whole(Copied(t, source, target))
  BY <1>1, <1>2 DEF Whole
<1> QED BY <1>3, <1>4, CopyingIsSafe DEF Keeps

\* Beneath what is not a directory there is nothing, so no link either.
LEMMA NoLinkBeneath ==
  ASSUME NEW t \in Trees, NEW p \in Paths, t[p] \in Kinds \ {"dir", "link"}
  PROVE  \A q \in Subtree(p) : t[q] # "link"
BY Beneath DEF Trees, WellFormed

LEMMA MovingKeeps ==
  ASSUME NEW t \in Trees, NEW source \in Paths, NEW destination \in Paths,
         \A q \in Ancestors(destination) : t[q] = "dir",
         Movable(t, source, destination),
         source # destination => Target(t, source, destination) \in Paths
  PROVE  /\ Keeps(t, Moved(t, source, destination))
         /\ Whole(t) => Whole(Moved(t, source, destination))
<1> DEFINE target == Target(t, source, destination)
           new    == Copied(t, source, target)
<1>1. CASE source = destination
  BY <1>1 DEF Moved, Keeps
<1>2. CASE source # destination
  <2>1. \A q \in Ancestors(target) : t[q] = "dir"
    BY <1>2, TargetIsReady
  <2>2. \A q \in Subtree(source) : t[q] # "link"
    BY DEF Movable, TreeSafe
  <2>3. t[target] \in Kinds \ {"dir", "link"}
    BY <1>2 DEF Movable, Kind, Files, Kinds
  <2>4. \A q \in Subtree(target) : t[q] # "link"
    BY <1>2, <2>3, NoLinkBeneath
  <2> HIDE DEF target
  <2>5. target \in Paths
    BY <1>2 DEF target
  <2>6. Keeps(t, new) /\ (Whole(t) => Whole(new))
    BY <2>1, <2>2, <2>4, <2>5, CopyingKeeps
  <2>7. \A q \in Subtree(source) : new[q] # "link"
    BY <2>2, <2>6 DEF Keeps, Links, Subtree
  <2> HIDE DEF new
  <2>8. Keeps(new, Without(new, source)) /\ (Whole(new) => Whole(Without(new, source)))
    BY <2>6, <2>7, RemovingKeeps DEF Keeps
  <2>9. Moved(t, source, destination) = Without(new, source)
    BY <1>2 DEF Moved, new, target
  <2> QED BY <2>6, <2>8, <2>9 DEF Keeps
<1> QED BY <1>1, <1>2

\* Of a copy that fails, some files are cut off.
Spoilt(t, part) == [q \in Paths |-> IF q \in part THEN "partial" ELSE t[q]]

LEMMA SpoilingKeeps ==
  ASSUME NEW t \in Trees, NEW part \in SUBSET {q \in Paths : t[q] \in Files}
  PROVE  Keeps(t, Spoilt(t, part))
<1>1. \A q \in Paths :
        /\ q \in part => t[q] \in Files
        /\ Spoilt(t, part)[q] = IF q \in part THEN "partial" ELSE t[q]
  BY DEF Spoilt
<1>2. Spoilt(t, part) \in [Paths -> Kinds]
  BY DEF Spoilt, Trees, Kinds, Files
<1>3. WellFormed(Spoilt(t, part))
  BY <1>1, Above DEF Trees, WellFormed, Files
<1> QED BY <1>1, <1>2, <1>3 DEF Keeps, Links, Trees, Files

LEMMA CopyableKeeps ==
  ASSUME NEW t \in Trees, NEW source \in Paths, NEW destination \in Paths,
         \A q \in Ancestors(destination) : t[q] = "dir",
         t[source] \notin {"none", "link"},
         Copyable(t, source, destination),
         Target(t, source, destination) \in Paths
  PROVE  /\ Keeps(t, Copied(t, source, Target(t, source, destination)))
         /\ Whole(t) => Whole(Copied(t, source, Target(t, source, destination)))
<1> DEFINE target == Target(t, source, destination)
<1>1. \A q \in Ancestors(target) : t[q] = "dir"
  BY TargetIsReady
<1>2. t[source] \in Kinds
  BY DEF Trees
<1>3. \A q \in Subtree(source) : t[q] # "link"
  BY <1>2, NoLinkBeneath DEF Copyable, TreeSafe
<1>4. t[target] \in Kinds \ {"dir", "link"}
  <2>1. CASE t[source] = "dir"
    BY <2>1 DEF Copyable, Target, Kinds
  <2>2. CASE t[source] # "dir"
    BY <2>2 DEF Copyable, Kind, Kinds, Files
  <2> QED BY <2>1, <2>2
<1>5. \A q \in Subtree(target) : t[q] # "link"
  BY <1>4, NoLinkBeneath
<1> QED BY <1>1, <1>3, <1>5, CopyingKeeps
-----------------------------------------------------------------------------
(* One step of the host                                                    *)

CutOffIsReceived ==
  phase # "dead" =>
    \A p \in Paths : tree[p] = "partial" => phase = "receive" /\ p = stream

\* Links stay as they are, and beneath a replaced root only the file already
\* open is written.
Confines ==
  /\ Keeps(tree, tree')
  /\ root = "replaced" => \A p \in Paths : tree'[p] # tree[p] => p = stream

LEMMA StartsFileEffect ==
  ASSUME SessionInv, NEW p \in Requested, StartsFile(p)
  PROVE  Confines /\ CutOffIsReceived'
<1>1. tree \in Trees
  BY DEF SessionInv, TypeOK, Trees
<1>2. ASSUME Checked(tree, p), tree[p] # "dir", ~(Refuses /\ tree' = tree)
      PROVE  Confines /\ CutOffIsReceived'
  <2>1. p \in Paths /\ root = "ours" /\ tree[p] # "link"
    BY <1>2 DEF Checked
  <2> DEFINE t == WithParent(tree, p)
  <2>2. /\ t \in Trees /\ Links(t) = Links(tree) /\ t[p] = tree[p]
        /\ \A q \in Ancestors(p) : t[q] = "dir"
    BY <1>1, <1>2, <2>1, ParentsAreSafe, ParentsKeep DEF Keeps
  <2>3. Whole(tree)
    BY DEF SessionInv, StreamInv, Whole, StartsFile, Item
  <2>4. Whole(t)
    BY <1>1, <1>2, <2>1, <2>3, ParentsKeep
  <2> HIDE DEF t
  <2>5. [t EXCEPT ![p] = "partial"] \in Trees
    BY <1>2, <2>1, <2>2, PuttingIsSafe DEF Kinds, Files
  <2> DEFINE opened == [t EXCEPT ![p] = "partial"]
  <2>6. \/ tree' = opened /\ phase' = "receive" /\ stream' = p
        \/ tree' \in {t, opened} /\ phase' = "dead"
    BY <1>2 DEF StartsFile, Refuses, t
  <2>7. \A q \in Paths : opened[q] = IF q = p THEN "partial" ELSE t[q]
    BY <2>2 DEF Trees
  <2>8. Links(opened) = Links(tree)
    BY <2>1, <2>2, <2>7 DEF Links
  <2>9. CutOffIsReceived'
    BY <2>4, <2>6, <2>7 DEF CutOffIsReceived, Whole
  <2>10. tree' \in Trees /\ Links(tree') = Links(tree)
    BY <2>2, <2>5, <2>6, <2>8
  <2> QED BY <2>1, <2>9, <2>10 DEF Confines, Keeps
<1>3. CASE ~(Checked(tree, p) /\ tree[p] # "dir") \/ (Refuses /\ tree' = tree)
  <2>1. Refuses /\ tree' = tree
    BY <1>3 DEF StartsFile
  <2> QED BY <1>1, <2>1 DEF Refuses, Confines, Keeps, CutOffIsReceived
<1> QED BY <1>2, <1>3

LEMMA EndsFileEffect ==
  ASSUME SessionInv, NEW as \in {"whole", "broken"}, EndsFile(as)
  PROVE  Confines /\ CutOffIsReceived'
<1>1. tree \in Trees
  BY DEF SessionInv, TypeOK, Trees
<1>2. phase = "receive" /\ phase' = "busy"
  BY DEF EndsFile
<1>3. CASE stream = <<>>
  <2>1. tree' = tree
    BY <1>3 DEF EndsFile
  <2>2. <<>> \notin Paths
    BY DEF Paths
  <2>3. Whole(tree)
    BY <1>2, <1>3, <2>2 DEF SessionInv, StreamInv, Whole
  <2> QED BY <1>1, <2>1, <2>3 DEF Confines, Keeps, CutOffIsReceived, Whole
<1>4. CASE stream # <<>>
  <2>1. stream \in Paths
    BY <1>4 DEF SessionInv, TypeOK, Requested
  <2>2. tree[stream] = "partial"
    BY <1>2, <2>1 DEF SessionInv, StreamInv
  <2>3. tree' = [tree EXCEPT ![stream] = as]
    BY <1>4 DEF EndsFile
  <2>4. \A q \in Ancestors(stream) : tree[q] = "dir"
    BY <2>1, <2>2 DEF SessionInv, WellFormed
  <2>5. tree' \in Trees
    BY <1>1, <2>1, <2>2, <2>3, <2>4, PuttingIsSafe DEF Kinds, Files
  <2>6. \A q \in Paths : tree'[q] = IF q = stream THEN as ELSE tree[q]
    BY <1>1, <2>3 DEF Trees
  <2>7. Links(tree') = Links(tree)
    BY <2>2, <2>6 DEF Links
  <2>8. Whole(tree')
    BY <1>2, <2>6 DEF SessionInv, StreamInv, Whole
  <2> QED BY <2>5, <2>6, <2>7, <2>8 DEF Confines, Keeps, CutOffIsReceived, Whole
<1> QED BY <1>3, <1>4

LEMMA RemovesEffect ==
  ASSUME SessionInv, NEW p \in Requested, Removes(p)
  PROVE  Confines /\ CutOffIsReceived'
<1>1. tree \in Trees
  BY DEF SessionInv, TypeOK, Trees
<1>2. Whole(tree) /\ phase = "busy"
  BY DEF SessionInv, StreamInv, Whole, Removes, Item
<1>3. CASE /\ Checked(tree, p) /\ (tree[p] = "none" \/ TreeSafe(tree, p))
           /\ tree' = Without(tree, p)
  <2>1. p \in Paths /\ root = "ours"
    BY <1>3 DEF Checked
  <2>2. \A q \in Subtree(p) : tree[q] # "link"
    BY <1>1, <1>3, <2>1, NoLinkBeneath DEF TreeSafe, Kinds
  <2>3. Keeps(tree, tree') /\ Whole(tree')
    BY <1>1, <1>2, <1>3, <2>1, <2>2, RemovingKeeps
  <2> QED BY <2>1, <2>3 DEF Confines, CutOffIsReceived, Whole
<1>4. CASE /\ Checked(tree, p) /\ TreeSafe(tree, p) /\ Refuses
           /\ \E q \in Subtree(p) \ {p} : tree' = Without(tree, q)
  <2>1. PICK q \in Subtree(p) \ {p} : tree' = Without(tree, q)
    BY <1>4
  <2>2. p \in Paths /\ root = "ours"
    BY <1>4 DEF Checked
  <2>3. q \in Paths /\ Ancestors(p) = {} /\ p \in Ancestors(q)
    BY <2>1, <2>2, Above, Beneath
  <2>4. Subtree(q) = {q}
    <3>1. \A r \in Paths : q \notin Ancestors(r)
      BY <2>3, Above
    <3> QED BY <2>3, <3>1, Beneath
  <2>5. \A r \in Subtree(q) : tree[r] # "link"
    BY <1>4, <2>1, <2>4 DEF TreeSafe
  <2>6. Keeps(tree, tree')
    BY <1>1, <2>1, <2>3, <2>5, RemovingKeeps
  <2> QED BY <1>4, <2>2, <2>6 DEF Confines, CutOffIsReceived, Refuses
<1>5. CASE Refuses /\ UNCHANGED tree
  BY <1>1, <1>5 DEF Refuses, Confines, Keeps, CutOffIsReceived
<1> QED BY <1>3, <1>4, <1>5 DEF Removes

LEMMA MovesEffect ==
  ASSUME SessionInv, NEW source \in Requested, NEW destination \in Requested,
         Moves(source, destination)
  PROVE  Confines /\ CutOffIsReceived'
<1> DEFINE t == WithParent(tree, destination)
           target == Target(t, source, destination)
<1>1. tree \in Trees
  BY DEF SessionInv, TypeOK, Trees
<1>2. Whole(tree) /\ phase = "busy"
  BY DEF SessionInv, StreamInv, Whole, Moves, Item
<1>3. CASE Refuses /\ UNCHANGED tree
  BY <1>1, <1>3 DEF Refuses, Confines, Keeps, CutOffIsReceived
<1>4. CASE Checked(tree, source) /\ Checked(tree, destination)
           /\ \/ /\ Movable(t, source, destination)
                 /\ source # destination => Fits(t, source, target)
                 /\ tree' = Moved(t, source, destination)
              \/ tree' = t /\ Refuses
  <2>1. source \in Paths /\ destination \in Paths /\ root = "ours"
    BY <1>4 DEF Checked
  <2>2. t \in Trees /\ \A q \in Ancestors(destination) : t[q] = "dir"
    BY <1>1, <1>4, <2>1, ParentsAreSafe
  <2>3. Links(t) = Links(tree) /\ Whole(t)
    BY <1>1, <1>2, <1>4, <2>1, ParentsKeep DEF Keeps
  <2> HIDE DEF t
  <2>4. Keeps(t, tree') /\ Whole(tree')
    <3>1. CASE tree' = t
      BY <2>2, <2>3, <3>1 DEF Keeps
    <3>2. CASE /\ Movable(t, source, destination)
               /\ source # destination => Fits(t, source, target)
               /\ tree' = Moved(t, source, destination)
      <4>1. source # destination => Target(t, source, destination) \in Paths
        BY <3>2 DEF Fits
      <4> QED BY <2>1, <2>2, <2>3, <3>2, <4>1, MovingKeeps
    <3> QED BY <1>4, <3>1, <3>2
  <2> QED BY <2>1, <2>3, <2>4 DEF Confines, Keeps, CutOffIsReceived, Whole
<1> QED BY <1>3, <1>4 DEF Moves

LEMMA MakesDirectoryEffect ==
  ASSUME SessionInv, NEW p \in Requested, MakesDirectory(p)
  PROVE  Confines /\ CutOffIsReceived'
<1>1. tree \in Trees
  BY DEF SessionInv, TypeOK, Trees
<1>2. Whole(tree)
  BY DEF SessionInv, StreamInv, Whole, MakesDirectory
<1>3. CASE Refuses /\ UNCHANGED tree
  BY <1>1, <1>3 DEF Refuses, Confines, Keeps, CutOffIsReceived
<1>4. CASE /\ Checked(tree, p) /\ tree[p] \in {"none", "dir"}
           /\ tree' = [WithParent(tree, p) EXCEPT ![p] = "dir"]
  <2> DEFINE t == WithParent(tree, p)
  <2>1. p \in Paths /\ root = "ours"
    BY <1>4 DEF Checked
  <2>2. /\ t \in Trees /\ t[p] = tree[p] /\ Links(t) = Links(tree) /\ Whole(t)
        /\ \A q \in Ancestors(p) : t[q] = "dir"
    BY <1>1, <1>2, <1>4, <2>1, ParentsAreSafe, ParentsKeep DEF Keeps
  <2>3. tree' = [t EXCEPT ![p] = "dir"]
    BY <1>4
  <2> HIDE DEF t
  <2>4. tree' \in Trees
    BY <2>1, <2>2, <2>3, PuttingIsSafe DEF Kinds
  <2>5. \A q \in Paths : tree'[q] = IF q = p THEN "dir" ELSE t[q]
    BY <2>2, <2>3 DEF Trees
  <2>6. Links(tree') = Links(tree) /\ Whole(tree')
    BY <1>4, <2>2, <2>5 DEF Links, Whole
  <2> QED BY <2>1, <2>4, <2>6 DEF Confines, Keeps, CutOffIsReceived, Whole
<1> QED BY <1>3, <1>4 DEF MakesDirectory

LEMMA CopiesEffect ==
  ASSUME SessionInv, NEW source \in Requested, NEW destination \in Requested,
         Copies(source, destination)
  PROVE  Confines /\ CutOffIsReceived'
<1> DEFINE t == WithParent(tree, destination)
           target == Target(t, source, destination)
           new == Copied(t, source, target)
           written == {q \in Subtree(target) : new[q] \in Files}
<1>1. tree \in Trees
  BY DEF SessionInv, TypeOK, Trees
<1>2. Whole(tree)
  BY DEF SessionInv, StreamInv, Whole, Copies
<1>3. CASE Refuses /\ UNCHANGED tree
  BY <1>1, <1>3 DEF Refuses, Confines, Keeps, CutOffIsReceived
<1>4. CASE /\ Checked(tree, source) /\ tree[source] # "none"
           /\ Checked(tree, destination)
           /\ \/ /\ Fits(t, source, target) /\ Copyable(t, source, destination)
                 /\ \/ tree' = new
                    \/ /\ \E part \in SUBSET written : tree' = Spoilt(new, part)
                       /\ Refuses
              \/ tree' = t /\ Refuses
  <2>1. source \in Paths /\ destination \in Paths /\ root = "ours"
        /\ tree[source] # "link"
    BY <1>4 DEF Checked
  <2>2. /\ t \in Trees /\ \A q \in Ancestors(destination) : t[q] = "dir"
        /\ t[source] = tree[source]
    BY <1>1, <1>4, <2>1, ParentsAreSafe
  <2>3. Links(t) = Links(tree) /\ Whole(t)
    BY <1>1, <1>2, <1>4, <2>1, ParentsKeep DEF Keeps
  <2> HIDE DEF t
  <2>4. ASSUME Fits(t, source, target), Copyable(t, source, destination)
        PROVE  Keeps(t, new) /\ Whole(new)
    BY <1>4, <2>1, <2>2, <2>3, <2>4, CopyableKeeps DEF Fits
  <2>5. CASE tree' = t
    BY <2>1, <2>2, <2>3, <2>5 DEF Confines, Keeps, CutOffIsReceived, Whole
  <2>6. CASE /\ Fits(t, source, target) /\ Copyable(t, source, destination)
             /\ tree' = new
    BY <2>1, <2>3, <2>4, <2>6 DEF Confines, Keeps, CutOffIsReceived, Whole
  <2>7. CASE /\ Fits(t, source, target) /\ Copyable(t, source, destination)
             /\ Refuses /\ \E part \in SUBSET written : tree' = Spoilt(new, part)
    <3>1. PICK part \in SUBSET written : tree' = Spoilt(new, part)
      BY <2>7
    <3>2. Subtree(target) \subseteq Paths
      BY DEF Subtree
    <3>3. new \in Trees /\ Links(new) = Links(tree)
      BY <2>3, <2>4, <2>7 DEF Keeps
    <3>4. part \in SUBSET {q \in Paths : new[q] \in Files}
      BY <3>1, <3>2
    <3> HIDE DEF new
    <3>5. Keeps(new, tree')
      BY <3>1, <3>3, <3>4, SpoilingKeeps
    <3> QED BY <2>1, <2>7, <3>3, <3>5 DEF Confines, Keeps, Refuses, CutOffIsReceived
  <2> QED BY <1>4, <2>5, <2>6, <2>7
<1> QED BY <1>3, <1>4 DEF Copies, Spoilt

\* Every other step of the host leaves the tree alone.
LEMMA HostEffect ==
  ASSUME SessionInv, HostStep
  PROVE  Confines /\ CutOffIsReceived'
<1>1. tree \in Trees
  BY DEF SessionInv, TypeOK, Trees
<1>2. CutOffIsReceived
  BY DEF SessionInv, StreamInv, CutOffIsReceived
<1>3. CASE FinishesFile \/ AbandonsFile
  BY <1>3, EndsFileEffect DEF FinishesFile, AbandonsFile
<1>4. CASE \E p \in Requested : StartsFile(p)
  BY <1>4, StartsFileEffect
<1>5. CASE \E p \in Requested : Removes(p)
  BY <1>5, RemovesEffect
<1>6. CASE \E p \in Requested : MakesDirectory(p)
  BY <1>6, MakesDirectoryEffect
<1>7. CASE \E p, q \in Requested : Moves(p, q)
  BY <1>7, MovesEffect
<1>8. CASE \E p, q \in Requested : Copies(p, q)
  BY <1>8, CopiesEffect
<1>9. ASSUME UNCHANGED tree, phase # "receive" \/ phase' = "dead"
      PROVE  Confines /\ CutOffIsReceived'
  <2>1. phase # "dead" => Whole(tree) \/ phase' = "dead"
    BY <1>2, <1>9 DEF CutOffIsReceived, Whole
  <2>2. phase = "dead" => FALSE
    BY DEF HostStep, OpensLink, ReceivesRequest, ReceivesEnd, Replies, Breaks,
           EndsRequest, FinishesFile, AbandonsFile, ReportsFreeSpace, EndsFile,
           StartsFile, SendsFile, Removes, Lists, MakesDirectory, MovesNothing,
           CopiesNothing, Moves, Copies, Item, Awaiting
  <2> QED BY <1>1, <1>9, <2>1, <2>2 DEF Confines, Keeps, CutOffIsReceived, Whole
<1>10. CASE OpensLink \/ ReceivesRequest \/ ReceivesEnd \/ Replies \/ Breaks
            \/ EndsRequest \/ ReportsFreeSpace
  BY <1>9, <1>10 DEF OpensLink, ReceivesRequest, ReceivesEnd, Replies, Breaks,
       EndsRequest, ReportsFreeSpace, Refuses, diskVars
<1>11. CASE \E p \in Requested :
              SendsFile(p) \/ Lists(p) \/ MovesNothing(p) \/ CopiesNothing(p)
  BY <1>9, <1>11 DEF SendsFile, Lists, MovesNothing, CopiesNothing, Item
<1> QED
  BY <1>3, <1>4, <1>5, <1>6, <1>7, <1>8, <1>10, <1>11 DEF HostStep

LEMMA OthersEffect ==
  ASSUME SessionInv, OthersStep
  PROVE  /\ tree' \in Trees /\ CutOffIsReceived'
         /\ phase = "receive" /\ stream' \in Paths => tree'[stream'] = "partial"
         /\ stream' \in {stream, <<>>}
<1>1. tree \in Trees
  BY DEF SessionInv, TypeOK, Trees
<1>2. CASE ReplacesRoot
  BY <1>1, <1>2 DEF ReplacesRoot, OthersMayAct, SessionInv, StreamInv,
       CutOffIsReceived
<1>3. ASSUME NEW p \in Paths, PlantsLink(p)
      PROVE  /\ tree' \in Trees /\ CutOffIsReceived'
             /\ phase = "receive" /\ stream' \in Paths => tree'[stream'] = "partial"
             /\ stream' \in {stream, <<>>}
  <2> DEFINE t == Without(tree, p)
  <2>1. /\ t \in Trees
        /\ \A q \in Paths : t[q] = IF q \in Subtree(p) THEN "none" ELSE tree[q]
    BY <1>1, RemovingIsSafe
  <2>2. tree' = [t EXCEPT ![p] = "link"]
    BY <1>3 DEF PlantsLink
  <2> HIDE DEF t
  <2>3. p \in Subtree(p)
    BY Beneath
  <2>4. \A q \in Ancestors(p) : t[q] = "dir"
    <3>1. ASSUME NEW q \in Ancestors(p) PROVE q \in Paths /\ q \notin Subtree(p)
      BY Above, Beneath
    <3> QED BY <1>3, <2>1, <3>1 DEF PlantsLink
  <2>5. tree' \in Trees
    BY <2>1, <2>2, <2>3, <2>4, PuttingIsSafe DEF Kinds
  <2>6. \A q \in Paths : tree'[q] = IF q = p THEN "link" ELSE t[q]
    BY <2>1, <2>2 DEF Trees
  <2>7. \A q \in Paths : tree'[q] = "partial" <=>
          tree[q] = "partial" /\ q \notin Subtree(p)
    BY <2>1, <2>3, <2>6
  <2>8. /\ phase' = phase
        /\ stream' = IF stream \in Subtree(p) THEN <<>> ELSE stream
    BY <1>3 DEF PlantsLink, OthersMayAct
  <2>9. <<>> \notin Paths
    BY DEF Paths
  <2> QED BY <2>5, <2>7, <2>8, <2>9 DEF CutOffIsReceived, SessionInv, StreamInv
<1> QED BY <1>2, <1>3 DEF OthersStep
-----------------------------------------------------------------------------
(* The invariant                                                           *)

LEMMA InitialInv == Init => SessionInv
<1> SUFFICES ASSUME Init PROVE SessionInv
  OBVIOUS
<1>1. TypeOK
  BY DEF Init, TypeOK, Requested, Kinds
<1>2. WellFormed(tree) /\ StreamInv /\ ProgressInv
  BY DEF Init, WellFormed, StreamInv, ProgressInv
<1> QED BY <1>1, <1>2 DEF SessionInv

LEMMA NextTypeOK == SessionInv /\ [Next]_vars => TypeOK'
<1> SUFFICES ASSUME SessionInv, [Next]_vars PROVE TypeOK'
  OBVIOUS
<1> USE DEF SessionInv, TypeOK, Keep, Forget, Refuses, Answers, Done, Item,
            Succeeds, OthersMayAct, requestVars, diskVars, Closed
<1>t. tree' \in [Paths -> Kinds]
  <2>1. CASE HostStep
    BY <2>1, HostEffect DEF Confines, Keeps, Trees
  <2>2. CASE OthersStep
    BY <2>2, OthersEffect DEF Trees
  <2>3. CASE UNCHANGED vars
    BY <2>3 DEF vars
  <2> QED BY <2>1, <2>2, <2>3 DEF Next
<1>o. /\ "none" \in Ops \cup {"none", "list", "space", "mkdir", "copy"}
      /\ <<>> \in Requested /\ Paths \subseteq Requested
  BY DEF Requested
<1>c. \A n \in Nat : n < MAX_DIRECTORY_ENTRIES \/ n < MaxItems =>
        n + 1 \in 0..(MAX_DIRECTORY_ENTRIES + MaxItems)
  OBVIOUS
<1>z. 0 \in 0..(MAX_DIRECTORY_ENTRIES + MaxItems)
  OBVIOUS
<1>1. CASE OpensLink
  BY <1>1, <1>t DEF OpensLink
<1>2. CASE ReceivesRequest \/ ReceivesEnd
  BY <1>2, <1>t DEF ReceivesRequest, ReceivesEnd
<1>3. CASE Replies \/ Breaks
  BY <1>3, <1>t, <1>o, <1>z DEF Replies, Breaks
<1>4. CASE EndsRequest \/ FinishesFile \/ AbandonsFile
  BY <1>4, <1>t, <1>o DEF EndsRequest, FinishesFile, AbandonsFile, EndsFile
<1>5. CASE ReportsFreeSpace
  BY <1>5, <1>t, <1>o, <1>z DEF ReportsFreeSpace
<1>6. ASSUME NEW p \in Requested, StartsFile(p) PROVE TypeOK'
  BY <1>6, <1>t, <1>o, <1>z DEF StartsFile
<1>7. ASSUME NEW p \in Requested, SendsFile(p) PROVE TypeOK'
  BY <1>7, <1>t, <1>o, <1>z, <1>c DEF SendsFile, Checked
<1>8. ASSUME NEW p \in Requested, Removes(p) PROVE TypeOK'
  BY <1>8, <1>t, <1>o, <1>z, <1>c DEF Removes
<1>9. ASSUME NEW p \in Requested, Lists(p) PROVE TypeOK'
  BY <1>9, <1>t, <1>o, <1>z DEF Lists
<1>10. ASSUME NEW p \in Requested, MakesDirectory(p) PROVE TypeOK'
  BY <1>10, <1>t, <1>o, <1>z DEF MakesDirectory
<1>11. ASSUME NEW p \in Requested, MovesNothing(p) PROVE TypeOK'
  BY <1>11, <1>t, <1>o, <1>z, <1>c DEF MovesNothing
<1>12. ASSUME NEW p \in Requested, CopiesNothing(p) PROVE TypeOK'
  BY <1>12, <1>t, <1>o, <1>z DEF CopiesNothing
<1>13. ASSUME NEW p \in Requested, NEW q \in Requested, Moves(p, q) PROVE TypeOK'
  BY <1>13, <1>t, <1>o, <1>z, <1>c DEF Moves
<1>14. ASSUME NEW p \in Requested, NEW q \in Requested, Copies(p, q) PROVE TypeOK'
  BY <1>14, <1>t, <1>o, <1>z DEF Copies
<1>15. CASE OthersStep
  <2>1. /\ others' \in 0..MaxOthers /\ root' \in {"ours", "replaced"}
        /\ UNCHANGED <<phase, requestVars, answer>>
    BY <1>15 DEF OthersStep, ReplacesRoot, PlantsLink
  <2> QED BY <1>15, <1>t, <1>o, <2>1, OthersEffect
<1>16. CASE UNCHANGED vars
  BY <1>16 DEF vars
<1> QED
  BY <1>1, <1>2, <1>3, <1>4, <1>5, <1>6, <1>7, <1>8, <1>9, <1>10, <1>11,
     <1>12, <1>13, <1>14, <1>15, <1>16 DEF Next, HostStep

LEMMA NextTree == SessionInv /\ [Next]_vars => WellFormed(tree)' /\ CutOffIsReceived'
<1> SUFFICES ASSUME SessionInv, [Next]_vars
             PROVE  WellFormed(tree') /\ CutOffIsReceived'
  BY DEF WellFormed
<1>1. CASE HostStep
  BY <1>1, HostEffect DEF Confines, Keeps, Trees
<1>2. CASE OthersStep
  BY <1>2, OthersEffect DEF Trees
<1>3. CASE UNCHANGED vars
  BY <1>3 DEF vars, diskVars, requestVars, SessionInv, StreamInv, WellFormed,
       CutOffIsReceived
<1> QED BY <1>1, <1>2, <1>3 DEF Next

LEMMA NextStream == SessionInv /\ [Next]_vars => StreamInv'
<1> SUFFICES ASSUME SessionInv, [Next]_vars PROVE StreamInv'
  OBVIOUS
<1> DEFINE Received == /\ phase = "receive" => op = "upload"
                       /\ phase = "receive" /\ stream \in Paths =>
                            tree[stream] = "partial"
<1>1. CASE phase' # "receive"
  BY <1>1, NextTree DEF StreamInv, CutOffIsReceived
<1>2. ASSUME NEW p \in Requested, StartsFile(p), phase' = "receive"
      PROVE  Received'
  <2>1. /\ Checked(tree, p) /\ stream' = p /\ op' = op /\ op = "upload"
        /\ tree' = [WithParent(tree, p) EXCEPT ![p] = "partial"]
    BY <1>2 DEF StartsFile, Refuses, Item, requestVars
  <2>2. WithParent(tree, p) \in [Paths -> Kinds] /\ p \in Paths
    BY <2>1, ParentsAreSafe DEF Trees, SessionInv, TypeOK, Checked
  <2> QED BY <2>1, <2>2
<1>3. CASE OthersStep
  <2>1. phase' = phase /\ op' = op
    BY <1>3 DEF OthersStep, ReplacesRoot, PlantsLink, OthersMayAct, requestVars
  <2>2. Received'
    BY <1>3, <2>1, OthersEffect DEF SessionInv, StreamInv
  <2>3. CutOffIsReceived'
    BY <1>3, OthersEffect
  <2> QED BY <2>2, <2>3 DEF StreamInv, CutOffIsReceived
<1>4. CASE UNCHANGED vars
  BY <1>4 DEF vars, diskVars, requestVars, SessionInv, StreamInv
<1>5. ASSUME HostStep, phase' = "receive"
      PROVE  \E p \in Requested : StartsFile(p)
  BY <1>5 DEF HostStep, OpensLink, ReceivesRequest, ReceivesEnd, Replies,
       Breaks, EndsRequest, FinishesFile, AbandonsFile, ReportsFreeSpace,
       EndsFile, SendsFile, Removes, Lists, MakesDirectory, MovesNothing,
       CopiesNothing, Moves, Copies, Item, Refuses, Succeeds, Answers, Done
<1> QED BY <1>1, <1>2, <1>3, <1>4, <1>5, NextTree
        DEF Next, StreamInv, CutOffIsReceived

LEMMA NextProgress == SessionInv /\ [Next]_vars => ProgressInv'
<1> SUFFICES ASSUME SessionInv, [Next]_vars PROVE ProgressInv'
  OBVIOUS
<1> USE DEF SessionInv, ProgressInv, Keep, Forget, Refuses, Answers, Done, Item,
            Succeeds, OthersMayAct, requestVars, diskVars
<1>1. CASE OpensLink
  BY <1>1 DEF OpensLink
<1>2. CASE ReceivesRequest \/ ReceivesEnd
  BY <1>2 DEF ReceivesRequest, ReceivesEnd
<1>3. CASE Replies \/ Breaks
  BY <1>3 DEF Replies, Breaks
<1>4. CASE EndsRequest \/ FinishesFile \/ AbandonsFile
  BY <1>4 DEF EndsRequest, FinishesFile, AbandonsFile, EndsFile, StreamInv
<1>5. CASE ReportsFreeSpace
  BY <1>5 DEF ReportsFreeSpace
<1>6. ASSUME NEW p \in Requested, StartsFile(p) PROVE ProgressInv'
  BY <1>6 DEF StartsFile
<1>7. ASSUME NEW p \in Requested, SendsFile(p) PROVE ProgressInv'
  BY <1>7 DEF SendsFile
<1>8. ASSUME NEW p \in Requested, Removes(p) PROVE ProgressInv'
  <2>1. CASE phase' = "dead"
    BY <2>1
  <2>2. CASE phase' # "dead"
    <3>1. /\ Checked(tree, p) /\ tree' = Without(tree, p)
          /\ phase' = "busy" /\ op' = "remove" /\ asked' = asked \cup {p}
      BY <1>8, <2>2 DEF Removes
    <3>2. p \in Paths /\ tree \in Trees
      BY <3>1 DEF Checked, TypeOK, Trees
    <3>3. \A q \in Paths : tree'[q] = IF q \in Subtree(p) THEN "none" ELSE tree[q]
      BY <3>1, <3>2, RemovingIsSafe
    <3>4. p \in Subtree(p)
      BY <3>2, Beneath
    <3>5. phase = "busy" /\ op = "remove"
      BY <1>8 DEF Removes
    <3> QED BY <3>1, <3>2, <3>3, <3>4, <3>5
  <2> QED BY <2>1, <2>2
<1>9. ASSUME NEW p \in Requested, Lists(p) PROVE ProgressInv'
  BY <1>9 DEF Lists
<1>10. ASSUME NEW p \in Requested, MakesDirectory(p) PROVE ProgressInv'
  BY <1>10 DEF MakesDirectory
<1>11. ASSUME NEW p \in Requested, MovesNothing(p) PROVE ProgressInv'
  BY <1>11 DEF MovesNothing
<1>12. ASSUME NEW p \in Requested, CopiesNothing(p) PROVE ProgressInv'
  BY <1>12 DEF CopiesNothing
<1>13. ASSUME NEW p \in Requested, NEW q \in Requested, Moves(p, q)
       PROVE  ProgressInv'
  BY <1>13 DEF Moves
<1>14. ASSUME NEW p \in Requested, NEW q \in Requested, Copies(p, q)
       PROVE  ProgressInv'
  BY <1>14 DEF Copies
<1>15. CASE OthersStep
  <2>1. /\ UNCHANGED <<phase, requestVars>>
        /\ phase = "busy" => op \in {"upload", "download"}
    BY <1>15 DEF OthersStep, ReplacesRoot, PlantsLink, Awaiting
  <2> QED BY <2>1
<1>16. CASE UNCHANGED vars
  BY <1>16 DEF vars
<1> QED
  BY <1>1, <1>2, <1>3, <1>4, <1>5, <1>6, <1>7, <1>8, <1>9, <1>10, <1>11,
     <1>12, <1>13, <1>14, <1>15, <1>16 DEF Next, HostStep

LEMMA NextInv == SessionInv /\ [Next]_vars => SessionInv'
BY NextTypeOK, NextTree, NextStream, NextProgress DEF SessionInv

LEMMA SessionInvariant == Spec => []SessionInv
BY InitialInv, NextInv, PTL DEF Spec
-----------------------------------------------------------------------------
\* While the session goes on, nothing is beneath anything but a directory, and
\* a file that is cut off is the one being received, whatever others planted
\* between two awaits (_checked_path, _open_for_write, upload_files).
THEOREM SessionIsSafe == Spec => []LinkInv
<1>1. SessionInv => LinkInv
  BY DEF SessionInv, WellFormed, StreamInv, LinkInv
<1> QED BY <1>1, SessionInvariant, PTL

\* No request creates, moves or removes a link, and beneath a root that was
\* replaced only the file already open is still written (_checked_path,
\* _assert_tree_safe, _assert_root_identity).
THEOREM StaysConfined == Spec => Confined
<1> DEFINE Step == HostStep =>
       /\ {p \in Paths : tree'[p] = "link"} = {p \in Paths : tree[p] = "link"}
       /\ root = "replaced" =>
            \A p \in Paths : tree'[p] # tree[p] => p = stream
<1>1. SessionInv => [Step]_vars
  BY HostEffect DEF Confines, Keeps, Links
<1> QED BY <1>1, SessionInvariant, PTL DEF Confined

\* An answer says what became of every file of its request, not only of the
\* last one (download_files, remove_items).
THEOREM AnswersTruthfully == Spec => TruthfulAnswers
<1> DEFINE Step == phase # "reply" /\ phase' = "reply" =>
       /\ op' = "download" => asked' \subseteq delivered' \cup failed'
       /\ op' = "download" /\ answer' = "ok" =>
            failed' = {} /\ asked' \subseteq delivered'
       /\ op' = "remove" => \A p \in asked' : tree'[p] = "none"
<1>1. ASSUME SessionInv, Next PROVE Step
  <2>1. ASSUME phase # "reply", phase' = "reply"
        PROVE  EndsRequest \/ op' \in {"list", "space", "mkdir", "copy"}
    BY <1>1, <2>1 DEF Next, HostStep, OthersStep, OpensLink, ReceivesRequest,
       ReceivesEnd, Replies, Breaks, FinishesFile, AbandonsFile,
       ReportsFreeSpace, EndsFile, StartsFile, SendsFile, Removes, Lists,
       MakesDirectory, MovesNothing, CopiesNothing, Moves, Copies, Item,
       Refuses, Succeeds, Done, ReplacesRoot, PlantsLink, OthersMayAct
  <2>2. CASE EndsRequest
    BY <1>1, <2>2 DEF EndsRequest, Answers, SessionInv, ProgressInv,
       requestVars, diskVars
  <2> QED BY <2>1, <2>2
<1>2. SessionInv /\ [Next]_vars => [Step]_vars
  BY <1>1
<1> QED BY <1>2, SessionInvariant, PTL DEF Spec, TruthfulAnswers
=============================================================================

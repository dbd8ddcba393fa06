----------------------------- MODULE PaneProofs -----------------------------
(***************************************************************************)
(* Theorems about the file pane, for any paths and any number of changes,  *)
(* clicks and connections lost: its types, and that the pane, the files    *)
(* and what the helper watches agree once all is handled.                  *)
(***************************************************************************)
EXTENDS PaneAgreement

(* A path that leaves p for q keeps its names below.                       *)
LEMMA MovedIs ==
  ASSUME NEW p \in Seq(STRING), NEW q \in Seq(STRING), NEW x \in Seq(STRING), IsPrefix(p, x)
  PROVE  /\ Moved(p, q, x) \in Seq(STRING) /\ Len(Moved(p, q, x)) = Len(q) + (Len(x) - Len(p))
         /\ \A i \in 1..Len(q) : Moved(p, q, x)[i] = q[i]
         /\ \A i \in 1 .. Len(x) - Len(p) : Moved(p, q, x)[Len(q) + i] = x[Len(p) + i]
         /\ Len(p) \in Nat /\ Len(q) \in Nat /\ Len(x) - Len(p) \in Nat
  <1>1. /\ Len(p) \in Nat /\ Len(q) \in Nat /\ Len(x) \in Nat /\ Len(p) <= Len(x)
        /\ \A i \in Len(p) + 1 .. Len(x) : x[i] \in STRING
    <2>1. \A i \in 1..Len(x) : x[i] \in STRING
      BY ElementOfSeq
    <2>2. Len(p) \in Nat /\ Len(q) \in Nat /\ Len(x) \in Nat /\ Len(p) <= Len(x)
      BY LenProperties, PrefixOrder
    <2> QED
      BY <2>1, <2>2
  <1> DEFINE rest == SubSeq(x, Len(p) + 1, Len(x))
  <1>2. Len(p) + 1 \in Int /\ Len(x) \in Int
    BY <1>1
  <1>3. /\ rest \in Seq(STRING)
        /\ Len(rest) = IF Len(p) + 1 <= Len(x) THEN Len(x) - (Len(p) + 1) + 1 ELSE 0
        /\ \A i \in 1 .. Len(x) - (Len(p) + 1) + 1 : rest[i] = x[Len(p) + 1 + i - 1]
    BY ONLY <1>1, <1>2, SubSeqProperties
  <1> HIDE DEF rest
  <1>4. Len(rest) = Len(x) - Len(p) /\ \A i \in 1 .. Len(x) - Len(p) : rest[i] = x[Len(p) + i]
    <2>1. /\ \A m, n \in Nat : m <= n => (IF m + 1 <= n THEN n - (m + 1) + 1 ELSE 0) = n - m
          /\ \A m, n \in Nat : n - (m + 1) + 1 = n - m
          /\ \A m, i \in Nat : m + 1 + i - 1 = m + i
      OBVIOUS
    <2>2. Len(rest) = Len(x) - Len(p) /\ Len(x) - (Len(p) + 1) + 1 = Len(x) - Len(p)
      BY ONLY <1>1, <1>3, <2>1
    <2>3. \A i \in 1 .. Len(x) - Len(p) : rest[i] = x[Len(p) + 1 + i - 1] /\ i \in Nat
      BY <1>1, <1>3, <2>2
    <2> QED
      BY ONLY <1>1, <2>1, <2>2, <2>3
  <1>5. /\ q \o rest \in Seq(STRING) /\ Len(q \o rest) = Len(q) + Len(rest)
        /\ \A i \in 1 .. Len(q) + Len(rest) : (q \o rest)[i] = IF i <= Len(q) THEN q[i] ELSE rest[i - Len(q)]
    BY <1>3, ConcatProperties
  <1> DEFINE m == q \o rest
  <1>6. m = Moved(p, q, x)
    BY DEF Moved, rest
  <1>7. /\ m \in Seq(STRING) /\ Len(m) = Len(q) + Len(rest)
        /\ \A i \in 1 .. Len(q) + Len(rest) : m[i] = IF i <= Len(q) THEN q[i] ELSE rest[i - Len(q)]
    BY <1>5
  <1> HIDE DEF m
  <1>8. Len(rest) \in Nat /\ Len(q) \in Nat
    BY <1>1, <1>4
  <1>9. \A i \in 1..Len(q) : m[i] = q[i]
    <2> SUFFICES ASSUME NEW i \in 1..Len(q) PROVE m[i] = q[i]
      OBVIOUS
    <2>1. i \in 1 .. Len(q) + Len(rest) /\ i <= Len(q)
      BY <1>8
    <2> QED
      BY <1>7, <2>1
  <1>10. \A i \in 1..Len(rest) : m[Len(q) + i] = rest[i]
    <2> SUFFICES ASSUME NEW i \in 1..Len(rest) PROVE m[Len(q) + i] = rest[i]
      OBVIOUS
    <2>1. /\ Len(q) + i \in 1 .. Len(q) + Len(rest) /\ ~ (Len(q) + i <= Len(q))
          /\ Len(q) + i - Len(q) = i
      BY <1>8
    <2> QED
      BY <1>7, <2>1
  <1>11. Len(x) - Len(p) \in Nat
    BY <1>1
  <1> QED
    BY <1>1, <1>4, <1>6, <1>7, <1>9, <1>10, <1>11

LEMMA MovedBack ==
  ASSUME NEW p \in Seq(STRING), NEW q \in Seq(STRING), NEW x \in Seq(STRING), IsPrefix(p, x)
  PROVE  /\ IsPrefix(q, Moved(p, q, x)) /\ Moved(q, p, Moved(p, q, x)) = x
         /\ x # p /\ p # <<>> /\ q # <<>>
              => parent(Moved(p, q, x)) = Moved(p, q, parent(x)) /\ Moved(p, q, x) # q
  <1> DEFINE m == Moved(p, q, x)
  <1>1. /\ m \in Seq(STRING) /\ Len(m) = Len(q) + (Len(x) - Len(p))
        /\ \A i \in 1..Len(q) : m[i] = q[i]
        /\ \A i \in 1 .. Len(x) - Len(p) : m[Len(q) + i] = x[Len(p) + i]
        /\ Len(p) \in Nat /\ Len(q) \in Nat /\ Len(x) - Len(p) \in Nat
    BY MovedIs
  <1> HIDE DEF m
  <1>2. Len(x) \in Nat
    BY LenProperties
  <1>3. IsPrefix(q, m)
    <2>1. Len(q) <= Len(m)
      BY <1>1
    <2> QED
      BY <1>1, <2>1, PrefixIs
  <1>4. Moved(q, p, m) = x
    <2> DEFINE b == Moved(q, p, m)
    <2>0. m \in Seq(STRING)
      BY <1>1
    <2>1. /\ b \in Seq(STRING) /\ Len(b) = Len(p) + (Len(m) - Len(q))
          /\ \A i \in 1..Len(p) : b[i] = p[i]
          /\ \A i \in 1 .. Len(m) - Len(q) : b[Len(p) + i] = m[Len(q) + i]
      BY <1>3, <2>0, MovedIs, ZenonT(30)
    <2> HIDE DEF b
    <2>2. Len(m) - Len(q) = Len(x) - Len(p) /\ Len(b) = Len(x)
      BY <1>1, <1>2, <2>1
    <2>3. \A i \in 1..Len(p) : x[i] = p[i]
      BY PrefixIs
    <2>4. ASSUME NEW i \in 1..Len(x) PROVE b[i] = x[i]
      <3>1. CASE i <= Len(p)
        BY <1>1, <1>2, <2>1, <2>3, <3>1
      <3>2. CASE i > Len(p)
        <4> DEFINE j == i - Len(p)
        <4>1. j \in 1 .. Len(x) - Len(p) /\ Len(p) + j = i
          BY <1>1, <1>2, <3>2
        <4> HIDE DEF j
        <4> QED
          BY <1>1, <2>1, <2>2, <4>1
      <3> QED
        BY <1>1, <1>2, <3>1, <3>2
    <2> QED
      BY <1>2, <2>1, <2>2, <2>4, SeqEqual DEF b
  <1>5. ASSUME x # p, p # <<>>, q # <<>> PROVE parent(m) = Moved(p, q, parent(x)) /\ m # q
    <2>0. Len(p) <= Len(x) /\ Len(p) # Len(x) /\ Len(p) # 0 /\ Len(q) # 0
      BY <1>5, EmptySeq, PrefixOrder
    <2>1. Len(x) - Len(p) # 0 /\ Len(x) # 0 /\ Len(m) # 0 /\ Len(m) # Len(q)
      BY <1>1, <1>2, <2>0
    <2>2. x # <<>> /\ m # <<>> /\ m # q
      BY <1>1, <2>1, EmptySeq
    <2>3. /\ parent(x) \in Seq(STRING) /\ Len(parent(x)) = Len(x) - 1
          /\ \A i \in 1 .. Len(x) - 1 : parent(x)[i] = x[i]
          /\ IsPrefix(p, parent(x))
      BY <1>5, <2>2, ParentIs, ParentOrder
    <2>4. /\ parent(m) \in Seq(STRING) /\ Len(parent(m)) = Len(m) - 1
          /\ \A i \in 1 .. Len(m) - 1 : parent(m)[i] = m[i]
      BY <1>1, <2>2, ParentIs
    <2>below. parent(x) \in Seq(STRING) /\ IsPrefix(p, parent(x))
      BY <2>3
    <2> DEFINE b == Moved(p, q, parent(x))
    <2>5. /\ b \in Seq(STRING) /\ Len(b) = Len(q) + (Len(parent(x)) - Len(p))
          /\ \A i \in 1..Len(q) : b[i] = q[i]
          /\ \A i \in 1 .. Len(parent(x)) - Len(p) : b[Len(q) + i] = parent(x)[Len(p) + i]
      BY <2>below, MovedIs, ZenonT(30)
    <2> HIDE DEF b
    <2>6. Len(b) = Len(m) - 1 /\ Len(m) - 1 \in Nat
      BY <1>1, <1>2, <2>1, <2>3, <2>5
    <2>7. ASSUME NEW i \in 1 .. Len(m) - 1 PROVE b[i] = parent(m)[i]
      <3>1. CASE i <= Len(q)
        <4>1. i \in 1..Len(q)
          BY <1>1, <3>1, <2>6
        <4> QED
          BY <1>1, <2>4, <2>5, <4>1
      <3>2. CASE i > Len(q)
        <4> DEFINE j == i - Len(q)
        <4>1. /\ j \in 1 .. (Len(x) - 1) - Len(p) /\ j \in 1 .. Len(x) - Len(p) /\ Len(q) + j = i
              /\ Len(p) + j \in 1 .. Len(x) - 1
          BY <1>1, <1>2, <2>0, <2>6, <3>2
        <4> HIDE DEF j
        <4>2. b[Len(q) + j] = parent(x)[Len(p) + j]
          BY <2>3, <2>5, <4>1
        <4>3. m[Len(q) + j] = x[Len(p) + j]
          BY <1>1, <4>1
        <4> QED
          BY <2>3, <2>4, <4>1, <4>2, <4>3
      <3> QED
        BY <1>1, <2>6, <3>1, <3>2
    <2>8. b = parent(m)
      BY <2>4, <2>5, <2>6, <2>7, SeqEqual
    <2> QED
      BY <2>2, <2>8 DEF b
  <1> QED
    BY <1>3, <1>4, <1>5 DEF m

(* What lies in the queues.                                                *)
Masks == {"CREATE", "DELETE", "ATTRIB", "MOVED_FROM", "MOVED_TO", "DELETE_SELF", "MOVE_SELF"}
KernelEvents(wds) == [wd : wds, mask : Masks, name : Seq(STRING)]

DiskTree ==
  /\ disk \in [Paths -> EntryKinds]
  /\ \A p \in Paths : disk[p] # "none" => IsDir(parent(p))

PaneTree ==
  /\ shown \in [Paths -> EntryKinds \union {"unknown"}]
  /\ \A p \in Paths : shown[p] # "none" => parent(p) = Root \/ shown[parent(p)] = "dir"
  /\ openDirs \subseteq {p \in Paths : shown[p] = "dir"}
  /\ prevOpenFolders \subseteq Paths

Watches ==
  /\ \A w \in kernel : w = [wd |-> w.wd, at |-> w.at] /\ IsDir(w.at)
  /\ \A w \in fnames : w.fname \in Seq(STRING)

(* The kernel's events are for watches it has or had.                      *)
EventTypes ==
  \E wds : /\ \A w \in kernel : w.wd \in wds
           /\ events \in Seq(KernelEvents(wds)) /\ batch \in Seq(KernelEvents(wds))

QueueTypes ==
  /\ stdin \in Seq(PaneCommands) /\ lines \in Seq(PaneCommands)
  /\ stdout \in Seq(HelperMessages)

MonInv == DiskTree /\ PaneTree /\ Watches /\ EventTypes /\ QueueTypes

(* There is nothing below what is not there.                               *)
LEMMA NothingBelow ==
  ASSUME DiskTree, NEW q \in Paths, NEW x \in Paths, IsPrefix(q, x), disk[x] # "none"
  PROVE  disk[q] # "none"
  <1> SUFFICES ASSUME disk[q] = "none" PROVE FALSE
    OBVIOUS
  <1> DEFINE T == {Len(c) : c \in {y \in Paths : disk[y] # "none" /\ IsPrefix(q, y)}}
  <1>1. Len(x) \in T
    OBVIOUS
  <1>2. T \subseteq Nat
    BY PathIs, LenProperties
  <1>3. PICK n \in T : \A m \in T : n <= m
    BY <1>1, <1>2, HasLeast
  <1>4. PICK c \in Paths : disk[c] # "none" /\ IsPrefix(q, c) /\ n = Len(c)
    BY <1>3
  <1>5. \A y \in Paths : disk[y] # "none" /\ IsPrefix(q, y) => Len(c) <= Len(y)
    BY <1>3, <1>4
  <1> HIDE DEF T
  <1> DEFINE d == parent(c)
  <1>6. /\ c \in Seq(STRING) /\ Len(c) \in Nat \ {0} /\ d \in Paths \union {Root} /\ d \in Seq(STRING)
        /\ Len(d) = Len(c) - 1
    BY PathIs, ParentIs
  <1>7. IsPrefix(q, d)
    BY <1>4, PathIs, ParentOrder
  <1>8. d # Root
    <2>1. Len(q) <= Len(d) /\ Len(q) \in Nat \ {0}
      BY <1>6, <1>7, PathIs, PrefixOrder, EmptySeq
    <2> QED
      BY <2>1, PathIs, EmptySeq
  <1>9. disk[d] = "dir" /\ d \in Paths
    BY <1>4, <1>6, <1>8 DEF DiskTree, IsDir
  <1>10. ~ (Len(c) <= Len(d))
    BY <1>6
  <1> QED
    BY <1>5, <1>7, <1>9, <1>10

-----------------------------------------------------------------------------
(* The files change *)

LEMMA TellTypes ==
  ASSUME NEW wds, \A w \in kernel : w.wd \in wds, NEW d, NEW m \in Masks, NEW n \in Seq(STRING)
  PROVE  Tell(d, m, n) \in Seq(KernelEvents(wds))
  <1>1. CASE Watching(d) = {}
    BY <1>1, EmptySeq DEF Tell
  <1>2. CASE Watching(d) # {}
    <2> DEFINE w == CHOOSE w \in Watching(d) : TRUE
    <2>1. w \in kernel
      BY <1>2 DEF Watching
    <2> HIDE DEF w
    <2>2. [wd |-> w.wd, mask |-> m, name |-> n] \in KernelEvents(wds)
      BY <2>1 DEF KernelEvents
    <2>3. <<[wd |-> w.wd, mask |-> m, name |-> n]>> \in Seq(KernelEvents(wds))
      BY <2>2
    <2> QED
      BY <1>2, <2>3 DEF Tell, w
  <1> QED
    BY <1>1, <1>2

LEMMA TellParentTypes ==
  ASSUME NEW wds, \A w \in kernel : w.wd \in wds, NEW p \in Paths, NEW m \in Masks
  PROVE  TellParent(p, m) \in Seq(KernelEvents(wds))
  BY PathIs, TellTypes DEF TellParent

LEMMA CreateKeepsPane ==
  ASSUME MonInv, NEW p \in Paths, NEW k \in {"dir", "file"}, Create(p, k) PROVE MonInv'
  <1> USE DEF Create, Change, helpervars, panevars
  <1>1. p # parent(p) /\ p # Root
    BY PathIs, ParentOrder
  <1>2. \A d : IsDir(d) => IsDir(d)' /\ d # p
    BY <1>1 DEF MonInv, DiskTree, IsDir
  <1>3. DiskTree'
    <2>1. disk' \in [Paths -> EntryKinds]
      BY DEF MonInv, DiskTree, EntryKinds
    <2>2. ASSUME NEW x \in Paths, disk'[x] # "none" PROVE IsDir(parent(x))'
      BY <1>2, <2>2 DEF MonInv, DiskTree
    <2> QED
      BY <2>1, <2>2 DEF DiskTree
  <1>4. PaneTree' /\ QueueTypes'
    BY DEF MonInv, PaneTree, QueueTypes
  <1>5. Watches'
    BY <1>2 DEF MonInv, Watches
  <1>6. EventTypes'
    <2>1. PICK wds : /\ \A w \in kernel : w.wd \in wds
                     /\ events \in Seq(KernelEvents(wds)) /\ batch \in Seq(KernelEvents(wds))
      BY DEF MonInv, EventTypes
    <2>2. TellParent(p, "CREATE") \in Seq(KernelEvents(wds))
      BY <2>1, TellParentTypes DEF Masks
    <2>3. events' \in Seq(KernelEvents(wds)) /\ batch' = batch /\ kernel' = kernel
      BY <2>1, <2>2, ConcatProperties
    <2> QED
      BY <2>1, <2>3 DEF EventTypes
  <1> QED
    BY <1>3, <1>4, <1>5, <1>6 DEF MonInv

LEMMA ChmodKeepsPane ==
  ASSUME MonInv, NEW p \in Paths, Chmod(p) PROVE MonInv'
  <1> USE DEF Chmod, Change, helpervars, panevars
  <1>1. \A d : IsDir(d) => IsDir(d)'
    BY DEF MonInv, DiskTree, IsDir
  <1>2. DiskTree'
    <2>1. disk' \in [Paths -> EntryKinds]
      BY DEF MonInv, DiskTree, EntryKinds
    <2>2. ASSUME NEW x \in Paths, disk'[x] # "none" PROVE IsDir(parent(x))'
      BY <1>1, <2>2 DEF MonInv, DiskTree
    <2> QED
      BY <2>1, <2>2 DEF DiskTree
  <1>3. PaneTree' /\ QueueTypes'
    BY DEF MonInv, PaneTree, QueueTypes
  <1>4. Watches'
    BY <1>1 DEF MonInv, Watches
  <1>5. EventTypes'
    <2>1. PICK wds : /\ \A w \in kernel : w.wd \in wds
                     /\ events \in Seq(KernelEvents(wds)) /\ batch \in Seq(KernelEvents(wds))
      BY DEF MonInv, EventTypes
    <2>2. TellParent(p, "ATTRIB") \in Seq(KernelEvents(wds))
      BY <2>1, TellParentTypes DEF Masks
    <2>3. events' \in Seq(KernelEvents(wds)) /\ batch' = batch /\ kernel' = kernel
      BY <2>1, <2>2, ConcatProperties
    <2> QED
      BY <2>1, <2>3 DEF EventTypes
  <1> QED
    BY <1>2, <1>3, <1>4, <1>5 DEF MonInv

LEMMA DeleteKeepsPane ==
  ASSUME MonInv, NEW p \in Paths, Delete(p) PROVE MonInv'
  <1> USE DEF Delete, Change, helpervars, panevars
  <1>1. \A d : IsDir(d) /\ d # p => IsDir(d)'
    BY DEF MonInv, DiskTree, IsDir
  <1>2. DiskTree'
    <2>1. disk' \in [Paths -> EntryKinds]
      BY DEF MonInv, DiskTree, EntryKinds
    <2>2. ASSUME NEW x \in Paths, disk'[x] # "none" PROVE IsDir(parent(x))'
      <3>1. disk[x] # "none" /\ parent(x) # p
        BY <2>2 DEF MonInv, DiskTree, Children
      <3> QED
        BY <1>1, <3>1 DEF MonInv, DiskTree
    <2> QED
      BY <2>1, <2>2 DEF DiskTree
  <1>3. PaneTree' /\ QueueTypes'
    BY DEF MonInv, PaneTree, QueueTypes
  <1>4. Watches'
    BY <1>1 DEF MonInv, Watches, Watching
  <1>5. EventTypes'
    <2>1. PICK wds : /\ \A w \in kernel : w.wd \in wds
                     /\ events \in Seq(KernelEvents(wds)) /\ batch \in Seq(KernelEvents(wds))
      BY DEF MonInv, EventTypes
    <2>2. /\ TellParent(p, "DELETE") \in Seq(KernelEvents(wds))
          /\ Tell(p, "DELETE_SELF", <<>>) \in Seq(KernelEvents(wds))
      BY <2>1, TellParentTypes, TellTypes, EmptySeq DEF Masks
    <2>3. events' \in Seq(KernelEvents(wds)) /\ batch' = batch /\ kernel' \subseteq kernel
      BY <2>1, <2>2, ConcatProperties
    <2> QED
      BY <2>1, <2>3 DEF EventTypes
  <1> QED
    BY <1>2, <1>3, <1>4, <1>5 DEF MonInv

(* A directory that is moved takes the tree below it, and its watches, to  *)
(* a place where nothing is.                                               *)
LEMMA MoveKeepsPane ==
  ASSUME MonInv, NEW p \in Paths, NEW q \in Paths, Move(p, q) PROVE MonInv'
  <1> USE DEF Change, helpervars, panevars
  <1>1. DiskTree /\ p \in Seq(STRING) /\ q \in Seq(STRING) /\ p # <<>> /\ q # <<>>
    BY PathIs DEF MonInv
  <1>2. ASSUME NEW x \in Paths, disk[x] # "none" PROVE ~ IsPrefix(q, x)
    BY <1>1, <1>2, NothingBelow DEF Move
  <1>3. ASSUME NEW x \in Paths, disk[x] # "none", ~ IsPrefix(p, x) PROVE disk'[x] = disk[x]
    BY <1>2, <1>3 DEF Move
  <1>4. \A d : IsDir(d) /\ ~ (d \in Paths /\ IsPrefix(p, d)) => IsDir(d)'
    BY <1>3 DEF IsDir
  <1>5. ASSUME NEW x \in Paths, disk[x] # "none", IsPrefix(p, x)
        PROVE  /\ Moved(p, q, x) \in Paths /\ IsPrefix(q, Moved(p, q, x)) /\ disk'[Moved(p, q, x)] = disk[x]
    <2> DEFINE z == Moved(p, q, x)
    <2>1. x \in Seq(STRING) /\ z \in Paths
      BY <1>5, PathIs DEF Move, Under
    <2>2. IsPrefix(q, z) /\ Moved(q, p, z) = x
      BY <1>1, <1>5, <2>1, MovedBack
    <2> HIDE DEF z
    <2>0. z \in Seq(STRING)
      BY <2>1, PathIs
    <2>3. ~ IsPrefix(p, z)
      <3> SUFFICES ASSUME IsPrefix(p, z) PROVE FALSE
        OBVIOUS
      <3>1. Len(p) \in Nat /\ Len(q) \in Nat
        BY <1>1, LenProperties
      <3>2. ~ IsPrefix(p, q) /\ disk[p] # "none"
        BY DEF Move
      <3>3. ~ (Len(p) <= Len(q))
        BY <1>1, <2>0, <2>2, <3>2, PrefixOrder
      <3>4. IsPrefix(q, p)
        BY <1>1, <2>0, <2>2, <3>1, <3>3, PrefixOrder
      <3> QED
        BY <1>2, <3>2, <3>4
    <2> QED
      BY <2>1, <2>2, <2>3 DEF Move, z
  <1>6. DiskTree'
    <2>1. disk' \in [Paths -> EntryKinds]
      BY <1>1 DEF DiskTree, Move, EntryKinds
    <2>2. ASSUME NEW x \in Paths, disk'[x] # "none" PROVE IsDir(parent(x))'
      <3>1. /\ x \in Seq(STRING) /\ x # <<>> /\ parent(x) \in Seq(STRING)
            /\ parent(x) \in Paths \union {Root}
        BY PathIs
      <3>2. ~ IsPrefix(p, x) /\ ~ IsPrefix(p, parent(x))
        BY <1>1, <2>2, <3>1, ParentOrder DEF Move
      <3>3. CASE IsPrefix(q, x) /\ Moved(q, p, x) \in Paths
        <4> DEFINE y == Moved(q, p, x)
        <4>1. y \in Paths /\ disk[y] # "none" /\ IsPrefix(p, y)
          BY <1>1, <2>2, <3>1, <3>2, <3>3, MovedBack DEF Move
        <4>2. CASE x = q
          <5>1. IsDir(parent(x))
            BY <4>2 DEF Move
          <5> QED
            BY <1>4, <3>2, <5>1
        <4>3. CASE x # q
          <5>1. parent(y) = Moved(q, p, parent(x)) /\ y # p /\ IsPrefix(q, parent(x))
            BY <1>1, <3>1, <3>3, <4>3, MovedBack, ParentOrder
          <5>2. y \in Seq(STRING) /\ y # <<>> /\ IsPrefix(p, parent(y))
            BY <1>1, <4>1, <5>1, PathIs, ParentOrder
          <5> HIDE DEF y
          <5>3. IsDir(parent(y)) /\ parent(y) \in Paths \union {Root} /\ parent(y) \in Seq(STRING)
            BY <1>1, <4>1, PathIs DEF DiskTree
          <5>4. parent(y) # Root /\ parent(x) # Root
            BY <1>1, <5>1, <5>2, NotAboveRoot
          <5>5. parent(y) \in Paths /\ parent(x) \in Paths /\ disk[parent(y)] = "dir"
            BY <3>1, <5>3, <5>4 DEF IsDir
          <5>6. disk'[parent(x)] = disk[parent(y)]
            BY <3>2, <5>1, <5>5 DEF Move
          <5> QED
            BY <5>5, <5>6 DEF IsDir
        <4> QED
          BY <4>2, <4>3
      <3>4. CASE ~ (IsPrefix(q, x) /\ Moved(q, p, x) \in Paths)
        <4>1. disk[x] # "none"
          BY <2>2, <3>2, <3>4 DEF Move
        <4> QED
          BY <1>1, <1>4, <3>2, <4>1 DEF DiskTree
      <3> QED
        BY <3>3, <3>4
    <2> QED
      BY <2>1, <2>2 DEF DiskTree
  <1>7. PaneTree' /\ QueueTypes'
    BY DEF MonInv, PaneTree, QueueTypes, Move
  <1> DEFINE relocated(w) == IF IsPrefix(p, w.at) THEN [w EXCEPT !.at = Moved(p, q, w.at)] ELSE w
  <1>8. ASSUME NEW w \in kernel
        PROVE  /\ relocated(w) = [wd |-> relocated(w).wd, at |-> relocated(w).at]
               /\ relocated(w).wd = w.wd /\ IsDir(relocated(w).at)'
    <2>1. w = [wd |-> w.wd, at |-> w.at] /\ IsDir(w.at)
      BY DEF MonInv, Watches
    <2>2. CASE IsPrefix(p, w.at)
      <3>1. w.at # Root
        BY <1>1, <2>2, NotAboveRoot
      <3>2. w.at \in Paths /\ disk[w.at] = "dir"
        BY <2>1, <3>1 DEF IsDir
      <3>3. IsDir(Moved(p, q, w.at))'
        BY <1>5, <2>2, <3>2 DEF IsDir
      <3>4. [w EXCEPT !.at = Moved(p, q, w.at)] = [wd |-> w.wd, at |-> Moved(p, q, w.at)]
        BY <2>1
      <3> QED
        BY <2>2, <3>3, <3>4
    <2>3. CASE ~ IsPrefix(p, w.at)
      BY <1>4, <2>1, <2>3
    <2> QED
      BY <2>2, <2>3
  <1>9. kernel' = {relocated(w) : w \in kernel}
    BY DEF Move
  <1> HIDE DEF relocated
  <1>10. ASSUME NEW v \in kernel' PROVE v = [wd |-> v.wd, at |-> v.at] /\ IsDir(v.at)' /\ \E w \in kernel : v.wd = w.wd
    BY <1>8, <1>9
  <1>11. Watches'
    BY <1>10 DEF MonInv, Watches, Move
  <1>12. EventTypes'
    <2>1. PICK wds : /\ \A w \in kernel : w.wd \in wds
                     /\ events \in Seq(KernelEvents(wds)) /\ batch \in Seq(KernelEvents(wds))
      BY DEF MonInv, EventTypes
    <2>2. /\ TellParent(p, "MOVED_FROM") \in Seq(KernelEvents(wds))
          /\ TellParent(q, "MOVED_TO") \in Seq(KernelEvents(wds))
          /\ Tell(p, "MOVE_SELF", <<>>) \in Seq(KernelEvents(wds))
      BY <2>1, TellParentTypes, TellTypes, EmptySeq DEF Masks
    <2>3. events' \in Seq(KernelEvents(wds)) /\ batch' = batch
      BY <2>1, <2>2, ConcatProperties DEF Move
    <2> QED
      BY <1>10, <2>1, <2>3 DEF EventTypes
  <1> QED
    BY <1>6, <1>7, <1>11, <1>12 DEF MonInv

-----------------------------------------------------------------------------
(* The helper *)

LEMMA SelectKeepsPane ==
  ASSUME MonInv, Select \/ ReadStdin PROVE MonInv'
  <1> USE DEF Select, ReadStdin, Helper, panevars, kernelvars
  <1>1. DiskTree' /\ PaneTree' /\ Watches'
    BY DEF MonInv, DiskTree, PaneTree, Watches, IsDir
  <1>2. QueueTypes'
    BY EmptySeq DEF MonInv, QueueTypes
  <1>3. EventTypes'
    <2>1. PICK wds : /\ \A w \in kernel : w.wd \in wds
                     /\ events \in Seq(KernelEvents(wds)) /\ batch \in Seq(KernelEvents(wds))
      BY DEF MonInv, EventTypes
    <2>2. events' \in Seq(KernelEvents(wds)) /\ batch' \in Seq(KernelEvents(wds)) /\ kernel' = kernel
      BY <2>1, EmptySeq
    <2> QED
      BY <2>1, <2>2 DEF EventTypes
  <1> QED
    BY <1>1, <1>2, <1>3 DEF MonInv

LEMMA CommandIs ==
  ASSUME MonInv, NEW op, Command(op)
  PROVE  Head(lines).fname \in Seq(STRING) /\ lines' \in Seq(PaneCommands) /\ DiskTree' /\ PaneTree'
  <1>1. Head(lines) \in PaneCommands /\ lines' \in Seq(PaneCommands)
    BY HeadTailProperties DEF MonInv, QueueTypes, Command
  <1>2. Head(lines).fname \in Seq(STRING)
    BY <1>1 DEF PaneCommands
  <1>3. DiskTree' /\ PaneTree'
    BY DEF Command, Helper, panevars, MonInv, DiskTree, PaneTree, IsDir
  <1> QED
    BY <1>1, <1>2, <1>3

LEMMA AddWatchKeepsPane ==
  ASSUME MonInv, AddWatch PROVE MonInv'
  <1> DEFINE d == Head(lines).fname
             w == IF Watching(d) # {} THEN CHOOSE x \in Watching(d) : TRUE ELSE [wd |-> Unused, at |-> d]
  <1>1. d \in Seq(STRING) /\ lines' \in Seq(PaneCommands) /\ DiskTree' /\ PaneTree'
    BY CommandIs DEF AddWatch
  <1>2. /\ w = [wd |-> w.wd, at |-> d]
        /\ \A x \in kernel : x = [wd |-> x.wd, at |-> x.at]
    BY DEF MonInv, Watches, Watching
  <1>3. IF IsDir(d)
        THEN /\ kernel' = kernel \union {w} /\ stdout' = stdout
             /\ fnames' = {x \in fnames : x.wd # w.wd} \union {[wd |-> w.wd, fname |-> d]}
        ELSE stdout' = Append(stdout, message("error", d, "none")) /\ UNCHANGED <<kernel, fnames>>
    BY DEF AddWatch
  <1> HIDE DEF w, d
  <1>4. UNCHANGED <<disk, events, batch, stdin>>
    BY DEF AddWatch, Command, Helper
  <1>5. Watches'
    <2>1. \A x : IsDir(x)' <=> IsDir(x)
      BY <1>4 DEF IsDir
    <2>2. \A x \in kernel' : x = [wd |-> x.wd, at |-> x.at] /\ IsDir(x.at)
      BY <1>2, <1>3 DEF MonInv, Watches
    <2>3. \A x \in fnames' : x.fname \in Seq(STRING)
      BY <1>1, <1>3 DEF MonInv, Watches
    <2> QED
      BY <2>1, <2>2, <2>3 DEF Watches
  <1>6. EventTypes'
    <2>1. PICK wds : /\ \A x \in kernel : x.wd \in wds
                     /\ events \in Seq(KernelEvents(wds)) /\ batch \in Seq(KernelEvents(wds))
      BY DEF MonInv, EventTypes
    <2> DEFINE all == wds \union {w.wd}
    <2>2. KernelEvents(wds) \subseteq KernelEvents(all)
      BY DEF KernelEvents
    <2>3. \A x \in kernel' : x.wd \in all
      BY <1>3, <2>1
    <2>4. events' \in Seq(KernelEvents(all)) /\ batch' \in Seq(KernelEvents(all))
      BY <1>4, <2>1, <2>2, SeqMonotonic
    <2> QED
      BY <2>3, <2>4 DEF EventTypes
  <1>7. QueueTypes'
    <2>1. message("error", d, "none") \in HelperMessages
      BY <1>1 DEF message, HelperMessages, EntryKinds
    <2>2. stdout' \in Seq(HelperMessages)
      BY <1>3, <2>1, AppendProperties DEF MonInv, QueueTypes
    <2> QED
      BY <1>1, <1>4, <2>2 DEF MonInv, QueueTypes
  <1> QED
    BY <1>1, <1>5, <1>6, <1>7 DEF MonInv

LEMMA RemoveWatchKeepsPane ==
  ASSUME MonInv, RemoveWatch \/ Echo PROVE MonInv'
  <1>1. lines' \in Seq(PaneCommands) /\ DiskTree' /\ PaneTree'
    BY CommandIs DEF RemoveWatch, Echo
  <1>2. UNCHANGED <<disk, events, batch, stdin>> /\ kernel' \subseteq kernel /\ fnames' \subseteq fnames
    BY DEF RemoveWatch, Echo, Command, Helper, remove_watch_and_subwatches
  <1>3. Watches' /\ EventTypes'
    BY <1>2 DEF MonInv, Watches, EventTypes, IsDir
  <1>4. QueueTypes'
    <2>1. message("heartbeat", Root, "none") \in HelperMessages
      BY PathIs DEF message, HelperMessages, EntryKinds
    <2>2. stdout' \in Seq(HelperMessages)
      BY <2>1, AppendProperties DEF MonInv, QueueTypes, RemoveWatch, Echo
    <2> QED
      BY <1>1, <1>2, <2>2 DEF MonInv, QueueTypes
  <1> QED
    BY <1>1, <1>3, <1>4 DEF MonInv

LEMMA SetToSeqIs ==
  ASSUME NEW S, IsFiniteSet(S)
  PROVE  Cardinality(S) \in Nat /\ SetToSeq(S) \in [1..Cardinality(S) -> S]
  <1>1. Cardinality(S) \in Nat /\ ExistsBijection(1..Cardinality(S), S)
    BY FS_CardinalityType
  <1>2. \E f \in [1..Cardinality(S) -> S] : IsInjective(f)
    BY <1>1 DEF ExistsBijection, Bijection, Injection
  <1> QED
    BY <1>1, <1>2 DEF SetToSeq

LEMMA ListKeepsPane ==
  ASSUME MonInv, List PROVE MonInv'
  <1> USE DEF List, Helper, panevars, kernelvars
  <1>1. DiskTree' /\ PaneTree' /\ Watches' /\ EventTypes'
    BY DEF MonInv, DiskTree, PaneTree, Watches, EventTypes, IsDir
  <1>2. PICK d \in listing :
          LET items == SetToSeq({p \in Children(d) : disk[p] # "none"})
          IN  stdout' = IF IsDir(d)
                        THEN stdout \o [i \in DOMAIN items |->
                                          message("create", items[i], disk[items[i]])]
                        ELSE stdout
    OBVIOUS
  <1> DEFINE S == {p \in Children(d) : disk[p] # "none"}
             items == SetToSeq(S)
             told == [i \in DOMAIN items |-> message("create", items[i], disk[items[i]])]
  <1>3. S \subseteq Paths /\ IsFiniteSet(S)
    BY MonitorAssumption, FS_Subset DEF Children
  <1>4. Cardinality(S) \in Nat /\ items \in [1..Cardinality(S) -> S]
    BY <1>3, SetToSeqIs
  <1>5. ASSUME NEW i \in 1..Cardinality(S)
        PROVE  message("create", items[i], disk[items[i]]) \in HelperMessages
    <2>1. items[i] \in Paths
      BY <1>3, <1>4
    <2>2. items[i] \in Seq(STRING) /\ disk[items[i]] \in EntryKinds
      BY <2>1, PathIs DEF MonInv, DiskTree
    <2> QED
      BY <2>2 DEF message, HelperMessages
  <1>6. told \in [1..Cardinality(S) -> HelperMessages]
    BY <1>4, <1>5
  <1> HIDE DEF told
  <1>7. told \in Seq(HelperMessages)
    <2> DEFINE n == Cardinality(S)
    <2>1. n \in Nat /\ told \in [1..n -> HelperMessages]
      BY <1>4, <1>6
    <2> HIDE DEF n
    <2> QED
      BY ONLY <2>1, SeqDef
  <1>8. stdout' \in Seq(HelperMessages)
    BY <1>2, <1>7, ConcatProperties DEF MonInv, QueueTypes, told
  <1>9. QueueTypes'
    BY <1>8 DEF MonInv, QueueTypes
  <1> QED
    BY <1>1, <1>9 DEF MonInv

LEMMA HandleEventKeepsPane ==
  ASSUME MonInv, HandleEvent PROVE MonInv'
  <1> DEFINE e == Head(batch)
             known == {w \in fnames : w.wd = e.wd}
             d == (CHOOSE w \in known : TRUE).fname
             p == d \o e.name
  <1>1. PICK wds : /\ \A w \in kernel : w.wd \in wds
                   /\ events \in Seq(KernelEvents(wds)) /\ batch \in Seq(KernelEvents(wds))
    BY DEF MonInv, EventTypes
  <1>2. e \in KernelEvents(wds) /\ batch' \in Seq(KernelEvents(wds))
    BY <1>1, HeadTailProperties DEF HandleEvent
  <1>3. e.name \in Seq(STRING) /\ e.mask \in Masks
    BY <1>2 DEF KernelEvents
  <1>4. UNCHANGED <<disk, events, lines, stdin, panevars>>
    BY DEF HandleEvent, Helper
  <1>5. ASSUME known # {} PROVE p \in Seq(STRING)
    <2>1. d \in Seq(STRING)
      BY <1>5 DEF MonInv, Watches
    <2> QED
      BY <1>3, <2>1, ConcatProperties
  <1>6. known = {} => UNCHANGED <<kernel, fnames, stdout>>
    BY DEF HandleEvent
  <1>7. known # {} =>
          /\ \/ remove_watch_and_subwatches(d)
             \/ UNCHANGED <<kernel, fnames>>
          /\ \/ stdout' = Append(stdout, message("delete", p, "none"))
             \/ stdout' = Append(stdout, FileEvent("create", p))
             \/ stdout' = Append(stdout, FileEvent("update", p))
    BY <1>3 DEF HandleEvent, Masks
  <1> HIDE DEF e, known, d, p
  <1>8. kernel' \subseteq kernel /\ fnames' \subseteq fnames
    BY <1>6, <1>7 DEF remove_watch_and_subwatches
  <1>9. DiskTree' /\ PaneTree' /\ Watches' /\ EventTypes'
    <2>1. DiskTree' /\ PaneTree'
      BY <1>4 DEF panevars, MonInv, DiskTree, PaneTree, IsDir
    <2>2. Watches'
      BY <1>4, <1>8 DEF MonInv, Watches, IsDir
    <2> QED
      BY <1>1, <1>2, <1>4, <1>8, <2>1, <2>2 DEF EventTypes
  <1>10. stdout' \in Seq(HelperMessages)
    <2>1. CASE known = {}
      BY <1>6, <2>1 DEF MonInv, QueueTypes
    <2>2. CASE known # {}
      <3>1. p \in Seq(STRING)
        BY <1>5, <2>2
      <3>2. \A k \in EntryKinds \union {"unknown"} : \A v \in {"create", "delete", "update"} :
              message(v, p, k) \in HelperMessages
        BY <3>1 DEF message, HelperMessages
      <3>3. (IF p \in Paths /\ disk[p] # "none" THEN disk[p] ELSE "unknown") \in EntryKinds \union {"unknown"}
        BY DEF MonInv, DiskTree
      <3>4. /\ message("delete", p, "none") \in HelperMessages
            /\ FileEvent("create", p) \in HelperMessages /\ FileEvent("update", p) \in HelperMessages
        BY <3>2, <3>3 DEF FileEvent, EntryKinds
      <3>5. stdout \in Seq(HelperMessages)
        BY DEF MonInv, QueueTypes
      <3> QED
        BY <1>7, <2>2, <3>4, <3>5, AppendProperties
    <2> QED
      BY <2>1, <2>2
  <1>11. QueueTypes'
    BY <1>4, <1>10 DEF MonInv, QueueTypes
  <1> QED
    BY <1>9, <1>11 DEF MonInv

-----------------------------------------------------------------------------
(* The pane and its connection *)

LEMMA CommandsSent ==
  ASSUME NEW p \in Seq(STRING)
  PROVE  add(p) \in PaneCommands /\ remove(p) \in PaneCommands
  BY DEF add, remove, PaneCommands

(* What a step of the pane leaves alone.                                   *)
LEMMA PaneFrame ==
  ASSUME MonInv, UNCHANGED <<disk, kernelvars, batch, fnames, lines>>
  PROVE  DiskTree' /\ Watches' /\ EventTypes' /\ lines' \in Seq(PaneCommands)
  BY DEF MonInv, DiskTree, Watches, EventTypes, QueueTypes, IsDir, kernelvars

LEMMA FirstMessageKeepsPane ==
  ASSUME MonInv, FirstMessage PROVE MonInv'
  <1>1. DiskTree' /\ Watches' /\ EventTypes' /\ lines' \in Seq(PaneCommands)
    BY PaneFrame DEF FirstMessage, helpervars
  <1>2. QueueTypes'
    BY <1>1 DEF FirstMessage, MonInv, QueueTypes
  <1>3. PaneTree'
    BY MonitorAssumption DEF FirstMessage, Opened, Empty, MonInv, PaneTree, EntryKinds
  <1> QED
    BY <1>1, <1>2, <1>3 DEF MonInv

(* Items go with all that is below them.                                   *)
LEMMA WithoutIs ==
  ASSUME PaneTree, NEW p \in Seq(STRING),
         NEW T, T \in {Under(p), Below(p)},
         shown' = Without(T), openDirs' \subseteq openDirs \ T \/ (openDirs' = (openDirs \ T) \union {p} /\ p \notin T /\ p \in Paths /\ shown[p] = "dir"),
         prevOpenFolders' \subseteq Paths
  PROVE  PaneTree'
  <1>1. shown' \in [Paths -> EntryKinds \union {"unknown"}]
    BY DEF Without, PaneTree, EntryKinds
  <1>2. ASSUME NEW x \in Paths, shown'[x] # "none" PROVE parent(x) = Root \/ shown'[parent(x)] = "dir"
    <2>1. x \notin T /\ shown[x] # "none"
      BY <1>2 DEF Without
    <2>2. SUFFICES ASSUME parent(x) # Root PROVE shown'[parent(x)] = "dir"
      OBVIOUS
    <2>3. shown[parent(x)] = "dir" /\ parent(x) \in Paths
      BY <2>1, <2>2, PathIs DEF PaneTree
    <2>4. parent(x) \notin T
      BY <2>1, PathIs, ParentOrder DEF Under, Below
    <2> QED
      BY <2>3, <2>4 DEF Without
  <1>3. openDirs' \subseteq {x \in Paths : shown'[x] = "dir"}
    BY DEF Without, PaneTree
  <1> QED
    BY <1>1, <1>2, <1>3 DEF PaneTree

LEMMA AddItemKeepsTree ==
  ASSUME PaneTree, NEW p \in Seq(STRING), NEW k \in EntryKinds \union {"unknown"}, addItem(p, k)
  PROVE  PaneTree'
  <1> DEFINE before == prevOpenFolders \union (IF followPath(p) # "none" THEN OpenUnder(p) ELSE {})
             placed == p \in Paths /\ (parent(p) = Root \/ shown[parent(p)] = "dir")
             opened == placed /\ p \in before /\ k = "dir"
  <1>1. before \subseteq Paths
    BY DEF PaneTree, OpenUnder
  <1>2. /\ shown' = [Without(Under(p)) EXCEPT ![p] = IF placed THEN k ELSE "none"]
        /\ openDirs' = (openDirs \ Under(p)) \union (IF opened THEN {p} ELSE {})
        /\ prevOpenFolders' = IF placed THEN before \ {p} ELSE before
    BY DEF addItem
  <1>3. opened => p \in Paths /\ k = "dir" /\ placed
    BY <1>1
  <1> HIDE DEF before, opened
  <1>4. shown' \in [Paths -> EntryKinds \union {"unknown"}]
    <2> HIDE DEF placed
    <2>1. Without(Under(p)) \in [Paths -> EntryKinds \union {"unknown"}]
      BY DEF Without, PaneTree, EntryKinds
    <2>2. (IF placed THEN k ELSE "none") \in EntryKinds \union {"unknown"}
      BY DEF EntryKinds
    <2> QED
      BY <1>2, <2>1, <2>2
  <1>5. \A x \in Paths : x # p => shown'[x] = IF x \in Under(p) THEN "none" ELSE shown[x]
    BY <1>2 DEF Without
  <1>6. p \in Paths => shown'[p] = IF placed THEN k ELSE "none"
    BY <1>2 DEF Without
  <1> HIDE DEF placed
  <1>7. ASSUME NEW x \in Paths, shown'[x] # "none" PROVE parent(x) = Root \/ shown'[parent(x)] = "dir"
    <2> SUFFICES ASSUME parent(x) # Root PROVE shown'[parent(x)] = "dir"
      OBVIOUS
    <2>1. /\ x \in Seq(STRING) /\ x # <<>> /\ parent(x) \in Paths /\ parent(x) # x
          /\ ~ IsPrefix(x, parent(x))
      BY PathIs, ParentOrder
    <2>2. CASE x = p
      <3>1. placed
        BY <1>6, <1>7, <2>2
      <3>2. shown[parent(x)] = "dir" /\ parent(x) \notin Under(p)
        BY <2>1, <2>2, <3>1 DEF placed, Under
      <3> QED
        BY <1>5, <2>1, <2>2, <3>2
    <2>3. CASE x # p
      <3>1. x \notin Under(p) /\ shown[x] # "none"
        BY <1>5, <1>7, <2>3
      <3>2. shown[parent(x)] = "dir"
        BY <3>1 DEF PaneTree
      <3>3. ~ IsPrefix(p, parent(x)) /\ parent(x) # p
        BY <2>1, <3>1, ParentOrder, PrefixOrder DEF Under
      <3> QED
        BY <1>5, <2>1, <3>2, <3>3 DEF Under
    <2> QED
      BY <2>2, <2>3
  <1>8. openDirs' \subseteq {x \in Paths : shown'[x] = "dir"}
    <2> SUFFICES ASSUME NEW x \in openDirs' PROVE x \in Paths /\ shown'[x] = "dir"
      OBVIOUS
    <2>1. CASE x \in openDirs \ Under(p)
      <3>1. x \in Paths /\ shown[x] = "dir" /\ x # p
        BY <2>1, PrefixOrder DEF PaneTree, Under
      <3> QED
        BY <1>5, <2>1, <3>1
    <2>2. CASE opened /\ x = p
      BY <1>3, <1>6, <2>2
    <2> QED
      BY <1>2, <2>1, <2>2
  <1>9. prevOpenFolders' \subseteq Paths
    BY <1>1, <1>2
  <1> QED
    BY <1>4, <1>7, <1>8, <1>9 DEF PaneTree

LEMMA MessageKeepsPane ==
  ASSUME MonInv, Message PROVE MonInv'
  <1>1. DiskTree' /\ Watches' /\ EventTypes' /\ lines' \in Seq(PaneCommands)
    BY PaneFrame DEF Message, helpervars
  <1> DEFINE m == Head(stdout)
  <1>2. m \in HelperMessages /\ stdout' \in Seq(HelperMessages)
    BY HeadTailProperties DEF Message, MonInv, QueueTypes
  <1>3. /\ m.fname \in Seq(STRING) /\ m.event \in {"create", "delete", "update", "error", "heartbeat"}
        /\ m.kind \in EntryKinds \union {"unknown"}
    BY <1>2 DEF HelperMessages
  <1>4. \/ UNCHANGED <<shown, openDirs, prevOpenFolders, stdin, stray>>
        \/ addItem(m.fname, m.kind) \/ removeItem(m.fname)
        \/ updateItem(m.fname, m.kind) \/ handleError(m.fname)
    BY <1>3 DEF Message
  <1> HIDE DEF m
  <1>5. PaneTree /\ stdin \in Seq(PaneCommands)
    BY DEF MonInv, QueueTypes
  <1>6. stdin' \in Seq(PaneCommands)
    <2>1. \/ stdin' = stdin \/ stdin' = Append(stdin, add(m.fname)) \/ stdin' = Append(stdin, remove(m.fname))
      BY <1>4 DEF addItem, removeItem, updateItem, handleError
    <2>2. add(m.fname) \in PaneCommands /\ remove(m.fname) \in PaneCommands
      BY <1>3, CommandsSent
    <2> QED
      BY <1>5, <2>1, <2>2, AppendProperties
  <1>7. PaneTree'
    <2>1. CASE UNCHANGED <<shown, openDirs, prevOpenFolders, stdin, stray>>
      BY <1>5, <2>1 DEF PaneTree
    <2>2. CASE addItem(m.fname, m.kind)
      BY <1>3, <1>5, <2>2, AddItemKeepsTree
    <2>3. CASE removeItem(m.fname)
      <3>1. prevOpenFolders' \subseteq Paths
        BY <1>5, <2>3 DEF removeItem, PaneTree
      <3> QED
        BY <1>3, <1>5, <2>3, <3>1, WithoutIs DEF removeItem
    <2>4. CASE updateItem(m.fname, m.kind)
      <3>1. shown' \in [Paths -> EntryKinds \union {"unknown"}]
        BY <1>5, <2>4 DEF updateItem, PaneTree, EntryKinds
      <3>2. \A x \in Paths : /\ shown'[x] # "none" => shown[x] # "none"
                             /\ shown[x] = "dir" => shown'[x] = "dir"
        BY <1>5, <2>4 DEF updateItem, followPath, PaneTree
      <3>3. UNCHANGED <<openDirs, prevOpenFolders>>
        BY <2>4 DEF updateItem
      <3>4. ASSUME NEW x \in Paths, shown'[x] # "none" PROVE parent(x) = Root \/ shown'[parent(x)] = "dir"
        BY <1>5, <3>2, <3>4, PathIs DEF PaneTree
      <3> QED
        BY <1>5, <3>1, <3>2, <3>3, <3>4 DEF PaneTree
    <2>5. CASE handleError(m.fname)
      <3>1. prevOpenFolders' \subseteq Paths
        BY <1>5, <2>5 DEF handleError, PaneTree
      <3>2. CASE followPath(m.fname) = "dir"
        BY <1>3, <1>5, <2>5, <3>1, <3>2, WithoutIs DEF handleError
      <3>3. CASE followPath(m.fname) # "dir"
        BY <1>5, <2>5, <3>3 DEF handleError, PaneTree
      <3> QED
        BY <3>2, <3>3
    <2> QED
      BY <1>4, <2>1, <2>2, <2>3, <2>4, <2>5
  <1>8. QueueTypes'
    BY <1>1, <1>2, <1>6 DEF QueueTypes
  <1> QED
    BY <1>1, <1>7, <1>8 DEF MonInv

LEMMA ToggleKeepsPane ==
  ASSUME MonInv, NEW p \in Paths, toggleDir(p) PROVE MonInv'
  <1>1. DiskTree' /\ Watches' /\ EventTypes' /\ lines' \in Seq(PaneCommands)
    BY PaneFrame DEF toggleDir, helpervars
  <1>2. p \in Seq(STRING) /\ IsPrefix(p, p) /\ PaneTree /\ stdin \in Seq(PaneCommands)
    BY PathIs, PrefixOrder DEF MonInv, QueueTypes
  <1>3. stdin' \in Seq(PaneCommands)
    <2>1. stdin' = Append(stdin, add(p)) \/ stdin' = Append(stdin, remove(p))
      BY DEF toggleDir
    <2>2. add(p) \in PaneCommands /\ remove(p) \in PaneCommands
      BY <1>2, CommandsSent
    <2> QED
      BY <1>2, <2>1, <2>2, AppendProperties
  <1>4. QueueTypes'
    BY <1>1, <1>3 DEF toggleDir, MonInv, QueueTypes
  <1>5. /\ shown' = Without(Below(p)) /\ shown[p] = "dir" /\ p \notin Below(p)
        /\ prevOpenFolders' \subseteq Paths
    BY <1>2 DEF toggleDir, Below, PaneTree
  <1>6. PaneTree'
    <2>1. CASE p \in openDirs
      <3>1. openDirs' \subseteq openDirs \ Below(p)
        BY <2>1 DEF toggleDir, Below
      <3> QED
        BY <1>2, <1>5, <3>1, WithoutIs
    <2>2. CASE p \notin openDirs
      BY <1>2, <1>5, <2>2, WithoutIs DEF toggleDir
    <2> QED
      BY <2>1, <2>2
  <1> QED
    BY <1>1, <1>4, <1>6 DEF MonInv

LEMMA ConnectionKeepsPane ==
  ASSUME MonInv, wsClosed \/ openWS PROVE MonInv'
  <1>1. DiskTree' /\ PaneTree'
    BY DEF wsClosed, openWS, panevars, MonInv, DiskTree, PaneTree, IsDir
  <1>2. Watches'
    BY DEF wsClosed, stop_wait, openWS, kernelvars, MonInv, Watches, IsDir
  <1>3. EventTypes'
    BY EmptySeq DEF wsClosed, stop_wait, openWS, kernelvars, MonInv, EventTypes
  <1>4. QueueTypes'
    <2>1. add(Root) \in PaneCommands /\ Heartbeat \in PaneCommands
      BY PathIs, CommandsSent DEF Heartbeat, PaneCommands
    <2>2. wsOpened \in Seq(PaneCommands)
      BY <2>1 DEF wsOpened
    <2> QED
      BY <2>2, EmptySeq DEF wsClosed, stop_wait, openWS, MonInv, QueueTypes
  <1> QED
    BY <1>1, <1>2, <1>3, <1>4 DEF MonInv

LEMMA PaneInitial == MonInit => MonInv
  <1> SUFFICES ASSUME MonInit PROVE MonInv
    OBVIOUS
  <1>1. add(Root) \in PaneCommands /\ Heartbeat \in PaneCommands
    BY PathIs, CommandsSent DEF Heartbeat, PaneCommands
  <1>2. wsOpened \in Seq(PaneCommands)
    BY <1>1 DEF wsOpened
  <1>3. DiskTree
    BY PathIs DEF MonInit, DiskTree, IsDir
  <1>4. PaneTree /\ Watches
    BY DEF MonInit, Empty, PaneTree, Watches, EntryKinds
  <1>5. QueueTypes
    BY <1>2, EmptySeq DEF MonInit, QueueTypes
  <1>6. EventTypes
    BY EmptySeq DEF MonInit, EventTypes
  <1> QED
    BY <1>3, <1>4, <1>5, <1>6 DEF MonInv

LEMMA PaneStep == MonInv /\ [MonNext]_monvars => MonInv'
  <1> SUFFICES ASSUME MonInv, [MonNext]_monvars PROVE MonInv'
    OBVIOUS
  <1>1. CASE UNCHANGED monvars
    BY <1>1 DEF monvars, kernelvars, helpervars, panevars, MonInv, DiskTree, PaneTree, Watches,
                EventTypes, QueueTypes, IsDir
  <1>2. ASSUME NEW p \in Paths, \/ \E k \in {"dir", "file"} : Create(p, k)
                                \/ Chmod(p) \/ Delete(p) \/ toggleDir(p)
                                \/ \E q \in Paths : Move(p, q)
        PROVE  MonInv'
    BY <1>2, CreateKeepsPane, ChmodKeepsPane, DeleteKeepsPane, ToggleKeepsPane, MoveKeepsPane
  <1>3. CASE Select \/ ReadStdin \/ AddWatch \/ List \/ RemoveWatch \/ Echo \/ HandleEvent
    BY <1>3, SelectKeepsPane, AddWatchKeepsPane, ListKeepsPane, RemoveWatchKeepsPane,
       HandleEventKeepsPane
  <1>4. CASE FirstMessage \/ Message \/ wsClosed \/ openWS
    BY <1>4, FirstMessageKeepsPane, MessageKeepsPane, ConnectionKeepsPane
  <1> QED
    BY <1>1, <1>2, <1>3, <1>4 DEF MonNext

LEMMA PaneTypes == MonInv => MonTypeOK
  BY DEF MonInv, DiskTree, PaneTree, Watches, MonTypeOK

(* The pane keeps a tree: what it shows is below folders it shows, what it *)
(* has open is shown, whatever changes while events are under way; and the *)
(* directories the kernel watches are there.                               *)
THEOREM PaneTypeCorrect == MonSpec => []MonTypeOK
  <1> QED
    BY PaneInitial, PaneStep, PaneTypes, PTL DEF MonSpec

-----------------------------------------------------------------------------
(* What the pane will show agrees with what the helper and the kernel will *)
(* have told it.                                                           *)

(* The events that are still to be handled.                                *)
Coming == batch \o events

EventShape(e) ==
  \/ e.mask \in Left /\ e.name = <<>>
  \/ e.mask \in Gone \union Came \union {"ATTRIB"} /\ e.name \in Names /\ Len(e.name) = 1

(* A batch is handled before the commands that were sent with it, and a    *)
(* directory is listed before what comes next.                             *)
QueueOrder ==
  /\ ready \in BOOLEAN /\ stray \in BOOLEAN
  /\ (listing = {} /\ lines = <<>>) \/ (batch = <<>> /\ ~ ready)
  /\ \A d \in listing : Watched(fnames, d) /\ listing = {d}
  /\ ~ link => /\ kernel = {} /\ fnames = {} /\ events = <<>> /\ batch = <<>> /\ stdout = <<>>
               /\ lines = <<>> /\ listing = {} /\ ~ ready /\ ~ isOpen

KernelInv ==
  /\ \A i \in 1..Len(Coming) : EventShape(Coming[i])
  /\ \A w \in fnames : w = [wd |-> w.wd, fname |-> w.fname]
  /\ WatchesKept(kernel, fnames)
  /\ EventsTrue(kernel, Coming, disk)
  /\ RootKept(kernel, fnames, Coming)

(* The pane as it is: before the first message it is about to forget what  *)
(* it shows.                                                               *)
PaneNow ==
  [items |-> IF isOpen THEN shown ELSE Empty,
   open  |-> IF isOpen THEN openDirs ELSE {},
   prev  |-> IF isOpen THEN prevOpenFolders ELSE IF firstOpen THEN {Public} ELSE openDirs,
   sent  |-> lines \o stdin,
   stray |-> stray]

AgreesAt(q) ==
  Agreed(q.items, q.open, q.prev, q.sent, fnames, kernel, Coming, listing, disk,
         Len(batch), ready, lines)
WillAgree ==
  alive /\ link /\ ~ hasty /\ ~ renamed =>
    \E q : Handles(PaneNow, stdout, q) /\ (~ q.stray => AgreesAt(q))

PaneInv == MonInv /\ QueueOrder /\ KernelInv /\ WillAgree

(* The helper handles its batch before the events still in the kernel.     *)
LEMMA ComingIs ==
  ASSUME MonInv
  PROVE  /\ Len(batch) \in Nat /\ Len(events) \in Nat /\ Len(Coming) = Len(batch) + Len(events)
         /\ Len(Coming) \in Nat
         /\ \A i \in 1..Len(batch) : i \in 1..Len(Coming) /\ Coming[i] = batch[i]
         /\ \A i \in 1..Len(events) : Coming[Len(batch) + i] = events[i]
         /\ batch = <<>> => Coming = events
         /\ events = <<>> => Coming = batch
         /\ \E wds : /\ \A w \in kernel : w.wd \in wds
                     /\ Coming \in Seq(KernelEvents(wds))
                     /\ batch \in Seq(KernelEvents(wds)) /\ events \in Seq(KernelEvents(wds))
  <1>1. PICK wds : /\ \A w \in kernel : w.wd \in wds
                   /\ events \in Seq(KernelEvents(wds)) /\ batch \in Seq(KernelEvents(wds))
    BY DEF MonInv, EventTypes
  <1>2. /\ Len(batch) \in Nat /\ Len(events) \in Nat /\ Coming \in Seq(KernelEvents(wds))
        /\ Len(Coming) = Len(batch) + Len(events)
        /\ \A i \in 1 .. Len(batch) + Len(events) :
             Coming[i] = IF i <= Len(batch) THEN batch[i] ELSE events[i - Len(batch)]
    BY <1>1, ConcatProperties, LenProperties DEF Coming
  <1>3. (batch = <<>> => Coming = events) /\ (events = <<>> => Coming = batch)
    BY <1>1, ConcatEmptySeq DEF Coming
  <1>4. \A i \in 1..Len(batch) : i \in 1..Len(Coming) /\ Coming[i] = batch[i]
    BY <1>2
  <1>5. ASSUME NEW i \in 1..Len(events) PROVE Coming[Len(batch) + i] = events[i]
    <2>1. /\ Len(batch) + i \in 1 .. Len(batch) + Len(events) /\ ~ (Len(batch) + i <= Len(batch))
          /\ (Len(batch) + i) - Len(batch) = i
      BY <1>2
    <2> QED
      BY <1>2, <2>1
  <1> QED
    BY <1>1, <1>2, <1>3, <1>4, <1>5

(* What the pane will have sent, and what else Agreed asks about.          *)
LEMMA ShapesNow ==
  ASSUME MonInv, QueueOrder, KernelInv, NEW q \in PaneStates
  PROVE  Shapes(q.sent, fnames, Coming, listing)
  <1>1. \A d \in listing : d \in Names
    BY DEF MonInv, Watches, QueueOrder, Watched, Names
  <1>2. Len(Coming) \in Nat
    BY ComingIs
  <1>3. \A i \in 1..Len(Coming) :
          \/ Coming[i].mask \in Left /\ Coming[i].name = <<>>
          \/ Coming[i].mask \in Gone \union Came \union {"ATTRIB"} /\ Coming[i].name \in Names /\ Len(Coming[i].name) = 1
    BY DEF KernelInv, EventShape
  <1>4. \A w \in fnames : w.fname \in Names
    BY DEF MonInv, Watches, Names
  <1>5. \A v, w \in fnames : v.wd = w.wd => v = w
    BY DEF KernelInv, WatchesKept
  <1> QED
    BY <1>1, <1>2, <1>3, <1>4, <1>5, StateParts DEF Shapes

LEMMA KernelNames ==
  ASSUME MonInv PROVE \A k \in kernel : k.at \in Names /\ (k.at # Root => k.at \in Paths /\ disk[k.at] = "dir")
  <1>1. \A k \in kernel : IsDir(k.at)
    BY DEF MonInv, Watches
  <1> QED
    BY <1>1, PathsAbove, PathOrder DEF IsDir

-----------------------------------------------------------------------------
(* The kernel's events *)

(* What a followed by b has.                                               *)
Joined(c, a, b) ==
  /\ \A i \in 1..Len(c) : \/ \E j \in 1..Len(a) : c[i] = a[j] /\ i = j
                          \/ \E j \in 1..Len(b) : c[i] = b[j] /\ i = Len(a) + j
  /\ \A j \in 1..Len(a) : \E i \in 1..Len(c) : c[i] = a[j]
  /\ \A j \in 1..Len(b) : \E i \in 1..Len(c) : c[i] = b[j]

LEMMA ConcatHas ==
  ASSUME NEW S, NEW a \in Seq(S), NEW b \in Seq(S)
  PROVE  a \o b \in Seq(S) /\ Joined(a \o b, a, b)
  <1> DEFINE c == a \o b
  <1>1. /\ c \in Seq(S) /\ Len(c) = Len(a) + Len(b) /\ Len(a) \in Nat /\ Len(b) \in Nat
        /\ \A i \in 1 .. Len(a) + Len(b) : c[i] = IF i <= Len(a) THEN a[i] ELSE b[i - Len(a)]
    BY ConcatProperties, LenProperties
  <1> HIDE DEF c
  <1>2. ASSUME NEW i \in 1..Len(c)
        PROVE  \/ \E j \in 1..Len(a) : c[i] = a[j] /\ i = j
               \/ \E j \in 1..Len(b) : c[i] = b[j] /\ i = Len(a) + j
    <2>1. CASE i <= Len(a)
      BY <1>1, <2>1
    <2>2. CASE ~ (i <= Len(a))
      <3>1. i - Len(a) \in 1..Len(b) /\ i = Len(a) + (i - Len(a)) /\ c[i] = b[i - Len(a)]
        BY <1>1, <2>2
      <3> QED
        BY <3>1
    <2> QED
      BY <2>1, <2>2
  <1>3. ASSUME NEW j \in 1..Len(a) PROVE \E i \in 1..Len(c) : c[i] = a[j]
    <2>1. j \in 1..Len(c) /\ c[j] = a[j]
      BY <1>1
    <2> QED
      BY <2>1
  <1>4. ASSUME NEW j \in 1..Len(b) PROVE \E i \in 1..Len(c) : c[i] = b[j]
    <2>1. /\ Len(a) + j \in 1..Len(c) /\ Len(a) + j \in 1 .. Len(a) + Len(b) /\ ~ (Len(a) + j <= Len(a))
          /\ (Len(a) + j) - Len(a) = j
      BY <1>1
    <2>2. c[Len(a) + j] = b[j]
      BY <1>1, <2>1
    <2> QED
      BY <2>1, <2>2
  <1> QED
    BY <1>1, <1>2, <1>3, <1>4 DEF c, Joined

(* An event goes to the watch of the directory, if there is one.           *)
Descriptors(wds) == \A w \in kernel : w.wd \in wds
IsTold(t, wds, d, m, x) ==
  /\ t \in Seq(KernelEvents(wds)) /\ Len(t) \in 0..1
  /\ \A i \in 1..Len(t) : /\ t[i].mask = m /\ t[i].name = x
                          /\ \E k \in kernel : k.at = d /\ k.wd = t[i].wd
  /\ \A k \in kernel : k.at = d => 1 \in 1..Len(t) /\ t[1].wd = k.wd

(* Every watch of a directory is told once what happens in it.             *)
LEMMA TellIs ==
  ASSUME MonInv, KernelInv, NEW wds, Descriptors(wds),
         NEW d, NEW m \in Masks, NEW x \in Seq(STRING), NEW t, t = Tell(d, m, x)
  PROVE  IsTold(t, wds, d, m, x)
  <1> USE DEF Descriptors, IsTold
  <1>1. t \in Seq(KernelEvents(wds))
    BY TellTypes
  <1>2. CASE Watching(d) = {}
    <2>1. t = <<>> /\ Len(t) = 0
      BY <1>2 DEF Tell
    <2>2. \A k \in kernel : k.at # d
      BY <1>2 DEF Watching
    <2> QED
      BY <1>1, <2>1, <2>2
  <1>3. CASE Watching(d) # {}
    <2> DEFINE w == CHOOSE y \in Watching(d) : TRUE
    <2>1. w \in kernel /\ w.at = d
      BY <1>3 DEF Watching
    <2>2. t = <<[wd |-> w.wd, mask |-> m, name |-> x]>>
      BY <1>3 DEF Tell
    <2> HIDE DEF w
    <2>3. Len(t) = 1 /\ t[1].wd = w.wd /\ t[1].mask = m /\ t[1].name = x
      BY <2>2
    <2>4. \A k \in kernel : k.at = d => k = w
      BY <2>1 DEF KernelInv, WatchesKept
    <2> QED
      BY <1>1, <2>1, <2>3, <2>4
  <1> QED
    BY <1>2, <1>3

(* The kernel has told more.                                               *)
LEMMA ComingMore ==
  ASSUME MonInv, KernelInv, NEW wds, NEW t \in Seq(KernelEvents(wds)), \A w \in kernel : w.wd \in wds,
         events' = events \o t, UNCHANGED batch,
         \A i \in 1..Len(t) : EventShape(t[i])
  PROVE  /\ Len(Coming) \in Nat /\ Len(Coming') \in Nat /\ Len(Coming) <= Len(Coming')
         /\ Len(Coming') = Len(Coming) + Len(t) /\ Len(t) \in Nat
         /\ \A i \in 1..Len(Coming) : i \in 1..Len(Coming') /\ Coming'[i] = Coming[i]
         /\ \A i \in 1..Len(Coming') : i > Len(Coming) =>
              \E j \in 1..Len(t) : Coming'[i] = t[j] /\ i = Len(Coming) + j
         /\ \A j \in 1..Len(t) : \E i \in 1..Len(Coming') : i > Len(Coming) /\ Coming'[i] = t[j]
         /\ \A i \in 1..Len(Coming') : EventShape(Coming'[i])
  <1>1. PICK wds1 : /\ \A w \in kernel : w.wd \in wds1
                    /\ batch \in Seq(KernelEvents(wds1)) /\ events \in Seq(KernelEvents(wds1))
    BY DEF MonInv, EventTypes
  <1> DEFINE all == wds \union wds1
             S == KernelEvents(all)
  <1>2. KernelEvents(wds) \subseteq S /\ KernelEvents(wds1) \subseteq S
    BY DEF KernelEvents
  <1> HIDE DEF S
  <1>3. batch \in Seq(S) /\ events \in Seq(S) /\ t \in Seq(S)
    BY <1>1, <1>2, SeqMonotonic
  <1>4. Coming \in Seq(S) /\ Coming' = Coming \o t
    BY <1>3, ConcatAssociative, ConcatProperties DEF Coming
  <1>5. /\ Len(Coming) \in Nat /\ Len(t) \in Nat /\ Len(Coming') = Len(Coming) + Len(t)
        /\ \A i \in 1 .. Len(Coming) + Len(t) : Coming'[i] = IF i <= Len(Coming) THEN Coming[i] ELSE t[i - Len(Coming)]
    BY <1>3, <1>4, ConcatProperties, LenProperties
  <1>6. \A i \in 1..Len(Coming) : i \in 1..Len(Coming') /\ Coming'[i] = Coming[i]
    BY <1>5
  <1>7. ASSUME NEW i \in 1..Len(Coming'), i > Len(Coming)
        PROVE  \E j \in 1..Len(t) : Coming'[i] = t[j] /\ i = Len(Coming) + j
    <2>1. i - Len(Coming) \in 1..Len(t) /\ i = Len(Coming) + (i - Len(Coming)) /\ Coming'[i] = t[i - Len(Coming)]
      BY <1>5, <1>7
    <2> QED
      BY <2>1
  <1>8. ASSUME NEW j \in 1..Len(t) PROVE \E i \in 1..Len(Coming') : i > Len(Coming) /\ Coming'[i] = t[j]
    <2>1. /\ Len(Coming) + j \in 1..Len(Coming') /\ Len(Coming) + j > Len(Coming)
          /\ (Len(Coming) + j) - Len(Coming) = j /\ ~ (Len(Coming) + j <= Len(Coming))
      BY <1>5
    <2>2. Coming'[Len(Coming) + j] = t[j]
      BY <1>5, <2>1
    <2> QED
      BY <2>1, <2>2
  <1>9. ASSUME NEW i \in 1..Len(Coming') PROVE EventShape(Coming'[i])
    <2>1. CASE i \in 1..Len(Coming)
      BY <1>6, <2>1 DEF KernelInv
    <2>2. CASE i > Len(Coming)
      BY <1>7, <2>2
    <2> QED
      BY <1>5, <2>1, <2>2
  <1> QED
    BY <1>5, <1>6, <1>7, <1>8, <1>9

-----------------------------------------------------------------------------
(* The files change: what the kernel tells keeps the agreement. *)

Sends(t, p, M) ==
  \A k \in kernel : k.at = parent(p) =>
    \E j \in 1..Len(t) : t[j].mask \in M /\ t[j].wd = k.wd /\ t[j].name = <<p[Len(p)]>>

(* The kernel tells t while the files P go, with all below them, Q come,   *)
(* and the modes of T change.                                              *)
KernelTells(t, P, Q, T) ==
  /\ \E wds : t \in Seq(KernelEvents(wds)) /\ \A w \in kernel : w.wd \in wds
  /\ events' = events \o t
  /\ \A i \in 1..Len(t) : EventShape(t[i]) /\ \E k \in kernel : k.wd = t[i].wd
  /\ P \subseteq Paths /\ Q \subseteq Paths /\ T \subseteq Paths
  /\ \A p \in P : Sends(t, p, Gone)
  /\ \A q \in Q : disk[q] = "none" /\ Sends(t, q, Came)
  /\ \A x \in T : Sends(t, x, {"ATTRIB"})
  /\ \A x \in Paths : \/ disk'[x] = disk[x]
                      \/ disk'[x] = "none" /\ \E p \in P : IsPrefix(p, x)
                      \/ \E q \in Q : IsPrefix(q, x)
                      \/ x \in T /\ disk[x] \in Plain /\ disk'[x] \in Plain
  /\ \A i \in 1..Len(t) : t[i].mask \in Came =>
       /\ \E k \in kernel : k.wd = t[i].wd /\ At(k, t[i]) \in Paths /\ disk[At(k, t[i])] = "none"
       /\ \A j \in 1..Len(t) : t[j].mask \in Came => i = j
  /\ \A i \in 1..Len(t) : t[i].mask \in Left =>
       \E k \in kernel : k.wd = t[i].wd /\ k.at \in Paths /\ disk'[k.at] = "none"
  /\ \A i \in 1..Len(t) : \A v \in kernel' : v.wd = t[i].wd =>
       /\ t[i].mask \in Gone => ~ There(disk', At(v, t[i]))
       /\ t[i].mask \in Came => There(disk', At(v, t[i]))
  /\ IsFiniteSet(kernel') /\ \A v, w \in kernel' : v.wd = w.wd \/ v.at = w.at => v = w
  /\ \A k \in kernel : \/ k \in kernel'
                       \/ \E p \in P : /\ IsPrefix(p, k.at)
                                       /\ k.at = p => \E i \in 1..Len(t) : t[i].wd = k.wd /\ t[i].mask \in Left
  /\ \A v \in kernel' : \E k \in kernel :
       /\ k.wd = v.wd /\ (k.at = Root <=> v.at = Root)
       /\ \A e : e.name \in Names /\ Len(e.name) = 1 =>
            \/ There(disk', At(v, e)) <=> There(disk, At(k, e))
            \/ At(k, e) \in P /\ ~ There(disk', At(v, e))
            \/ At(k, e) \in Q /\ There(disk', At(v, e))

(* A change that the kernel tells in full keeps what will agree.           *)
LEMMA ChangeKeeps ==
  ASSUME MonInv, QueueOrder, KernelInv, WillAgree, Change, MonInv',
         NEW t, NEW P, NEW Q, NEW T, KernelTells(t, P, Q, T)
  PROVE  QueueOrder' /\ KernelInv' /\ WillAgree'
  <1> USE DEF KernelTells
  <1> PICK wds : t \in Seq(KernelEvents(wds)) /\ \A w \in kernel : w.wd \in wds
    OBVIOUS
  <1>0. /\ UNCHANGED <<batch, fnames, ready, lines, listing, alive, stdin, stdout, link, hasty, renamed, stray>>
        /\ UNCHANGED <<isOpen, firstOpen, prevOpenFolders, shown, openDirs>>
    BY DEF Change, helpervars, panevars
  <1>1. /\ Len(Coming) \in Nat /\ Len(Coming') \in Nat /\ Len(Coming) <= Len(Coming')
        /\ Len(Coming') = Len(Coming) + Len(t) /\ Len(t) \in Nat
        /\ \A i \in 1..Len(Coming) : i \in 1..Len(Coming') /\ Coming'[i] = Coming[i]
        /\ \A i \in 1..Len(Coming') : i > Len(Coming) =>
             \E j \in 1..Len(t) : Coming'[i] = t[j] /\ i = Len(Coming) + j
        /\ \A j \in 1..Len(t) : \E i \in 1..Len(Coming') : i > Len(Coming) /\ Coming'[i] = t[j]
        /\ \A i \in 1..Len(Coming') : EventShape(Coming'[i])
    BY <1>0, ComingMore
  <1>2. ASSUME NEW x, NEW M, Sends(t, x, M) PROVE Told(kernel, Coming', Len(Coming), x, M)
    <2>1. \A j \in 1..Len(t) : \E i \in 1..Len(Coming') : i > Len(Coming) /\ Coming'[i] = t[j]
      BY <1>1
    <2>2. \A k \in kernel : k.at = parent(x) =>
            \E j \in 1..Len(t) : t[j].mask \in M /\ t[j].wd = k.wd /\ t[j].name = <<x[Len(x)]>>
      BY <1>2 DEF Sends
    <2> QED
      BY ONLY <2>1, <2>2 DEF Told
  <1>3. \A k \in kernel : k.at \in Names
    BY KernelNames
  <1>4. \A i \in 1..Len(Coming) : Coming[i].mask \in Gone \union Came => Coming[i].name \in Names /\ Len(Coming[i].name) = 1
    BY DEF KernelInv, EventShape, Gone, Came, Left
  <1>5. Changes(kernel, Coming, disk, P, Q, T, kernel', Coming', disk')
    <2>1. \A i \in 1..Len(Coming') : i > Len(Coming) => \E j \in 1..Len(t) : Coming'[i] = t[j] /\ i = Len(Coming) + j
      BY <1>1
    <2>2. \A v \in kernel' : \E k \in kernel : k.wd = v.wd /\ \A i \in 1..Len(Coming) : Coming[i].mask \in Gone \union Came =>
             \/ There(disk', At(v, Coming[i])) <=> There(disk, At(k, Coming[i]))
             \/ At(k, Coming[i]) \in P /\ ~ There(disk', At(v, Coming[i]))
             \/ At(k, Coming[i]) \in Q /\ There(disk', At(v, Coming[i]))
      BY <1>4
    <2>3. \A i \in 1..Len(Coming') : i > Len(Coming) => \A v \in kernel' : v.wd = Coming'[i].wd =>
             /\ Coming'[i].mask \in Gone => ~ There(disk', At(v, Coming'[i]))
             /\ Coming'[i].mask \in Came => There(disk', At(v, Coming'[i]))
      <3>1. \A i \in 1..Len(t) : \A v \in kernel' : v.wd = t[i].wd =>
              /\ t[i].mask \in Gone => ~ There(disk', At(v, t[i]))
              /\ t[i].mask \in Came => There(disk', At(v, t[i]))
        OBVIOUS
      <3> QED
        BY ONLY <2>1, <3>1
    <2>4. \A i \in 1..Len(Coming') : i > Len(Coming) /\ Coming'[i].mask \in Came =>
             /\ \E k \in kernel : k.wd = Coming'[i].wd /\ At(k, Coming'[i]) \in Paths /\ disk[At(k, Coming'[i])] = "none"
             /\ \A j \in 1..Len(Coming') : j > Len(Coming) /\ Coming'[j].mask \in Came => i = j
      <3> SUFFICES ASSUME NEW i \in 1..Len(Coming'), i > Len(Coming), Coming'[i].mask \in Came
                   PROVE  /\ \E k \in kernel : k.wd = Coming'[i].wd /\ At(k, Coming'[i]) \in Paths /\ disk[At(k, Coming'[i])] = "none"
                          /\ \A j \in 1..Len(Coming') : j > Len(Coming) /\ Coming'[j].mask \in Came => i = j
        OBVIOUS
      <3>1. PICK a \in 1..Len(t) : Coming'[i] = t[a] /\ i = Len(Coming) + a
        BY <2>1
      <3>2. \E k \in kernel : k.wd = t[a].wd /\ At(k, t[a]) \in Paths /\ disk[At(k, t[a])] = "none"
        BY <3>1
      <3>3. ASSUME NEW j \in 1..Len(Coming'), j > Len(Coming), Coming'[j].mask \in Came PROVE i = j
        <4>1. PICK b \in 1..Len(t) : Coming'[j] = t[b] /\ j = Len(Coming) + b
          BY <2>1, <3>3
        <4>2. a = b
          BY <3>1, <3>3, <4>1
        <4> QED
          BY <3>1, <4>1, <4>2
      <3> QED
        BY <3>1, <3>2, <3>3
    <2>5. \A p \in P : Told(kernel, Coming', Len(Coming), p, Gone)
      BY <1>2
    <2>6. \A q \in Q : disk[q] = "none" /\ Told(kernel, Coming', Len(Coming), q, Came)
      BY <1>2
    <2>7. \A x \in T : Told(kernel, Coming', Len(Coming), x, {"ATTRIB"})
      BY <1>2
    <2>8. \A i \in 1..Len(Coming') : i > Len(Coming) /\ Coming'[i].mask \in Left =>
            \E k \in kernel : k.wd = Coming'[i].wd /\ (k.at \in Paths => disk'[k.at] = "none")
      <3>1. \A i \in 1..Len(t) : t[i].mask \in Left =>
              \E k \in kernel : k.wd = t[i].wd /\ k.at \in Paths /\ disk'[k.at] = "none"
        OBVIOUS
      <3> QED
        BY ONLY <2>1, <3>1
    <2>9. \A k \in kernel : \/ k \in kernel'
                            \/ \E p \in P : /\ IsPrefix(p, k.at)
                                            /\ k.at = p => \E i \in 1..Len(Coming') : Coming'[i].wd = k.wd /\ Coming'[i].mask \in Left
      <3> SUFFICES ASSUME NEW k \in kernel, k \notin kernel'
                   PROVE  \E p \in P : /\ IsPrefix(p, k.at)
                                       /\ k.at = p => \E i \in 1..Len(Coming') : Coming'[i].wd = k.wd /\ Coming'[i].mask \in Left
        OBVIOUS
      <3>1. PICK p \in P : IsPrefix(p, k.at) /\ (k.at = p => \E i \in 1..Len(t) : t[i].wd = k.wd /\ t[i].mask \in Left)
        OBVIOUS
      <3>2. \A j \in 1..Len(t) : \E i \in 1..Len(Coming') : Coming'[i] = t[j]
        BY <1>1
      <3> QED
        BY ONLY <3>1, <3>2
    <2>10. \A x \in Paths : \/ disk'[x] = disk[x]
                            \/ disk'[x] = "none" /\ \E p \in P : IsPrefix(p, x)
                            \/ \E y \in Q : IsPrefix(y, x)
                            \/ x \in T /\ disk[x] \in Plain /\ disk'[x] \in Plain
      OBVIOUS
    <2>11. \A k, x \in kernel : k.wd = x.wd => k = x
      BY DEF KernelInv, WatchesKept
    <2>12. P \subseteq Paths /\ Q \subseteq Paths /\ T \subseteq Paths
      OBVIOUS
    <2>13. /\ Len(Coming) \in Nat /\ Len(Coming') \in Nat /\ Len(Coming) <= Len(Coming')
           /\ \A i \in 1..Len(Coming) : Coming'[i] = Coming[i]
      BY <1>1
    <2> DEFINE D == Coming'  G2 == disk'  K2 == kernel'
    <2>14. Changes(kernel, Coming, disk, P, Q, T, K2, D, G2)
      <3> HIDE DEF D, G2, K2
      <3>1. /\ P \subseteq Paths /\ Q \subseteq Paths /\ T \subseteq Paths
            /\ Len(Coming) \in Nat /\ Len(D) \in Nat /\ Len(Coming) <= Len(D)
            /\ \A i \in 1..Len(Coming) : D[i] = Coming[i]
        BY ONLY <2>12, <2>13 DEF D
      <3>2. /\ \A p \in P : Told(kernel, D, Len(Coming), p, Gone)
            /\ \A q \in Q : disk[q] = "none" /\ Told(kernel, D, Len(Coming), q, Came)
            /\ \A x \in T : Told(kernel, D, Len(Coming), x, {"ATTRIB"})
        BY ONLY <2>5, <2>6, <2>7 DEF D
      <3> QED
        BY ONLY <1>3, <1>4, <2>2, <2>3, <2>4, <2>8, <2>9, <2>10, <2>11, <3>1, <3>2, Zenon DEF Changes, D, G2, K2
    <2> QED
      BY <2>14
  <1>12. EventsTrue(kernel', Coming', disk')
    <2>1. EventsTrue(kernel, Coming, disk)
      BY DEF KernelInv
    <2> QED
      BY ONLY <1>5, <2>1, ChangeTrue
  <1>6. WatchesKept(kernel', fnames')
    BY <1>0 DEF KernelInv, WatchesKept
  <1>7. RootKept(kernel', fnames', Coming')
    <2>1. ASSUME NEW w \in fnames, w.fname = Root, NEW v \in kernel', v.wd = w.wd PROVE v.at = Root
      BY <2>1 DEF KernelInv, RootKept
    <2>2. ASSUME NEW i \in 1..Len(Coming), Coming[i].mask \in Left
          PROVE  /\ \A v \in kernel' : v.wd = Coming[i].wd => v.at # Root
                 /\ \A w \in fnames : w.wd = Coming[i].wd => w.fname # Root
      <3>1. RootKept(kernel, fnames, Coming)
        BY DEF KernelInv
      <3>2. \A v \in kernel' : \E k \in kernel : k.wd = v.wd /\ (k.at = Root <=> v.at = Root)
        OBVIOUS
      <3> QED
        BY ONLY <2>2, <3>1, <3>2 DEF RootKept
    <2>3. ASSUME NEW i \in 1..Len(t), t[i].mask \in Left
          PROVE  /\ \A v \in kernel' : v.wd = t[i].wd => v.at # Root
                 /\ \A w \in fnames : w.wd = t[i].wd => w.fname # Root
      <3>1. PICK k \in kernel : k.wd = t[i].wd /\ k.at \in Paths
        BY <2>3
      <3>2. k.at # Root
        BY <3>1, PathsAbove
      <3>3. \A x \in kernel : x.wd = k.wd => x = k
        BY DEF KernelInv, WatchesKept
      <3> QED
        BY <3>1, <3>2, <3>3 DEF KernelInv, RootKept
    <2>4. ASSUME NEW i \in 1..Len(Coming'), Coming'[i].mask \in Left
          PROVE  /\ \A v \in kernel' : v.wd = Coming'[i].wd => v.at # Root
                 /\ \A w \in fnames : w.wd = Coming'[i].wd => w.fname # Root
      <3>1. CASE i > Len(Coming)
        <4>1. PICK j \in 1..Len(t) : Coming'[i] = t[j]
          BY <1>1, <3>1
        <4> QED
          BY ONLY <2>3, <2>4, <4>1
      <3>2. CASE i \in 1..Len(Coming)
        <4>1. Coming'[i] = Coming[i]
          BY <1>1, <3>2
        <4> QED
          BY ONLY <2>2, <2>4, <3>2, <4>1
      <3> QED
        BY <1>1, <3>1, <3>2
    <2> QED
      BY <1>0, <2>1, <2>4 DEF RootKept
  <1>8. KernelInv'
    BY <1>0, <1>1, <1>12, <1>6, <1>7 DEF KernelInv
  <1>9. QueueOrder'
    <2>1. ASSUME ~ link PROVE kernel' = {} /\ events' = <<>>
      <3>1. kernel = {} /\ events = <<>>
        BY <2>1 DEF QueueOrder
      <3>4. \A v \in kernel' : \E k \in kernel : k.wd = v.wd
        OBVIOUS
      <3>5. \A i \in 1..Len(t) : \E k \in kernel : k.wd = t[i].wd
        OBVIOUS
      <3>6. Len(t) \in Nat
        BY <1>1
      <3>7. kernel' = {}
        BY ONLY <3>1, <3>4
      <3>2. kernel' = {} /\ Len(t) = 0
        BY ONLY <3>1, <3>5, <3>6, <3>7
      <3>3. t = <<>>
        BY <3>2, EmptySeq
      <3> QED
        BY <3>1, <3>2, <3>3
    <2> QED
      BY <1>0, <2>1 DEF QueueOrder, Watched
  <1>10. PaneNow' = PaneNow
    BY <1>0 DEF PaneNow
  <1>11. WillAgree'
    <2> SUFFICES ASSUME alive, link, ~ hasty, ~ renamed
                 PROVE  \E q : Handles(PaneNow, stdout, q) /\ (~ q.stray => AgreesAt(q)')
      BY <1>0, <1>10 DEF WillAgree
    <2>1. PICK q : Handles(PaneNow, stdout, q) /\ (~ q.stray => AgreesAt(q))
      BY DEF WillAgree
    <2> SUFFICES ASSUME ~ q.stray PROVE AgreesAt(q)'
      BY <2>1
    <2>2. q \in PaneStates
      BY <2>1, HandlesKeeps DEF MonInv, QueueTypes
    <2>3. Shapes(q.sent, fnames, Coming, listing) /\ Shapes(q.sent, fnames, Coming', listing)
      <3>1. Shapes(q.sent, fnames, Coming, listing)
        BY <2>2, ShapesNow
      <3>2. \A i \in 1..Len(Coming') :
              \/ Coming'[i].mask \in Left /\ Coming'[i].name = <<>>
              \/ Coming'[i].mask \in Gone \union Came \union {"ATTRIB"} /\ Coming'[i].name \in Names /\ Len(Coming'[i].name) = 1
        BY <1>1 DEF EventShape
      <3> QED
        BY <1>1, <3>1, <3>2 DEF Shapes
    <2>4. Agreed(q.items, q.open, q.prev, q.sent, fnames, kernel, Coming, listing, disk,
                 Len(batch), ready, lines)
      BY <2>1 DEF AgreesAt
    <2>5. Agreed(q.items, q.open, q.prev, q.sent, fnames, kernel', Coming', listing, disk',
                 Len(batch), ready, lines)
      BY ONLY <1>5, <2>3, <2>4, ChangeAgrees
    <2> QED
      BY <1>0, <2>5 DEF AgreesAt
  <1> QED
    BY <1>8, <1>9, <1>11

(* What is told of an entry, and of a directory itself.                    *)
LEMMA EntryTold ==
  ASSUME MonInv, KernelInv, NEW wds, \A w \in kernel : w.wd \in wds,
         NEW p \in Paths, NEW m \in Masks, NEW t, t = TellParent(p, m)
  PROVE  /\ t \in Seq(KernelEvents(wds))
         /\ \A i \in 1..Len(t) :
              /\ t[i].mask = m /\ t[i].name \in Names /\ Len(t[i].name) = 1
              /\ \E k \in kernel : k.wd = t[i].wd
              /\ \A k \in kernel : k.wd = t[i].wd => k.at = parent(p) /\ At(k, t[i]) = p
         /\ \A i, j \in 1..Len(t) : i = j
         /\ \A M : m \in M => Sends(t, p, M)
  <1> DEFINE d == parent(p)  x == <<p[Len(p)]>>
  <1>1. x \in Names /\ Len(x) = 1 /\ d \o x = p /\ x \in Seq(STRING)
    BY LastName DEF Names
  <1>2. t = Tell(d, m, x)
    BY DEF TellParent
  <1> HIDE DEF d, x
  <1>3. /\ t \in Seq(KernelEvents(wds)) /\ Len(t) \in 0..1
        /\ \A i \in 1..Len(t) : /\ t[i].mask = m /\ t[i].name = x
                                /\ \E k \in kernel : k.at = d /\ k.wd = t[i].wd
        /\ \A k \in kernel : k.at = d => 1 \in 1..Len(t) /\ t[1].wd = k.wd
    <2>1. MonInv /\ KernelInv /\ Descriptors(wds) /\ m \in Masks
      BY DEF Descriptors
    <2>2. IsTold(t, wds, d, m, x)
      BY ONLY <1>1, <1>2, <2>1, TellIs
    <2> QED
      BY ONLY <2>2 DEF IsTold
  <1>4. ASSUME NEW i \in 1..Len(t), NEW k \in kernel, k.wd = t[i].wd PROVE k.at = d /\ At(k, t[i]) = p
    <2>1. PICK w \in kernel : w.at = d /\ w.wd = t[i].wd
      BY <1>3
    <2>2. w = k
      BY <1>4, <2>1 DEF KernelInv, WatchesKept
    <2> QED
      BY <1>1, <1>3, <2>1, <2>2 DEF At
  <1>5. ASSUME NEW M, m \in M PROVE Sends(t, p, M)
    BY <1>3, <1>5 DEF Sends, d, x
  <1> QED
    BY <1>1, <1>3, <1>4, <1>5 DEF d

LEMMA SelfTold ==
  ASSUME MonInv, KernelInv, NEW wds, \A w \in kernel : w.wd \in wds,
         NEW p \in Paths, NEW m \in Masks, NEW t, t = Tell(p, m, <<>>)
  PROVE  /\ t \in Seq(KernelEvents(wds))
         /\ \A i \in 1..Len(t) : /\ t[i].mask = m /\ t[i].name = <<>>
                                 /\ \E k \in kernel : k.wd = t[i].wd /\ k.at = p
         /\ \A k \in kernel : k.at = p => \E i \in 1..Len(t) : t[i].wd = k.wd
  <1>1. <<>> \in Seq(STRING)
    BY EmptySeq
  <1> QED
    <2>1. MonInv /\ KernelInv /\ Descriptors(wds) /\ m \in Masks
      BY DEF Descriptors
    <2>2. IsTold(t, wds, p, m, <<>>)
      BY ONLY <1>1, <2>1, t = Tell(p, m, <<>>), TellIs
    <2> QED
      BY ONLY <2>2 DEF IsTold

(* What one of two sequences of events tells, both together tell.          *)
LEMMA SendsMore ==
  ASSUME NEW S, NEW a \in Seq(S), NEW b \in Seq(S), NEW p, NEW M, Sends(a, p, M) \/ Sends(b, p, M)
  PROVE  Sends(a \o b, p, M)
  <1> DEFINE c == a \o b
  <1>1. Joined(c, a, b)
    BY ConcatHas
  <1> HIDE DEF c
  <1>2. ASSUME Sends(a, p, M) PROVE Sends(c, p, M)
    <2>1. \A j \in 1..Len(a) : \E i \in 1..Len(c) : c[i] = a[j]
      BY <1>1 DEF Joined
    <2> DEFINE x == <<p[Len(p)]>>
    <2>2. \A k \in kernel : k.at = parent(p) =>
            \E j \in 1..Len(a) : a[j].mask \in M /\ a[j].wd = k.wd /\ a[j].name = x
      BY <1>2 DEF Sends
    <2>3. Sends(c, p, M) <=>
            \A k \in kernel : k.at = parent(p) =>
              \E j \in 1..Len(c) : c[j].mask \in M /\ c[j].wd = k.wd /\ c[j].name = x
      BY DEF Sends
    <2> HIDE DEF x
    <2> SUFFICES ASSUME NEW k \in kernel, k.at = parent(p)
                 PROVE  \E j \in 1..Len(c) : c[j].mask \in M /\ c[j].wd = k.wd /\ c[j].name = x
      BY <2>3
    <2>4. PICK j \in 1..Len(a) : a[j].mask \in M /\ a[j].wd = k.wd /\ a[j].name = x
      BY <2>2
    <2>5. PICK i \in 1..Len(c) : c[i] = a[j]
      BY <2>1
    <2> QED
      BY ONLY <2>4, <2>5
  <1>3. ASSUME Sends(b, p, M) PROVE Sends(c, p, M)
    <2>1. \A j \in 1..Len(b) : \E i \in 1..Len(c) : c[i] = b[j]
      BY <1>1 DEF Joined
    <2> DEFINE x == <<p[Len(p)]>>
    <2>2. \A k \in kernel : k.at = parent(p) =>
            \E j \in 1..Len(b) : b[j].mask \in M /\ b[j].wd = k.wd /\ b[j].name = x
      BY <1>3 DEF Sends
    <2>3. Sends(c, p, M) <=>
            \A k \in kernel : k.at = parent(p) =>
              \E j \in 1..Len(c) : c[j].mask \in M /\ c[j].wd = k.wd /\ c[j].name = x
      BY DEF Sends
    <2> HIDE DEF x
    <2> SUFFICES ASSUME NEW k \in kernel, k.at = parent(p)
                 PROVE  \E j \in 1..Len(c) : c[j].mask \in M /\ c[j].wd = k.wd /\ c[j].name = x
      BY <2>3
    <2>4. PICK j \in 1..Len(b) : b[j].mask \in M /\ b[j].wd = k.wd /\ b[j].name = x
      BY <2>2
    <2>5. PICK i \in 1..Len(c) : c[i] = b[j]
      BY <2>1
    <2> QED
      BY ONLY <2>4, <2>5
  <1> QED
    BY <1>2, <1>3 DEF c

LEMMA KernelIs ==
  ASSUME MonInv, KernelInv
  PROVE  /\ IsFiniteSet(kernel)
         /\ \A v, w \in kernel : v.wd = w.wd \/ v.at = w.at => v = w
         /\ \E wds : \A w \in kernel : w.wd \in wds
  BY DEF KernelInv, WatchesKept, MonInv, EventTypes

LEMMA CreateKeepsAgreed ==
  ASSUME PaneInv, NEW p \in Paths, NEW k \in {"dir", "file"}, Create(p, k) PROVE PaneInv'
  <1> USE DEF PaneInv
  <1>1. MonInv' /\ Change
    BY CreateKeepsPane DEF Create
  <1>2. PICK wds : \A w \in kernel : w.wd \in wds
    BY KernelIs
  <1> DEFINE t == TellParent(p, "CREATE")
  <1>3. /\ t \in Seq(KernelEvents(wds))
        /\ \A i \in 1..Len(t) :
             /\ t[i].mask = "CREATE" /\ t[i].name \in Names /\ Len(t[i].name) = 1
             /\ \E w \in kernel : w.wd = t[i].wd
             /\ \A w \in kernel : w.wd = t[i].wd => w.at = parent(p) /\ At(w, t[i]) = p
        /\ \A i, j \in 1..Len(t) : i = j
        /\ \A M : "CREATE" \in M => Sends(t, p, M)
    BY <1>2, EntryTold DEF Masks
  <1>4. /\ disk[p] = "none" /\ events' = events \o t /\ kernel' = kernel
        /\ disk' = [disk EXCEPT ![p] = k] /\ k # "none"
    BY DEF Create
  <1> HIDE DEF t
  <1>5. disk'[p] = k /\ (\A x \in Paths : x # p => disk'[x] = disk[x]) /\ There(disk', p)
    BY <1>4 DEF MonInv, DiskTree, There
  <1>6. IsPrefix(p, p)
    BY PathsAbove, PathOrder
  <1>7. KernelTells(t, {}, {p}, {})
    <2>1. \A i \in 1..Len(t) : EventShape(t[i]) /\ t[i].mask \in Came /\ t[i].mask \notin Gone \union Left
      BY <1>3 DEF EventShape, Came, Gone, Left
    <2>2. Sends(t, p, Came)
      BY <1>3 DEF Came
    <2>3. \A i \in 1..Len(t) : \E w \in kernel : w.wd = t[i].wd /\ At(w, t[i]) \in Paths /\ disk[At(w, t[i])] = "none"
      BY <1>3, <1>4
    <2>4. \A i \in 1..Len(t) : \A v \in kernel' : v.wd = t[i].wd => There(disk', At(v, t[i]))
      BY <1>3, <1>4, <1>5
    <2>5. IsFiniteSet(kernel') /\ \A v, w \in kernel' : v.wd = w.wd \/ v.at = w.at => v = w
      BY <1>4, KernelIs
    <2>6. \A y : y # p => (There(disk', y) <=> There(disk, y))
      BY <1>5 DEF There
    <2> QED
      BY <1>2, <1>3, <1>4, <1>5, <1>6, <2>1, <2>2, <2>3, <2>4, <2>5, <2>6 DEF KernelTells
  <1> QED
    BY <1>1, <1>7, ChangeKeeps

LEMMA ChmodKeepsAgreed ==
  ASSUME PaneInv, NEW p \in Paths, Chmod(p) PROVE PaneInv'
  <1> USE DEF PaneInv
  <1>1. MonInv' /\ Change
    BY ChmodKeepsPane DEF Chmod
  <1>2. PICK wds : \A w \in kernel : w.wd \in wds
    BY KernelIs
  <1> DEFINE t == TellParent(p, "ATTRIB")
  <1>3. /\ t \in Seq(KernelEvents(wds))
        /\ \A i \in 1..Len(t) :
             /\ t[i].mask = "ATTRIB" /\ t[i].name \in Names /\ Len(t[i].name) = 1
             /\ \E w \in kernel : w.wd = t[i].wd
             /\ \A w \in kernel : w.wd = t[i].wd => w.at = parent(p) /\ At(w, t[i]) = p
        /\ \A M : "ATTRIB" \in M => Sends(t, p, M)
    BY <1>2, EntryTold DEF Masks
  <1>4. /\ disk[p] \in Plain /\ events' = events \o t /\ kernel' = kernel
        /\ disk' = [disk EXCEPT ![p] = IF @ = "file" THEN "exec" ELSE "file"]
    BY DEF Chmod, Plain
  <1> HIDE DEF t
  <1>5. disk'[p] \in Plain /\ (\A x \in Paths : x # p => disk'[x] = disk[x])
    BY <1>4 DEF MonInv, DiskTree, Plain
  <1>7. KernelTells(t, {}, {}, {p})
    <2>1. \A i \in 1..Len(t) : EventShape(t[i]) /\ t[i].mask \notin Gone \union Left \union Came
      BY <1>3 DEF EventShape, Came, Gone, Left
    <2>2. Sends(t, p, {"ATTRIB"})
      BY <1>3
    <2>5. IsFiniteSet(kernel') /\ \A v, w \in kernel' : v.wd = w.wd \/ v.at = w.at => v = w
      BY <1>4, KernelIs
    <2>6. \A y : There(disk', y) <=> There(disk, y)
      BY <1>4, <1>5 DEF There, Plain
    <2> QED
      BY <1>2, <1>3, <1>4, <1>5, <2>1, <2>2, <2>5, <2>6 DEF KernelTells
  <1> QED
    BY <1>1, <1>7, ChangeKeeps

LEMMA DeleteKeepsAgreed ==
  ASSUME PaneInv, NEW p \in Paths, Delete(p) PROVE PaneInv'
  <1> USE DEF PaneInv
  <1>1. MonInv' /\ Change
    BY DeleteKeepsPane DEF Delete
  <1>2. PICK wds : (\A w \in kernel : w.wd \in wds) /\ events \in Seq(KernelEvents(wds))
    BY DEF MonInv, EventTypes
  <1> DEFINE a == Tell(p, "DELETE_SELF", <<>>)
             b == TellParent(p, "DELETE")
             t == a \o b
  <1>3. /\ a \in Seq(KernelEvents(wds))
        /\ \A i \in 1..Len(a) : /\ a[i].mask = "DELETE_SELF" /\ a[i].name = <<>>
                                /\ \E w \in kernel : w.wd = a[i].wd /\ w.at = p
        /\ \A w \in kernel : w.at = p => \E i \in 1..Len(a) : a[i].wd = w.wd
    BY <1>2, SelfTold DEF Masks
  <1>4. /\ b \in Seq(KernelEvents(wds))
        /\ \A i \in 1..Len(b) :
             /\ b[i].mask = "DELETE" /\ b[i].name \in Names /\ Len(b[i].name) = 1
             /\ \E w \in kernel : w.wd = b[i].wd
             /\ \A w \in kernel : w.wd = b[i].wd => w.at = parent(p) /\ At(w, b[i]) = p
        /\ \A M : "DELETE" \in M => Sends(b, p, M)
    BY <1>2, EntryTold DEF Masks
  <1>5. events' = (events \o a) \o b /\ kernel' = kernel \ Watching(p) /\ disk' = [disk EXCEPT ![p] = "none"]
    BY DEF Delete
  <1> HIDE DEF a, b
  <1>6. events' = events \o t
    BY <1>2, <1>3, <1>4, <1>5, ConcatAssociative
  <1>7. /\ t \in Seq(KernelEvents(wds))
        /\ \A i \in 1..Len(t) : (\E j \in 1..Len(a) : t[i] = a[j]) \/ (\E j \in 1..Len(b) : t[i] = b[j])
        /\ \A j \in 1..Len(a) : \E i \in 1..Len(t) : t[i] = a[j]
    <2>1. t \in Seq(KernelEvents(wds)) /\ Joined(t, a, b)
      BY <1>3, <1>4, ConcatHas
    <2> HIDE DEF t
    <2> QED
      BY <2>1 DEF Joined
  <1>8. Sends(t, p, Gone)
    BY <1>3, <1>4, SendsMore DEF Gone
  <1> HIDE DEF t
  <1>9. disk'[p] = "none" /\ (\A x \in Paths : x # p => disk'[x] = disk[x]) /\ ~ There(disk', p)
    BY <1>5 DEF MonInv, DiskTree, There
  <1>10. IsPrefix(p, p)
    BY PathsAbove, PathOrder
  <1>11. KernelTells(t, {p}, {}, {})
    <2>1. ASSUME NEW i \in 1..Len(t)
          PROVE  /\ EventShape(t[i]) /\ t[i].mask \notin Came /\ \E w \in kernel : w.wd = t[i].wd
                 /\ t[i].mask \in Left => \E w \in kernel : w.wd = t[i].wd /\ w.at \in Paths /\ disk'[w.at] = "none"
                 /\ t[i].mask \in Gone => \A w \in kernel : w.wd = t[i].wd => At(w, t[i]) = p
      <3>1. CASE \E j \in 1..Len(a) : t[i] = a[j]
        BY <1>3, <1>9, <3>1 DEF EventShape, Came, Gone, Left
      <3>2. CASE \E j \in 1..Len(b) : t[i] = b[j]
        BY <1>4, <3>2 DEF EventShape, Came, Gone, Left
      <3> QED
        BY <1>7, <3>1, <3>2
    <2>2. kernel' \subseteq kernel /\ \A w \in kernel : w \in kernel' \/ w.at = p
      BY <1>5 DEF Watching
    <2>3. IsFiniteSet(kernel') /\ \A v, w \in kernel' : v.wd = w.wd \/ v.at = w.at => v = w
      BY <2>2, KernelIs, FS_Subset
    <2>4. \A y : y # p => (There(disk', y) <=> There(disk, y))
      BY <1>9 DEF There
    <2>5. ASSUME NEW w \in kernel, w \notin kernel'
          PROVE  w.at = p /\ \E i \in 1..Len(t) : t[i].wd = w.wd /\ t[i].mask \in Left
      <3>1. w.at = p
        BY <2>2, <2>5
      <3>2. PICK j \in 1..Len(a) : a[j].wd = w.wd
        BY <1>3, <3>1
      <3>3. PICK i \in 1..Len(t) : t[i] = a[j]
        BY <1>7
      <3> QED
        BY <1>3, <3>1, <3>2, <3>3 DEF Left
    <2>6. \A i \in 1..Len(t) : \A v \in kernel' : v.wd = t[i].wd =>
            (t[i].mask \in Gone => ~ There(disk', At(v, t[i])))
      BY <1>9, <2>1, <2>2
    <2>7. \A v \in kernel' : \A e : \/ There(disk', At(v, e)) <=> There(disk, At(v, e))
                                    \/ At(v, e) \in {p} /\ ~ There(disk', At(v, e))
      BY <1>9, <2>4
    <2>8. \A x \in Paths : disk'[x] = disk[x] \/ (disk'[x] = "none" /\ \E y \in {p} : IsPrefix(y, x))
      BY <1>9, <1>10
    <2> QED
      BY <1>2, <1>6, <1>7, <1>8, <1>10, <2>1, <2>2, <2>3, <2>5, <2>6, <2>7, <2>8 DEF KernelTells
  <1> QED
    BY <1>1, <1>11, ChangeKeeps

(* An entry of a directory that is moved is moved with it.                 *)
LEMMA MovedMore ==
  ASSUME NEW p \in Names, NEW q \in Names, NEW d \in Names, IsPrefix(p, d), NEW x \in Names, Len(x) = 1
  PROVE  Moved(p, q, d) \o x = Moved(p, q, d \o x) /\ IsPrefix(p, d \o x)
  <1> USE DEF Names
  <1> DEFINE m == Moved(p, q, d)
             y == d \o x
             n == Moved(p, q, y)
             z == m \o x
  <1>1. /\ m \in Seq(STRING) /\ Len(m) = Len(q) + (Len(d) - Len(p))
        /\ \A i \in 1..Len(q) : m[i] = q[i]
        /\ \A i \in 1 .. Len(d) - Len(p) : m[Len(q) + i] = d[Len(p) + i]
        /\ Len(p) \in Nat /\ Len(q) \in Nat /\ Len(d) - Len(p) \in Nat
    BY MovedIs
  <1>2. /\ y \in Seq(STRING) /\ Len(y) = Len(d) + 1 /\ Len(d) \in Nat
        /\ \A i \in 1 .. Len(d) + 1 : y[i] = IF i <= Len(d) THEN d[i] ELSE x[i - Len(d)]
    <2>1. /\ d \o x \in Seq(STRING) /\ Len(d \o x) = Len(d) + Len(x)
          /\ \A i \in 1 .. Len(d) + Len(x) : (d \o x)[i] = IF i <= Len(d) THEN d[i] ELSE x[i - Len(d)]
      BY ConcatProperties
    <2> QED
      BY <2>1, LenProperties
  <1> HIDE DEF m
  <1>3. /\ z \in Seq(STRING) /\ Len(z) = Len(m) + 1 /\ Len(m) \in Nat
        /\ \A i \in 1 .. Len(m) + 1 : z[i] = IF i <= Len(m) THEN m[i] ELSE x[i - Len(m)]
    <2>0. m \in Seq(STRING) /\ x \in Seq(STRING)
      BY <1>1
    <2>1. /\ m \o x \in Seq(STRING) /\ Len(m \o x) = Len(m) + Len(x)
          /\ \A i \in 1 .. Len(m) + Len(x) : (m \o x)[i] = IF i <= Len(m) THEN m[i] ELSE x[i - Len(m)]
      BY ONLY <2>0, ConcatProperties
    <2> QED
      BY <2>0, <2>1, LenProperties
  <1> HIDE DEF y
  <1>4. IsPrefix(p, y)
    <2>1. Len(p) <= Len(y) /\ \A i \in 1..Len(p) : i \in 1..Len(d) /\ y[i] = d[i]
      BY <1>1, <1>2
    <2>2. \A i \in 1..Len(p) : p[i] = d[i]
      BY PrefixIs
    <2> QED
      BY <1>2, <2>1, <2>2, PrefixIs
  <1>5. /\ n \in Seq(STRING) /\ Len(n) = Len(q) + (Len(y) - Len(p))
        /\ \A i \in 1..Len(q) : n[i] = q[i]
        /\ \A i \in 1 .. Len(y) - Len(p) : n[Len(q) + i] = y[Len(p) + i]
        /\ Len(p) \in Nat /\ Len(q) \in Nat /\ Len(y) - Len(p) \in Nat
    <2>1. p \in Seq(STRING) /\ q \in Seq(STRING) /\ y \in Seq(STRING)
      BY <1>2
    <2> QED
      BY ONLY <1>4, <2>1, MovedIs
  <1> HIDE DEF n, z
  <1>6. Len(n) = Len(z)
    BY <1>1, <1>2, <1>3, <1>5
  <1>7. ASSUME NEW i \in 1..Len(n) PROVE n[i] = z[i]
    <2>1. CASE i \in 1..Len(q)
      <3>1. i <= Len(m) /\ i \in 1 .. Len(m) + 1
        BY <1>1, <2>1
      <3> QED
        BY <1>1, <1>3, <1>5, <2>1, <3>1
    <2>2. CASE i > Len(q) /\ i <= Len(m)
      <3>1. PICK j \in 1 .. Len(d) - Len(p) : i = Len(q) + j
        <4>1. i - Len(q) \in 1 .. Len(d) - Len(p) /\ i = Len(q) + (i - Len(q))
          BY <1>1, <2>2
        <4> QED
          BY <4>1
      <3>2. j \in 1 .. Len(y) - Len(p) /\ Len(p) + j \in 1 .. Len(d) + 1 /\ Len(p) + j <= Len(d)
        BY <1>1, <1>2
      <3>3. n[i] = y[Len(p) + j] /\ y[Len(p) + j] = d[Len(p) + j]
        BY <1>2, <1>5, <3>1, <3>2
      <3>4. m[i] = d[Len(p) + j]
        BY <1>1, <3>1
      <3>5. z[i] = m[i]
        BY <1>3, <2>2
      <3> QED
        BY <3>3, <3>4, <3>5
    <2>3. CASE i > Len(m)
      <3>1. i = Len(m) + 1 /\ ~ (i <= Len(m)) /\ i - Len(m) = 1
        BY <1>3, <1>6, <2>3
      <3>2. z[i] = x[1]
        BY <1>3, <3>1
      <3>3. /\ Len(y) - Len(p) \in 1 .. Len(y) - Len(p) /\ i = Len(q) + (Len(y) - Len(p))
            /\ Len(p) + (Len(y) - Len(p)) = Len(d) + 1
        BY <1>1, <1>2, <3>1
      <3>4. n[i] = y[Len(d) + 1]
        BY <1>5, <3>3
      <3>5. Len(d) + 1 \in 1 .. Len(d) + 1 /\ ~ (Len(d) + 1 <= Len(d)) /\ (Len(d) + 1) - Len(d) = 1
        BY <1>2
      <3>6. y[Len(d) + 1] = x[1]
        BY <1>2, <3>5
      <3> QED
        BY <3>2, <3>4, <3>6
    <2> QED
      BY <1>1, <1>3, <1>5, <2>1, <2>2, <2>3
  <1>8. n = z
    BY <1>3, <1>5, <1>6, <1>7, SeqEqual
  <1> QED
    BY <1>4, <1>8 DEF m, n, z, y

(* What moves arrives itself under its new name.                           *)
LEMMA MovedSelf ==
  ASSUME NEW p \in Names, NEW q \in Names PROVE Moved(p, q, p) = q
  <1> USE DEF Names
  <1> DEFINE m == Moved(p, q, p)
  <1>1. /\ m \in Seq(STRING) /\ Len(m) = Len(q) + (Len(p) - Len(p))
        /\ \A i \in 1..Len(q) : m[i] = q[i]
        /\ Len(p) \in Nat /\ Len(q) \in Nat
    <2>1. IsPrefix(p, p) /\ p \in Seq(STRING) /\ q \in Seq(STRING)
      BY PrefixOrder
    <2> QED
      BY ONLY <2>1, MovedIs
  <1> HIDE DEF m
  <1>2. Len(m) = Len(q)
    BY <1>1
  <1>3. m = q
    BY <1>1, <1>2, SeqEqual
  <1> QED
    BY <1>3 DEF m

(* Where a watch is after a move, and what is there.                       *)
LEMMA MoveIs ==
  ASSUME MonInv, NEW p \in Paths, NEW q \in Paths, Move(p, q)
  PROVE  /\ \A y \in Names : There(disk, y) => ~ IsPrefix(q, y)
         /\ \A y \in Names : IsPrefix(p, y) => /\ Moved(p, q, y) \in Names /\ IsPrefix(q, Moved(p, q, y))
                                               /\ Moved(q, p, Moved(p, q, y)) = y
                                               /\ There(disk', Moved(p, q, y)) <=> There(disk, y)
         /\ \A y \in Names : ~ IsPrefix(p, y) /\ ~ IsPrefix(q, y) => (There(disk', y) <=> There(disk, y))
         /\ ~ There(disk', p) /\ There(disk', q)
  <1>1. p \in Names /\ q \in Names /\ p # Root /\ q # Root /\ DiskTree
    BY PathsAbove DEF MonInv
  <1>2. /\ disk[p] # "none" /\ disk[q] = "none" /\ ~ IsPrefix(p, q)
        /\ \A x \in Paths : IsPrefix(p, x) /\ disk[x] # "none" => Moved(p, q, x) \in Paths
        /\ \A x \in Paths : disk'[x] =
             IF IsPrefix(p, x) THEN "none"
             ELSE IF IsPrefix(q, x) /\ Moved(q, p, x) \in Paths THEN disk[Moved(q, p, x)] ELSE disk[x]
    BY DEF Move, Under
  <1>3. ASSUME NEW y \in Names, There(disk, y) PROVE ~ IsPrefix(q, y)
    BY <1>1, <1>2, <1>3, NothingBelow DEF There
  <1>4. ~ IsPrefix(q, p)
    BY <1>1, <1>2, <1>3 DEF There
  <1>5. ASSUME NEW y \in Names, IsPrefix(p, y)
        PROVE  /\ Moved(p, q, y) \in Names /\ IsPrefix(q, Moved(p, q, y)) /\ Moved(q, p, Moved(p, q, y)) = y
               /\ There(disk', Moved(p, q, y)) <=> There(disk, y)
    <2> DEFINE z == Moved(p, q, y)
    <2>1. z \in Names
      BY <1>1, <1>5, MovedIs DEF Names
    <2>2. IsPrefix(q, z) /\ Moved(q, p, z) = y
      BY <1>1, <1>5, MovedBack DEF Names
    <2>3. There(disk, y) => z \in Paths
      BY <1>2, <1>5 DEF There
    <2> HIDE DEF z
    <2>4. ~ IsPrefix(p, z)
      BY <1>1, <1>2, <1>4, <2>1, <2>2, PathOrder
    <2>5. CASE y \in Paths
      <3>1. z \in Paths => disk'[z] = disk[y]
        BY <1>2, <2>2, <2>4, <2>5
      <3> QED
        BY <2>1, <2>2, <2>3, <2>5, <3>1 DEF There, z
    <2>6. CASE y \notin Paths
      <3>1. z \in Paths => disk'[z] = disk[z]
        BY <1>2, <2>2, <2>4, <2>6
      <3>2. ~ There(disk, z)
        BY <1>3, <2>1, <2>2
      <3>3. ~ There(disk', z) /\ ~ There(disk, y)
        BY <2>6, <3>1, <3>2 DEF There
      <3> QED
        BY <2>1, <2>2, <3>3 DEF z
    <2> QED
      BY <2>5, <2>6
  <1>6. ASSUME NEW y \in Names, ~ IsPrefix(p, y), ~ IsPrefix(q, y) PROVE There(disk', y) <=> There(disk, y)
    BY <1>2, <1>6 DEF There
  <1>7. ~ There(disk', p)
    BY <1>1, <1>2, PathOrder DEF There
  <1>8. There(disk', q)
    <2>1. Moved(p, q, p) = q /\ IsPrefix(p, p) /\ There(disk, p)
      BY <1>1, <1>2, MovedSelf, PathOrder DEF There
    <2> QED
      BY <1>1, <1>5, <2>1
  <1> QED
    BY <1>3, <1>5, <1>6, <1>7, <1>8

(* The image of a finite set is finite.                                    *)
LEMMA FiniteImage ==
  ASSUME NEW S, IsFiniteSet(S), NEW f, NEW T, T = {f[x] : x \in S}
  PROVE  IsFiniteSet(T) /\ Cardinality(T) <= Cardinality(S)
  <1> DEFINE g == [x \in S |-> f[x]]
  <1>1. g \in [S -> T] /\ \A t \in T : \E x \in S : g[x] = t
    OBVIOUS
  <1> HIDE DEF g
  <1>2. g \in Surjection(S, T)
    BY <1>1 DEF Surjection
  <1> QED
    BY <1>2, FS_Surjection

LEMMA MoveKeepsAgreed ==
  ASSUME PaneInv, NEW p \in Paths, NEW q \in Paths, Move(p, q) PROVE PaneInv'
  <1> USE DEF PaneInv
  <1>1. MonInv' /\ Change
    BY MoveKeepsPane DEF Move
  <1>2. PICK wds : (\A w \in kernel : w.wd \in wds) /\ events \in Seq(KernelEvents(wds))
    BY DEF MonInv, EventTypes
  <1> DEFINE a == TellParent(p, "MOVED_FROM")
             b == TellParent(q, "MOVED_TO")
             c == Tell(p, "MOVE_SELF", <<>>)
             ab == a \o b
             t == ab \o c
             relocated(w) == IF IsPrefix(p, w.at) THEN [w EXCEPT !.at = Moved(p, q, w.at)] ELSE w
  <1>3. /\ a \in Seq(KernelEvents(wds))
        /\ \A i \in 1..Len(a) :
             /\ a[i].mask = "MOVED_FROM" /\ a[i].name \in Names /\ Len(a[i].name) = 1
             /\ \E w \in kernel : w.wd = a[i].wd
             /\ \A w \in kernel : w.wd = a[i].wd => w.at = parent(p) /\ At(w, a[i]) = p
        /\ \A M : "MOVED_FROM" \in M => Sends(a, p, M)
    BY <1>2, EntryTold DEF Masks
  <1>4. /\ b \in Seq(KernelEvents(wds))
        /\ \A i \in 1..Len(b) :
             /\ b[i].mask = "MOVED_TO" /\ b[i].name \in Names /\ Len(b[i].name) = 1
             /\ \E w \in kernel : w.wd = b[i].wd
             /\ \A w \in kernel : w.wd = b[i].wd => w.at = parent(q) /\ At(w, b[i]) = q
        /\ \A i, j \in 1..Len(b) : i = j
        /\ \A M : "MOVED_TO" \in M => Sends(b, q, M)
    BY <1>2, EntryTold DEF Masks
  <1>5. /\ c \in Seq(KernelEvents(wds))
        /\ \A i \in 1..Len(c) : /\ c[i].mask = "MOVE_SELF" /\ c[i].name = <<>>
                                /\ \E w \in kernel : w.wd = c[i].wd /\ w.at = p
        /\ \A w \in kernel : w.at = p => \E i \in 1..Len(c) : c[i].wd = w.wd
    <2>1. c = Tell(p, "MOVE_SELF", <<>>) /\ "MOVE_SELF" \in Masks /\ MonInv /\ KernelInv
      BY DEF Masks
    <2>2. \A w \in kernel : w.wd \in wds
      BY <1>2
    <2> HIDE DEF a, b, c, ab, t, relocated
    <2> QED
      BY ONLY <2>1, <2>2, p \in Paths, SelfTold
  <1>6. /\ events' = ((events \o a) \o b) \o c /\ kernel' = {relocated(w) : w \in kernel}
        /\ disk[p] # "none" /\ disk[q] = "none" /\ ~ IsPrefix(p, q)
    BY DEF Move
  <1>7. ASSUME NEW w \in kernel
        PROVE  /\ relocated(w).wd = w.wd
               /\ relocated(w).at = IF IsPrefix(p, w.at) THEN Moved(p, q, w.at) ELSE w.at
               /\ ~ IsPrefix(p, w.at) => relocated(w) = w
    <2>1. w = [wd |-> w.wd, at |-> w.at]
      BY DEF MonInv, Watches
    <2> QED
      BY <2>1
  <1>8. /\ \A y \in Names : There(disk, y) => ~ IsPrefix(q, y)
        /\ \A y \in Names : IsPrefix(p, y) => /\ Moved(p, q, y) \in Names /\ IsPrefix(q, Moved(p, q, y))
                                              /\ Moved(q, p, Moved(p, q, y)) = y
                                              /\ There(disk', Moved(p, q, y)) <=> There(disk, y)
        /\ \A y \in Names : ~ IsPrefix(p, y) /\ ~ IsPrefix(q, y) => (There(disk', y) <=> There(disk, y))
        /\ ~ There(disk', p) /\ There(disk', q)
    BY MoveIs
  <1>9. \A x \in Paths : \/ disk'[x] = disk[x]
                         \/ (disk'[x] = "none" /\ IsPrefix(p, x))
                         \/ IsPrefix(q, x)
    BY DEF Move
  <1> HIDE DEF a, b, c
  <1>10. ab \in Seq(KernelEvents(wds)) /\ Joined(ab, a, b)
    BY <1>3, <1>4, ConcatHas
  <1>11. t \in Seq(KernelEvents(wds)) /\ Joined(t, ab, c)
    BY <1>5, <1>10, ConcatHas
  <1>12. Sends(t, p, Gone) /\ Sends(t, q, Came)
    <2>1. Sends(ab, p, Gone) /\ Sends(ab, q, Came)
      BY <1>3, <1>4, SendsMore DEF Gone, Came
    <2> HIDE DEF ab
    <2> QED
      BY <1>5, <1>10, <2>1, SendsMore
  <1>13. events' = events \o t
    <2>1. events \o ab = (events \o a) \o b
      BY <1>2, <1>3, <1>4, ConcatAssociative
    <2>2. events' = (events \o ab) \o c
      BY <1>6, <2>1
    <2> HIDE DEF ab
    <2> QED
      BY <1>2, <1>5, <1>10, <2>2, ConcatAssociative
  <1> HIDE DEF ab, t, relocated
  <1>14. /\ p \in Names /\ q \in Names /\ p # Root /\ q # Root /\ IsPrefix(p, p)
         /\ parent(p) \in Names /\ parent(q) \in Names /\ ~ IsPrefix(p, parent(p)) /\ ~ IsPrefix(p, parent(q))
    BY <1>6, PathsAbove, PathOrder, AboveIs
  <1>15. \A k \in kernel : k.at \in Names /\ (k.at # Root => There(disk, k.at))
    BY KernelNames DEF There
  <1>16. /\ IsFiniteSet(kernel)
         /\ \A v, w \in kernel : v.wd = w.wd \/ v.at = w.at => v = w
    BY KernelIs
  <1>17. ASSUME NEW k \in kernel PROVE ~ IsPrefix(q, k.at)
    BY <1>8, <1>14, <1>15, PathOrder
  (* Where each event came from.                                            *)
  <1>18. \A i \in 1..Len(t) : \/ \E j \in 1..Len(a) : t[i] = a[j]
                              \/ \E j \in 1..Len(b) : t[i] = b[j] /\ i = Len(a) + j
                              \/ \E j \in 1..Len(c) : t[i] = c[j]
    <2> SUFFICES ASSUME NEW i \in 1..Len(t)
                 PROVE  \/ \E j \in 1..Len(a) : t[i] = a[j]
                        \/ \E j \in 1..Len(b) : t[i] = b[j] /\ i = Len(a) + j
                        \/ \E j \in 1..Len(c) : t[i] = c[j]
      OBVIOUS
    <2>1. CASE \E j \in 1..Len(ab) : t[i] = ab[j] /\ i = j
      <3>1. i \in 1..Len(ab) /\ t[i] = ab[i]
        BY <2>1
      <3>2. \/ \E j \in 1..Len(a) : ab[i] = a[j] /\ i = j
            \/ \E j \in 1..Len(b) : ab[i] = b[j] /\ i = Len(a) + j
        BY <1>10, <3>1 DEF Joined
      <3> QED
        BY ONLY <3>1, <3>2
    <2>2. CASE \E j \in 1..Len(c) : t[i] = c[j]
      BY <2>2
    <2> QED
      BY <1>11, <2>1, <2>2 DEF Joined
  <1>19. ASSUME NEW i \in 1..Len(t)
         PROVE  /\ EventShape(t[i]) /\ \E w \in kernel : w.wd = t[i].wd
                /\ t[i].mask \in Came => \E j \in 1..Len(b) : t[i] = b[j] /\ i = Len(a) + j
                /\ t[i].mask \in Gone => \E j \in 1..Len(a) : t[i] = a[j]
                /\ t[i].mask \in Left => \E w \in kernel : w.wd = t[i].wd /\ w.at = p
    <2>1. CASE \E j \in 1..Len(a) : t[i] = a[j]
      BY <1>3, <2>1 DEF EventShape, Came, Gone, Left
    <2>2. CASE \E j \in 1..Len(b) : t[i] = b[j] /\ i = Len(a) + j
      BY <1>4, <2>2 DEF EventShape, Came, Gone, Left
    <2>3. CASE \E j \in 1..Len(c) : t[i] = c[j]
      BY <1>5, <2>3 DEF EventShape, Came, Gone, Left
    <2> QED
      BY <1>18, <2>1, <2>2, <2>3
  <1>20. KernelTells(t, {p}, {q}, {})
    <2>1. ASSUME NEW i \in 1..Len(t), t[i].mask \in Came
          PROVE  /\ \E k \in kernel : k.wd = t[i].wd /\ At(k, t[i]) \in Paths /\ disk[At(k, t[i])] = "none"
                 /\ \A j \in 1..Len(t) : t[j].mask \in Came => i = j
      <3>1. PICK m \in 1..Len(b) : t[i] = b[m] /\ i = Len(a) + m
        BY <1>19, <2>1
      <3>2. PICK k \in kernel : k.wd = t[i].wd
        BY <1>4, <3>1
      <3>3. At(k, t[i]) = q
        BY <1>4, <3>1, <3>2
      <3>4. ASSUME NEW j \in 1..Len(t), t[j].mask \in Came PROVE i = j
        BY <1>4, <1>19, <3>1, <3>4
      <3> QED
        BY <1>6, <3>2, <3>3, <3>4
    <2>2. ASSUME NEW i \in 1..Len(t), t[i].mask \in Left
          PROVE  \E k \in kernel : k.wd = t[i].wd /\ k.at \in Paths /\ disk'[k.at] = "none"
      BY <1>8, <1>19, <2>2 DEF There
    <2>3. ASSUME NEW i \in 1..Len(t), NEW v \in kernel', v.wd = t[i].wd
          PROVE  /\ t[i].mask \in Gone => ~ There(disk', At(v, t[i]))
                 /\ t[i].mask \in Came => There(disk', At(v, t[i]))
      <3>1. PICK k \in kernel : v = relocated(k)
        BY <1>6
      <3>2. k.wd = t[i].wd
        BY <1>7, <2>3, <3>1
      <3>3. CASE t[i].mask \in Gone
        <4>1. k.at = parent(p) /\ At(k, t[i]) = p
          BY <1>3, <1>19, <3>2, <3>3
        <4>2. v = k
          BY <1>7, <1>14, <3>1, <4>1
        <4> QED
          BY <1>8, <3>3, <4>1, <4>2 DEF Gone, Came
      <3>4. CASE t[i].mask \in Came
        <4>1. k.at = parent(q) /\ At(k, t[i]) = q
          <5>1. PICK m \in 1..Len(b) : t[i] = b[m]
            BY <1>19, <3>4
          <5> QED
            BY <1>4, <3>2, <5>1
        <4>2. v = k
          BY <1>7, <1>14, <3>1, <4>1
        <4> QED
          BY <1>8, <3>4, <4>1, <4>2 DEF Gone, Came
      <3> QED
        BY <3>3, <3>4
    <2>4. IsFiniteSet(kernel')
      <3> DEFINE f == [w \in kernel |-> relocated(w)]
      <3>1. kernel' = {f[w] : w \in kernel}
        BY <1>6
      <3> HIDE DEF f
      <3> QED
        BY <1>16, <3>1, FiniteImage
    <2>5. ASSUME NEW v \in kernel', NEW w \in kernel', v.wd = w.wd \/ v.at = w.at PROVE v = w
      <3>1. PICK k \in kernel : v = relocated(k)
        BY <1>6
      <3>2. PICK x \in kernel : w = relocated(x)
        BY <1>6
      <3>3. v.wd = k.wd /\ w.wd = x.wd
        BY <1>7, <3>1, <3>2
      <3>4. ASSUME v.at = w.at PROVE k.at = x.at
        <4>1. /\ k.at \in Names /\ x.at \in Names
              /\ v.at = (IF IsPrefix(p, k.at) THEN Moved(p, q, k.at) ELSE k.at)
              /\ w.at = (IF IsPrefix(p, x.at) THEN Moved(p, q, x.at) ELSE x.at)
          BY <1>7, <1>15, <3>1, <3>2
        <4> QED
          <5>1. ~ IsPrefix(q, k.at) /\ ~ IsPrefix(q, x.at)
            BY <1>17
          <5>2. CASE IsPrefix(p, k.at) /\ IsPrefix(p, x.at)
            <6>1. /\ Moved(q, p, Moved(p, q, k.at)) = k.at
                  /\ Moved(q, p, Moved(p, q, x.at)) = x.at
                  /\ Moved(p, q, k.at) = Moved(p, q, x.at)
              BY <1>8, <3>4, <4>1, <5>2
            <6> QED
              BY ONLY <6>1
          <5>3. IsPrefix(p, k.at) => IsPrefix(q, Moved(p, q, k.at))
            BY <1>8, <4>1
          <5>4. IsPrefix(p, x.at) => IsPrefix(q, Moved(p, q, x.at))
            BY <1>8, <4>1
          <5> QED
            BY ONLY <3>4, <4>1, <5>1, <5>2, <5>3, <5>4
      <3>5. k = x
        BY <1>16, <2>5, <3>3, <3>4
      <3> QED
        BY <3>1, <3>2, <3>5
    <2>6. ASSUME NEW k \in kernel, k \notin kernel'
          PROVE  IsPrefix(p, k.at) /\ (k.at = p => \E i \in 1..Len(t) : t[i].wd = k.wd /\ t[i].mask \in Left)
      <3>1. IsPrefix(p, k.at)
        <4>1. relocated(k) \in kernel'
          BY <1>6
        <4> QED
          BY <1>7, <2>6, <4>1
      <3>2. ASSUME k.at = p PROVE \E i \in 1..Len(t) : t[i].wd = k.wd /\ t[i].mask \in Left
        <4>1. PICK j \in 1..Len(c) : c[j].wd = k.wd
          BY <1>5, <3>2
        <4>2. PICK i \in 1..Len(t) : t[i] = c[j]
          BY <1>11 DEF Joined
        <4> QED
          BY <1>5, <4>1, <4>2 DEF Left
      <3> QED
        BY <3>1, <3>2
    <2>7. ASSUME NEW v \in kernel'
          PROVE  \E k \in kernel :
                   /\ k.wd = v.wd /\ (k.at = Root <=> v.at = Root)
                   /\ \A e : e.name \in Names /\ Len(e.name) = 1 =>
                        \/ There(disk', At(v, e)) <=> There(disk, At(k, e))
                        \/ At(k, e) \in {p} /\ ~ There(disk', At(v, e))
                        \/ At(k, e) \in {q} /\ There(disk', At(v, e))
      <3>1. PICK k \in kernel : v = relocated(k)
        BY <1>6
      <3>2. k.wd = v.wd /\ k.at \in Names
        BY <1>7, <1>15, <3>1
      <3>3. CASE IsPrefix(p, k.at)
        <4>1. v.at = Moved(p, q, k.at)
          BY <1>7, <3>1, <3>3
        <4>2. k.at # Root /\ v.at # Root
          BY <1>8, <1>14, <3>2, <3>3, <4>1, PathOrder
        <4>3. ASSUME NEW e, e.name \in Names, Len(e.name) = 1 PROVE There(disk', At(v, e)) <=> There(disk, At(k, e))
          <5> DEFINE d == k.at  x == e.name  y == d \o x
          <5>1. d \in Names /\ x \in Names /\ Len(x) = 1 /\ IsPrefix(p, d)
            BY <3>2, <3>3, <4>3
          <5>2. At(k, e) = y /\ At(v, e) = Moved(p, q, d) \o x
            BY <4>1 DEF At
          <5> HIDE DEF d, x
          <5>3. y \in Names /\ Moved(p, q, d) \o x = Moved(p, q, y) /\ IsPrefix(p, y)
            <6>1. Moved(p, q, d) \o x = Moved(p, q, d \o x) /\ IsPrefix(p, d \o x)
              BY <1>14, <5>1, MovedMore
            <6>2. d \o x \in Names
              BY <5>1, ChildIs
            <6> QED
              BY <6>1, <6>2, Zenon
          <5> HIDE DEF y
          <5> QED
            BY <1>8, <5>2, <5>3
        <4> QED
          BY <3>2, <4>2, <4>3
      <3>4. CASE ~ IsPrefix(p, k.at)
        <4>1. v = k
          BY <1>7, <3>1, <3>4
        <4>2. ASSUME NEW e, e.name \in Names, Len(e.name) = 1
              PROVE  \/ There(disk', At(k, e)) <=> There(disk, At(k, e))
                     \/ At(k, e) = p /\ ~ There(disk', At(k, e))
                     \/ At(k, e) = q /\ There(disk', At(k, e))
          <5> DEFINE d == k.at  x == e.name  y == d \o x
          <5>1. d \in Names /\ x \in Names /\ Len(x) = 1 /\ ~ IsPrefix(p, d) /\ ~ IsPrefix(q, d)
            BY <1>17, <3>2, <3>4, <4>2
          <5>2. At(k, e) = y
            BY DEF At
          <5> HIDE DEF d, x
          <5>3. y \in Names /\ y # Root /\ parent(y) = d
            BY <5>1, ChildIs
          <5> HIDE DEF y
          <5>4. (IsPrefix(p, y) => y = p) /\ (IsPrefix(q, y) => y = q)
            BY <1>14, <5>1, <5>3, AboveIs
          <5>5. \/ There(disk', y) <=> There(disk, y)
                \/ y = p /\ ~ There(disk', y)
                \/ y = q /\ There(disk', y)
            BY <1>8, <5>3, <5>4
          <5> QED
            BY <5>2, <5>5
        <4> QED
          BY <3>2, <4>1, <4>2
      <3> QED
        BY <3>3, <3>4
    <2>8. \A x \in Paths : \/ disk'[x] = disk[x]
                           \/ disk'[x] = "none" /\ \E y \in {p} : IsPrefix(y, x)
                           \/ \E y \in {q} : IsPrefix(y, x)
      BY <1>9
    <2> QED
      BY <1>2, <1>6, <1>11, <1>12, <1>13, <1>19, <2>1, <2>2, <2>3, <2>4, <2>5, <2>6, <2>7, <2>8 DEF KernelTells
  <1> QED
    BY <1>1, <1>20, ChangeKeeps

-----------------------------------------------------------------------------
(* The helper's turn: what is still to come stays the same. *)

LEMMA SelectKeepsAgreed ==
  ASSUME PaneInv, Select PROVE PaneInv'
  <1> USE DEF PaneInv
  <1>1. MonInv'
    BY SelectKeepsPane
  <1>2. /\ alive /\ link /\ batch = <<>> /\ lines = <<>> /\ listing = {} /\ ~ ready
        /\ batch' = events /\ events' = <<>> /\ ready' \in BOOLEAN
        /\ UNCHANGED <<disk, kernel, fnames, stdin, lines, listing, alive, stdout, link, hasty, renamed, stray>>
        /\ UNCHANGED <<isOpen, firstOpen, prevOpenFolders, shown, openDirs>>
    BY DEF Select, Helper, panevars
  <1>3. Coming = events /\ Coming' = events /\ Len(batch') = Len(Coming)
    <2>1. Coming = events
      BY <1>2, ComingIs
    <2>2. PICK wds : events \in Seq(KernelEvents(wds))
      BY DEF MonInv, EventTypes
    <2>3. Coming' = events
      BY <1>2, <2>2, ConcatEmptySeq DEF Coming
    <2> QED
      BY <1>2, <2>1, <2>3
  <1>4. KernelInv'
    BY <1>2, <1>3 DEF KernelInv
  <1>5. QueueOrder'
    BY <1>2 DEF QueueOrder
  <1>6. PaneNow' = PaneNow
    BY <1>2 DEF PaneNow
  <1>7. WillAgree'
    <2> SUFFICES ASSUME ~ hasty, ~ renamed
                 PROVE  \E q : Handles(PaneNow, stdout, q) /\ (~ q.stray => AgreesAt(q)')
      BY <1>2, <1>6 DEF WillAgree
    <2>1. PICK q : Handles(PaneNow, stdout, q) /\ (~ q.stray => AgreesAt(q))
      BY <1>2 DEF WillAgree
    <2>2. ASSUME ~ q.stray PROVE AgreesAt(q)'
      <3>1. Agreed(q.items, q.open, q.prev, q.sent, fnames, kernel, Coming, listing, disk,
                   Len(batch), ready, lines)
        BY <2>1, <2>2 DEF AgreesAt
      <3>2. Agreed(q.items, q.open, q.prev, q.sent, fnames, kernel, Coming, listing, disk,
                   Len(Coming), ready', <<>>)
        <4>1. Len(batch) \in Nat /\ Len(Coming) \in Nat
          BY ComingIs
        <4> QED
          BY ONLY <1>2, <3>1, <4>1, ReadAgrees
      <3> QED
        BY <1>2, <1>3, <3>2 DEF AgreesAt
    <2> QED
      BY <2>1, <2>2
  <1> QED
    BY <1>1, <1>4, <1>5, <1>7

(* What the helper reads stays on its way, in the same order.              *)
LEMMA ReadKeepsAgreed ==
  ASSUME PaneInv, ReadStdin PROVE PaneInv'
  <1> USE DEF PaneInv
  <1>1. MonInv'
    BY SelectKeepsPane
  <1>2. /\ alive /\ link /\ batch = <<>> /\ ready /\ lines' = stdin /\ stdin' = <<>> /\ ready' = FALSE
        /\ UNCHANGED <<disk, kernel, events, batch, fnames, listing, alive, stdout, link, hasty, renamed, stray>>
        /\ UNCHANGED <<isOpen, firstOpen, prevOpenFolders, shown, openDirs>>
    BY DEF ReadStdin, Helper, panevars, kernelvars
  <1>3. Coming' = Coming /\ Len(batch) = 0
    BY <1>2 DEF Coming
  <1>4. KernelInv'
    BY <1>2, <1>3 DEF KernelInv
  <1>5. QueueOrder' /\ lines = <<>>
    BY <1>2 DEF QueueOrder
  <1>6. PaneNow' = PaneNow
    <2>1. stdin \in Seq(PaneCommands)
      BY DEF MonInv, QueueTypes
    <2>2. lines \o stdin = stdin /\ stdin \o <<>> = stdin
      BY <1>5, <2>1, ConcatEmptySeq
    <2> QED
      BY <1>2, <2>2 DEF PaneNow
  <1>7. WillAgree'
    <2> SUFFICES ASSUME ~ hasty, ~ renamed
                 PROVE  \E q : Handles(PaneNow, stdout, q) /\ (~ q.stray => AgreesAt(q)')
      BY <1>2, <1>6 DEF WillAgree
    <2>1. PICK q : Handles(PaneNow, stdout, q) /\ (~ q.stray => AgreesAt(q))
      BY <1>2 DEF WillAgree
    <2>2. ASSUME ~ q.stray PROVE AgreesAt(q)'
      <3>1. Agreed(q.items, q.open, q.prev, q.sent, fnames, kernel, Coming, listing, disk,
                   Len(batch), ready, lines)
        BY <2>1, <2>2 DEF AgreesAt
      <3>2. Agreed(q.items, q.open, q.prev, q.sent, fnames, kernel, Coming, listing, disk,
                   Len(batch), FALSE, lines')
        <4>1. Len(batch) \in Nat /\ Len(Coming) \in Nat
          BY ComingIs
        <4> QED
          BY ONLY <1>2, <1>3, <3>1, <4>1, ReadAgrees
      <3> QED
        BY <1>2, <1>3, <3>2 DEF AgreesAt
    <2> QED
      BY <2>1, <2>2
  <1> QED
    BY <1>1, <1>4, <1>5, <1>7

(* What follows when a first sequence is not empty.                        *)
LEMMA TailConcat ==
  ASSUME NEW S, NEW a \in Seq(S), NEW b \in Seq(S), a # <<>>
  PROVE  Tail(a) \o b = Tail(a \o b)
  <1> DEFINE c == a \o b
             t == Tail(a)
             u == Tail(c)
             w == t \o b
  <1>1. /\ c \in Seq(S) /\ Len(c) = Len(a) + Len(b) /\ Len(b) \in Nat /\ Len(a) \in Nat
        /\ \A i \in 1 .. Len(a) + Len(b) : c[i] = IF i <= Len(a) THEN a[i] ELSE b[i - Len(a)]
    BY ConcatProperties, LenProperties
  <1>2. /\ t \in Seq(S) /\ Len(a) \in Nat \ {0} /\ Len(t) = Len(a) - 1
        /\ \A i \in 1..Len(t) : i + 1 \in 1..Len(a) /\ t[i] = a[i + 1]
    BY TailIs
  <1> HIDE DEF c
  <1>3. c # <<>>
    BY <1>1, <1>2, EmptySeq
  <1>4. /\ u \in Seq(S) /\ Len(u) = Len(c) - 1
        /\ \A i \in 1..Len(u) : i + 1 \in 1..Len(c) /\ u[i] = c[i + 1]
    BY <1>1, <1>3, TailIs
  <1> HIDE DEF t, u
  <1>5. /\ w \in Seq(S) /\ Len(w) = Len(t) + Len(b)
        /\ \A i \in 1 .. Len(t) + Len(b) : w[i] = IF i <= Len(t) THEN t[i] ELSE b[i - Len(t)]
    BY <1>2, ConcatProperties
  <1> HIDE DEF w
  <1>6. Len(w) = Len(u)
    BY <1>1, <1>2, <1>4, <1>5
  <1>7. ASSUME NEW i \in 1..Len(w) PROVE w[i] = u[i]
    <2>1. u[i] = c[i + 1] /\ i + 1 \in 1 .. Len(a) + Len(b) /\ i \in 1 .. Len(t) + Len(b)
      BY <1>1, <1>4, <1>5, <1>6
    <2>2. CASE i <= Len(t)
      <3>1. i + 1 <= Len(a) /\ i \in 1..Len(t)
        BY <1>2, <2>2
      <3> QED
        BY <1>1, <1>2, <1>5, <2>1, <2>2, <3>1
    <2>3. CASE ~ (i <= Len(t))
      <3>1. ~ (i + 1 <= Len(a)) /\ (i + 1) - Len(a) = i - Len(t)
        BY <1>2, <2>3
      <3> QED
        BY <1>1, <1>5, <2>1, <2>3, <3>1
    <2> QED
      BY <2>2, <2>3
  <1>8. w = u
    BY <1>4, <1>5, <1>6, <1>7, SeqEqual
  <1> QED
    BY <1>8 DEF c, t, u, w

-----------------------------------------------------------------------------
(* The helper does a command *)

(* The command is the first of those the pane has sent.                    *)
LEMMA CommandNow ==
  ASSUME PaneInv, NEW op, Command(op)
  PROVE  /\ alive /\ link /\ batch = <<>> /\ ~ ready /\ listing = {} /\ lines \in Seq(PaneCommands) /\ lines # <<>>
         /\ Head(lines) \in PaneCommands /\ Head(lines).op = op /\ Head(lines) = lines[1] /\ 1 \in 1..Len(lines)
         /\ PaneNow.sent # <<>> /\ PaneNow.sent[1] = Head(lines)
         /\ PaneNow' = Popped(PaneNow) /\ Coming' = Coming /\ lines' = Tail(lines)
         /\ UNCHANGED <<disk, events, batch, ready, stdin, alive, link, hasty, stray>>
         /\ UNCHANGED <<isOpen, firstOpen, prevOpenFolders, shown, openDirs>>
  <1> USE DEF PaneInv
  <1>1. /\ alive /\ link /\ listing = {} /\ lines # <<>> /\ Head(lines).op = op /\ lines' = Tail(lines)
        /\ UNCHANGED <<disk, events, batch, ready, stdin, alive, link, hasty, stray>>
        /\ UNCHANGED <<isOpen, firstOpen, prevOpenFolders, shown, openDirs>>
    BY DEF Command, Helper, panevars
  <1>2. batch = <<>> /\ ~ ready
    BY <1>1 DEF QueueOrder
  <1>3. lines \in Seq(PaneCommands) /\ stdin \in Seq(PaneCommands)
    BY DEF MonInv, QueueTypes
  <1>4. /\ Tail(lines) \in Seq(PaneCommands) /\ Len(lines) \in Nat \ {0} /\ lines[1] = Head(lines)
        /\ Head(lines) \in PaneCommands /\ 1 \in 1..Len(lines)
    BY <1>1, <1>3, TailIs
  <1> DEFINE c == lines \o stdin
  <1>5. /\ c \in Seq(PaneCommands) /\ Len(c) = Len(lines) + Len(stdin) /\ Len(stdin) \in Nat
        /\ \A i \in 1 .. Len(lines) + Len(stdin) : c[i] = IF i <= Len(lines) THEN lines[i] ELSE stdin[i - Len(lines)]
    BY <1>3, ConcatProperties, LenProperties
  <1>6. c # <<>> /\ c[1] = Head(lines)
    <2>1. 1 \in 1 .. Len(lines) + Len(stdin) /\ 1 <= Len(lines) /\ Len(c) # 0
      BY <1>4, <1>5
    <2> QED
      BY <1>4, <1>5, <2>1, EmptySeq
  <1>7. Tail(lines) \o stdin = Tail(c)
    BY <1>1, <1>3, <1>4, <1>5, <1>6, TailConcat
  <1>8. PaneNow.sent = c
    BY DEF PaneNow
  <1>9. PaneNow' = Popped(PaneNow)
    BY <1>1, <1>7 DEF PaneNow, Popped
  <1> HIDE DEF c
  <1>10. Coming' = Coming
    BY <1>1 DEF Coming
  <1> QED
    BY <1>1, <1>2, <1>3, <1>4, <1>6, <1>8, <1>9, <1>10

(* Once the helper has done what the first command asks for.               *)
LEMMA CommandDone ==
  ASSUME PaneInv, NEW op, Command(op), NEW q \in PaneStates, Extends(PaneNow.sent, q.sent), q.sent # <<>>,
         MonInv', QueueOrder', KernelInv',
         Agreed(q.items, q.open, q.prev, q.sent, fnames', kernel', Coming, listing', disk, Len(batch), ready, lines),
         \A d \in Names : op = "add" /\ Head(lines).fname = d =>
           /\ d \in Open(q.open) => Watched(fnames', d) \/ Doomed(fnames', Coming, d)
           /\ \A x \in Paths : parent(x) = d /\ d \in Open(q.open) /\ disk[x] # "none" => d \in listing',
         op = "remove" => \A w \in fnames' : ~ IsPrefix(Head(lines).fname, w.fname)
  PROVE  AgreesAt(Popped(q))'
  <1>1. /\ lines \in Seq(PaneCommands) /\ lines # <<>> /\ Head(lines).op = op
        /\ PaneNow.sent # <<>> /\ PaneNow.sent[1] = Head(lines)
        /\ Coming' = Coming /\ lines' = Tail(lines) /\ UNCHANGED <<disk, batch, ready>>
    BY CommandNow
  <1>2. q.sent[1] = Head(lines) /\ q.sent[1].op = op
    <2>1. PaneNow.sent \in Seq(PaneCommands)
      BY ConcatProperties DEF PaneInv, MonInv, QueueTypes, PaneNow
    <2>2. 1 \in 1..Len(PaneNow.sent)
      BY <1>1, <2>1, TailIs
    <2> QED
      BY <1>1, <2>2 DEF Extends
  <1> DEFINE E == Coming  F == fnames'  K == kernel'  L == listing'  D == Tail(q.sent)  ls == Tail(lines)
  <1>3. Shapes(q.sent, F, E, L)
    <2>1. q \in PaneStates' /\ MonInv' /\ QueueOrder' /\ KernelInv'
      BY DEF PaneStates, PaneCommands, EntryKinds
    <2>2. \A d \in listing' : d \in Names
      BY DEF MonInv, Watches, QueueOrder, Watched, Names
    <2>3. Len(Coming) \in Nat
      BY ComingIs DEF PaneInv
    <2>4. \A i \in 1..Len(Coming) :
            \/ Coming[i].mask \in Left /\ Coming[i].name = <<>>
            \/ Coming[i].mask \in Gone \union Came \union {"ATTRIB"} /\ Coming[i].name \in Names /\ Len(Coming[i].name) = 1
      BY DEF PaneInv, KernelInv, EventShape
    <2>5. \A w \in fnames' : w.fname \in Names
      BY DEF MonInv, Watches, Names
    <2>6. \A v, w \in fnames' : v.wd = w.wd => v = w
      BY DEF KernelInv, WatchesKept
    <2> QED
      BY <2>2, <2>3, <2>4, <2>5, <2>6, StateParts DEF Shapes
  <1>4. \A d \in Names : Adds(q.sent, 1, d) =>
          /\ d \in Open(q.open) => Watched(F, d) \/ Doomed(F, E, d)
          /\ \A x \in Paths : parent(x) = d /\ d \in Open(q.open) /\ disk[x] # "none" => d \in L
    BY <1>2 DEF Adds
  <1>5. q.sent[1].op = "remove" => \A w \in F : ~ IsPrefix(q.sent[1].fname, w.fname)
    BY <1>2
  <1>6. Agreed(q.items, q.open, q.prev, q.sent, F, K, E, L, disk, Len(batch), ready, lines)
    OBVIOUS
  <1>7. q.sent # <<>>
    OBVIOUS
  <1> HIDE DEF E, F, K, L
  <1>8. Agreed(q.items, q.open, q.prev, D, F, K, E, L, disk, Len(batch), ready, ls)
    BY ONLY <1>1, <1>3, <1>4, <1>5, <1>6, <1>7, DoneAgrees
  <1> QED
    BY <1>1, <1>8 DEF AgreesAt, Popped, E, F, K, L

(* The pane ignores the answer to a heartbeat.                             *)
LEMMA EchoKeepsAgreed ==
  ASSUME PaneInv, Echo PROVE PaneInv'
  <1> DEFINE m == message("heartbeat", Root, "none")
  <1>1. /\ Command("heartbeat") /\ stdout' = Append(stdout, m)
        /\ UNCHANGED <<kernel, fnames, listing, renamed>>
    BY DEF Echo
  <1>2. MonInv /\ QueueOrder /\ KernelInv /\ WillAgree
    BY DEF PaneInv
  <1>3. MonInv'
    BY <1>2, RemoveWatchKeepsPane
  <1>4. /\ alive /\ link /\ batch = <<>> /\ ~ ready /\ listing = {}
        /\ PaneNow.sent # <<>> /\ PaneNow' = Popped(PaneNow) /\ Coming' = Coming
        /\ UNCHANGED <<disk, batch, ready, alive, link, hasty, stray>>
    BY <1>1, CommandNow
  <1>5. QueueOrder' /\ KernelInv'
    BY <1>1, <1>2, <1>4 DEF QueueOrder, KernelInv
  <1>6. m \in HelperMessages /\ stdout \in Seq(HelperMessages) /\ m.event = "heartbeat"
    BY <1>2, PathIs DEF message, HelperMessages, EntryKinds, MonInv, QueueTypes
  <1> HIDE DEF m
  <1>7. ASSUME ~ hasty, ~ renamed
        PROVE  \E q : Handles(PaneNow', stdout', q) /\ (~ q.stray => AgreesAt(q)')
    <2>1. PICK q : Handles(PaneNow, stdout, q) /\ (~ q.stray => AgreesAt(q))
      BY <1>2, <1>4, <1>7 DEF WillAgree
    <2>2. q \in PaneStates /\ Extends(PaneNow.sent, q.sent)
      BY <1>6, <2>1, HandlesKeeps
    <2>3. Handles(PaneNow, stdout', q)
      <3>1. After(q, m) = q
        BY <1>6 DEF After
      <3> QED
        BY <1>1, <1>6, <2>1, <3>1, HandlesMore
    <2>4. stdout' \in Seq(HelperMessages)
      BY <1>3 DEF MonInv, QueueTypes
    <2>5. Handles(PaneNow', stdout', Popped(q)) /\ q.sent # <<>>
      BY <1>4, <2>3, <2>4, HandlesPopped
    <2>6. ASSUME ~ q.stray PROVE AgreesAt(Popped(q))'
      <3>1. Agreed(q.items, q.open, q.prev, q.sent, fnames', kernel', Coming, listing', disk, Len(batch), ready, lines)
        BY <1>1, <2>1, <2>6 DEF AgreesAt
      <3> QED
        BY <1>1, <1>3, <1>5, <2>2, <2>5, <3>1, CommandDone
    <2>7. Popped(q).stray = q.stray
      BY DEF Popped
    <2> QED
      BY <2>5, <2>6, <2>7
  <1>8. WillAgree'
    BY <1>1, <1>4, <1>7 DEF WillAgree
  <1> QED
    BY <1>3, <1>5, <1>8 DEF PaneInv

(* A directory is forgotten with all that is watched below it.             *)
LEMMA WatchesRemoved ==
  ASSUME MonInv, KernelInv, NEW d, remove_watch_and_subwatches(d)
  PROVE  /\ fnames' = {w \in fnames : ~ IsPrefix(d, w.fname)} /\ kernel' \subseteq kernel
         /\ \A k \in kernel : k \in kernel' \/ \E w \in fnames : w.wd = k.wd /\ IsPrefix(d, w.fname)
         /\ \A w \in fnames' : w = [wd |-> w.wd, fname |-> w.fname]
         /\ WatchesKept(kernel', fnames') /\ EventsTrue(kernel', Coming, disk)
         /\ RootKept(kernel', fnames', Coming)
  <1> DEFINE gone == {w.wd : w \in Subwatches(d)}
  <1>1. /\ kernel' = {w \in kernel : w.wd \notin gone} /\ fnames' = {w \in fnames : w.wd \notin gone}
        /\ \A x : x \in gone <=> \E w \in fnames : IsPrefix(d, w.fname) /\ x = w.wd
    BY DEF remove_watch_and_subwatches, Subwatches
  <1> HIDE DEF gone
  <1>2. WatchesKept(kernel, fnames) /\ EventsTrue(kernel, Coming, disk) /\ RootKept(kernel, fnames, Coming)
    BY DEF KernelInv
  <1>3. fnames' = {w \in fnames : ~ IsPrefix(d, w.fname)}
    <2>1. \A w \in fnames : w.wd \in gone <=> IsPrefix(d, w.fname)
      BY <1>1, <1>2 DEF WatchesKept
    <2> QED
      BY <1>1, <2>1
  <1>4. kernel' \subseteq kernel /\ fnames' \subseteq fnames
    BY <1>1
  <1>5. \A k \in kernel : k \in kernel' \/ \E w \in fnames : w.wd = k.wd /\ IsPrefix(d, w.fname)
    BY <1>1
  <1>6. WatchesKept(kernel', fnames')
    <2>1. IsFiniteSet(kernel') /\ IsFiniteSet(fnames')
      BY <1>2, <1>4, FS_Subset DEF WatchesKept
    <2>2. \A k \in kernel' : \E w \in fnames' : w.wd = k.wd
      BY <1>1, <1>2 DEF WatchesKept
    <2> QED
      BY <1>2, <1>4, <2>1, <2>2 DEF WatchesKept
  <1>7. EventsTrue(kernel', Coming, disk)
    BY <1>2, <1>4 DEF EventsTrue
  <1>8. RootKept(kernel', fnames', Coming)
    BY <1>2, <1>4 DEF RootKept
  <1> QED
    BY <1>3, <1>4, <1>5, <1>6, <1>7, <1>8 DEF KernelInv

(* A command that removes drops the watches at its path and below.         *)
LEMMA RemoveKeepsAgreed ==
  ASSUME PaneInv, RemoveWatch PROVE PaneInv'
  <1> DEFINE d == Head(lines).fname
  <1>1. /\ Command("remove") /\ remove_watch_and_subwatches(d)
        /\ UNCHANGED <<stdout, listing, renamed>>
    BY DEF RemoveWatch
  <1>2. MonInv /\ QueueOrder /\ KernelInv /\ WillAgree
    BY DEF PaneInv
  <1>3. MonInv'
    BY <1>2, RemoveWatchKeepsPane
  <1>4. /\ alive /\ link /\ batch = <<>> /\ ~ ready /\ listing = {}
        /\ Head(lines) \in PaneCommands /\ Head(lines).op = "remove"
        /\ PaneNow.sent # <<>> /\ PaneNow.sent[1] = Head(lines)
        /\ PaneNow' = Popped(PaneNow) /\ Coming' = Coming
        /\ UNCHANGED <<disk, batch, ready, alive, link, hasty, stray>>
    BY <1>1, CommandNow
  <1>5. d \in Names
    BY <1>4 DEF PaneCommands, Names
  <1> HIDE DEF d
  <1>6. /\ fnames' = {w \in fnames : ~ IsPrefix(d, w.fname)} /\ kernel' \subseteq kernel
        /\ \A k \in kernel : k \in kernel' \/ \E w \in fnames : w.wd = k.wd /\ IsPrefix(d, w.fname)
        /\ \A w \in fnames' : w = [wd |-> w.wd, fname |-> w.fname]
        /\ WatchesKept(kernel', fnames') /\ EventsTrue(kernel', Coming, disk)
        /\ RootKept(kernel', fnames', Coming)
    BY <1>1, <1>2, WatchesRemoved
  <1>7. KernelInv'
    BY <1>2, <1>4, <1>6 DEF KernelInv
  <1>8. QueueOrder'
    BY <1>1, <1>2, <1>4 DEF QueueOrder
  <1>9. ASSUME ~ hasty, ~ renamed
        PROVE  \E q : Handles(PaneNow', stdout, q) /\ (~ q.stray => AgreesAt(q)')
    <2>1. PICK q : Handles(PaneNow, stdout, q) /\ (~ q.stray => AgreesAt(q))
      BY <1>2, <1>4, <1>9 DEF WillAgree
    <2>2. stdout \in Seq(HelperMessages)
      BY <1>2 DEF MonInv, QueueTypes
    <2>3. q \in PaneStates /\ Extends(PaneNow.sent, q.sent)
      BY <2>1, <2>2, HandlesKeeps
    <2>4. Handles(PaneNow', stdout, Popped(q)) /\ q.sent # <<>> /\ q.sent[1] = Head(lines)
      BY <1>4, <2>1, <2>2, HandlesPopped
    <2>5. ASSUME ~ q.stray PROVE AgreesAt(Popped(q))'
      <3> DEFINE C == q.sent  O == q.open  F == fnames  E == Coming  n == Len(batch)
                 F2 == fnames'  K2 == kernel'
      <3>1. Agreed(q.items, O, q.prev, C, F, kernel, E, listing, disk, n, ready, lines)
        BY <2>1, <2>5 DEF AgreesAt
      <3>2. Shapes(C, F, E, listing)
        BY <1>2, <2>3, ShapesNow
      <3>3. C[1].op = "remove" /\ C[1].fname = d /\ 1 \in 1..Len(C) /\ Len(C) \in Nat
        <4>1. C \in Seq(PaneCommands)
          BY <2>3, StateParts
        <4> QED
          BY <1>4, <2>4, <4>1, TailIs DEF d
      <3> HIDE DEF C, O, F, E, n
      <3>4. d # Root /\ \A h \in O : IsPrefix(d, h) => h = d /\ ~ Watched(F, d)
        BY <3>1, <3>3 DEF Agreed, AddedLast
      <3>5. \A i \in 1..Len(C) : C[i].op = "add" /\ IsPrefix(d, C[i].fname) =>
              C[i].fname = d \/ Removing(C, i, C[i].fname)
        <4> SUFFICES ASSUME NEW i \in 1..Len(C), C[i].op = "add", IsPrefix(d, C[i].fname) PROVE C[i].fname = d
          OBVIOUS
        <4>1. 1 < i
          <5>1. i # 1
            BY <3>3
          <5> QED
            BY <3>3, <5>1
        <4>2. Removes(C, 1, C[i].fname)
          BY <3>3 DEF Removes
        <4> QED
          BY <3>1, <3>3, <4>1, <4>2 DEF Agreed, AddedAgain
      <3>6. F2 = {w \in F : ~ IsPrefix(d, w.fname)}
        BY <1>6 DEF F
      <3>7. K2 \subseteq kernel /\ \A k \in kernel : k \in K2 \/ \E w \in F : w.wd = k.wd /\ IsPrefix(d, w.fname)
        BY <1>6 DEF F
      <3> HIDE DEF F2, K2
      <3>8. Agreed(q.items, O, q.prev, C, F2, K2, E, listing, disk, n, ready, lines)
        BY ONLY <1>5, <3>1, <3>2, <3>4, <3>5, <3>6, <3>7, ForgottenAgrees
      <3>9. Agreed(q.items, q.open, q.prev, q.sent, fnames', kernel', Coming, listing', disk, Len(batch), ready, lines)
        BY <1>1, <3>8 DEF C, O, E, n, F2, K2
      <3>10. \A w \in fnames' : ~ IsPrefix(Head(lines).fname, w.fname)
        BY <1>6 DEF d
      <3> QED
        BY <1>1, <1>3, <1>7, <1>8, <2>3, <2>4, <3>9, <3>10, CommandDone
    <2>6. Popped(q).stray = q.stray
      BY DEF Popped
    <2> QED
      BY <2>4, <2>5, <2>6
  <1>10. WillAgree'
    BY <1>1, <1>4, <1>9 DEF WillAgree
  <1> QED
    BY <1>3, <1>7, <1>8, <1>10 DEF PaneInv

LEMMA RangeFinite ==
  ASSUME NEW T, NEW s \in Seq(T)
  PROVE  IsFiniteSet(Range(s)) /\ \A i \in 1..Len(s) : s[i] \in Range(s)
  <1>1. Len(s) \in Nat /\ DOMAIN s = 1..Len(s)
    BY LenProperties
  <1>2. IsFiniteSet(1..Len(s))
    BY <1>1, FS_Interval
  <1>3. Range(s) = {s[i] : i \in 1..Len(s)}
    BY <1>1 DEF Range
  <1>4. IsFiniteSet(Range(s))
    BY <1>2, <1>3, FiniteImage
  <1> QED
    BY <1>3, <1>4

(* The descriptor of a new watch is not in use.                            *)
LEMMA UnusedIs ==
  ASSUME MonInv, KernelInv
  PROVE  /\ \A k \in kernel : k.wd # Unused
         /\ \A w \in fnames : w.wd # Unused
         /\ \A i \in 1..Len(Coming) : Coming[i].wd # Unused
  <1> DEFINE X == kernel \union fnames \union Range(events) \union Range(batch)
             used == {x.wd : x \in X}
             c == Cardinality(used)
  <1>1. PICK wds : events \in Seq(KernelEvents(wds)) /\ batch \in Seq(KernelEvents(wds))
    BY DEF MonInv, EventTypes
  <1>2. IsFiniteSet(X)
    <2>1. IsFiniteSet(kernel) /\ IsFiniteSet(fnames)
      BY DEF KernelInv, WatchesKept
    <2>2. IsFiniteSet(Range(events)) /\ IsFiniteSet(Range(batch))
      BY <1>1, RangeFinite
    <2> QED
      BY <2>1, <2>2, FS_Union
  <1>3. IsFiniteSet(used)
    <2> DEFINE f == [x \in X |-> x.wd]
    <2>1. used = {f[x] : x \in X}
      OBVIOUS
    <2> HIDE DEF used, X, f
    <2> QED
      BY <1>2, <2>1, FiniteImage
  <1>4. Unused = CHOOSE n \in 1..(c + 1) : n \notin used
    BY DEF Unused
  <1>5. \A x \in X : x.wd \in used
    OBVIOUS
  <1> HIDE DEF used
  <1>6. c \in Nat
    BY <1>3, FS_CardinalityType
  <1>7. \E n \in 1..(c + 1) : n \notin used
    <2> SUFFICES ASSUME 1..(c + 1) \subseteq used PROVE FALSE
      OBVIOUS
    <2>1. Cardinality(1..(c + 1)) <= c
      BY <1>3, FS_Subset
    <2>2. Cardinality(1..(c + 1)) = c + 1
      <3> HIDE DEF c
      <3>1. 1 \in Int /\ c + 1 \in Int /\ ~ (1 > c + 1) /\ (c + 1) - 1 + 1 = c + 1
        BY <1>6
      <3> QED
        BY <3>1, FS_Interval
    <2> HIDE DEF c
    <2> QED
      BY <1>6, <2>1, <2>2
  <1>8. Unused \notin used
    BY <1>4, <1>7
  <1>9. \A i \in 1..Len(Coming) : Coming[i] \in X
    <2>1. /\ Len(batch) \in Nat /\ Len(events) \in Nat
          /\ \A i \in 1 .. Len(batch) + Len(events) :
               Coming[i] = IF i <= Len(batch) THEN batch[i] ELSE events[i - Len(batch)]
          /\ Len(Coming) = Len(batch) + Len(events)
      BY <1>1, ConcatProperties, LenProperties DEF Coming
    <2>2. /\ \A i \in 1..Len(events) : events[i] \in Range(events)
          /\ \A i \in 1..Len(batch) : batch[i] \in Range(batch)
      BY <1>1, RangeFinite
    <2>3. ASSUME NEW i \in 1..Len(Coming) PROVE Coming[i] \in Range(batch) \/ Coming[i] \in Range(events)
      <3>1. CASE i <= Len(batch)
        BY <2>1, <2>2, <3>1
      <3>2. CASE ~ (i <= Len(batch))
        <4>1. i - Len(batch) \in 1..Len(events)
          BY <2>1, <3>2
        <4> QED
          BY <2>1, <2>2, <3>2, <4>1
      <3> QED
        BY <3>1, <3>2
    <2> QED
      BY <2>3
  <1> QED
    BY <1>5, <1>8, <1>9

(* The watch of a directory that is watched already is the one it has.     *)
NewWatch(d) ==
  IF Watching(d) # {} THEN CHOOSE x \in Watching(d) : TRUE ELSE [wd |-> Unused, at |-> d]
WatchIsAdded(d, k, u, K2, F2) ==
  /\ k = NewWatch(d) /\ u = [wd |-> k.wd, fname |-> d]
  /\ K2 = kernel \union {k}
  /\ F2 = {x \in fnames : x.wd # k.wd} \union {u}

(* The watch of a directory is new, or the one it has already.             *)
LEMMA WatchAdded ==
  ASSUME MonInv, KernelInv, NEW d, NEW k, NEW u, NEW K2, NEW F2, WatchIsAdded(d, k, u, K2, F2)
  PROVE  /\ k.at = d /\ k.wd = u.wd /\ u.fname = d
         /\ \/ k \in kernel
            \/ /\ \A x \in kernel : x.at # d
               /\ \A i \in 1..Len(Coming) : Coming[i].wd # u.wd
         /\ \A w \in F2 : w = [wd |-> w.wd, fname |-> w.fname]
         /\ WatchesKept(K2, F2) /\ EventsTrue(K2, Coming, disk) /\ RootKept(K2, F2, Coming)
  <1> USE DEF WatchIsAdded
  <1>1. k.at = d /\ k.wd = u.wd /\ u.fname = d /\ u = [wd |-> u.wd, fname |-> u.fname]
    BY DEF NewWatch, Watching
  <1>2. \/ k \in kernel
        \/ /\ \A x \in kernel : x.at # d /\ x.wd # k.wd
           /\ \A x \in fnames : x.wd # k.wd
           /\ \A i \in 1..Len(Coming) : Coming[i].wd # k.wd
    <2>1. CASE Watching(d) # {}
      BY <2>1 DEF NewWatch, Watching
    <2>2. CASE Watching(d) = {}
      <3>1. k.wd = Unused
        BY <2>2 DEF NewWatch
      <3> QED
        BY <2>2, <3>1, UnusedIs DEF Watching
    <2> QED
      BY <2>1, <2>2
  <1>3. WatchesKept(kernel, fnames) /\ EventsTrue(kernel, Coming, disk) /\ RootKept(kernel, fnames, Coming)
    BY DEF KernelInv
  <1>4. WatchesKept(K2, F2)
    <2>1. IsFiniteSet(K2)
      BY <1>3, FS_AddElement DEF WatchesKept
    <2>2. IsFiniteSet(F2)
      <3> DEFINE S == {x \in fnames : x.wd # k.wd}
      <3>1. S \in SUBSET fnames /\ IsFiniteSet(fnames)
        BY <1>3 DEF WatchesKept
      <3>2. IsFiniteSet(S)
        BY <3>1, FS_Subset
      <3> QED
        BY <3>2, FS_AddElement
    <2>3. \A v, w \in F2 : v.wd = w.wd => v = w
      BY <1>1, <1>3 DEF WatchesKept
    <2>4. \A x \in K2 : \E w \in F2 : w.wd = x.wd
      BY <1>1, <1>3 DEF WatchesKept
    <2>5. \A x, y \in K2 : x.wd = y.wd \/ x.at = y.at => x = y
      BY <1>1, <1>2, <1>3 DEF WatchesKept
    <2> QED
      BY <2>1, <2>2, <2>3, <2>4, <2>5 DEF WatchesKept
  <1>5. EventsTrue(K2, Coming, disk)
    BY <1>2, <1>3 DEF EventsTrue
  <1>6. RootKept(K2, F2, Coming)
    <2>1. ASSUME NEW i \in 1..Len(Coming), Coming[i].mask \in Left
          PROVE  /\ \A x \in K2 : x.wd = Coming[i].wd => x.at # Root
                 /\ \A w \in F2 : w.wd = Coming[i].wd => w.fname # Root
      BY <1>1, <1>2, <1>3, <2>1 DEF RootKept
    <2>2. ASSUME NEW w \in F2, w.fname = Root, NEW x \in K2, x.wd = w.wd PROVE x.at = Root
      <3>1. CASE w = u
        <4>1. x.wd = k.wd /\ d = Root
          BY <1>1, <2>2, <3>1
        <4>2. x = k
          BY <1>4, <4>1 DEF WatchesKept
        <4> QED
          BY <1>1, <4>1, <4>2
      <3>2. CASE w # u
        <4>1. w \in fnames /\ w.wd # k.wd
          BY <3>2
        <4>2. x \in kernel
          BY <2>2, <4>1
        <4> QED
          BY <1>3, <2>2, <4>1, <4>2 DEF RootKept
      <3> QED
        BY <3>1, <3>2
    <2> QED
      BY <2>1, <2>2 DEF RootKept
  <1>7. \A w \in F2 : w = [wd |-> w.wd, fname |-> w.fname]
    BY <1>1 DEF KernelInv
  <1> QED
    BY <1>1, <1>2, <1>4, <1>5, <1>6, <1>7

(* The directory of a "+" has gone.                                        *)
LEMMA NoWatchAgrees ==
  ASSUME NEW V, NEW O, NEW R, NEW C, NEW F, NEW K, NEW E, NEW L, NEW G, NEW n, NEW rdy, NEW lns,
         Shapes(C, F, E, L), Agreed(V, O, R, C, F, K, E, L, G, n, rdy, lns), TreeOf(G),
         NEW d \in Names, d # Root, d \in Paths => G[d] # "dir",
         NEW isdir, isdir <=> d \in Paths /\ V[d] = "dir",
         NEW V2, V2 = (IF isdir THEN [x \in Paths |-> IF IsPrefix(d, x) /\ x # d THEN "none" ELSE V[x]] ELSE V),
         NEW O2, O2 = (IF isdir THEN {g \in O : ~ (IsPrefix(d, g) /\ g # d)} ELSE O)
  PROVE  /\ Agreed(V2, O2, R, C, F, K, E, L, G, n, rdy, lns)
         /\ d \in Open(O2) => Doomed(F, E, d)
         /\ \A x \in Paths : parent(x) = d => G[x] = "none"
  <1>1. Shapes(C, F, E, L) /\ Agreed(V, O, R, C, F, K, E, L, G, n, rdy, lns) /\ TreeOf(G)
    OBVIOUS
  <1>2. Agreed(V2, O2, R, C, F, K, E, L, G, n, rdy, lns)
    <2>1. ASSUME isdir PROVE Agreed(V2, O2, R, C, F, K, E, L, G, n, rdy, lns)
      <3>1. /\ d \in Paths /\ G[d] # "dir"
            /\ V2 = [x \in Paths |-> IF IsPrefix(d, x) /\ x # d THEN "none" ELSE V[x]]
            /\ O2 = {g \in O : ~ (IsPrefix(d, g) /\ g # d)}
        BY <2>1
      <3> QED
        BY ONLY <1>1, <3>1, ErrorAgrees
    <2>2. ASSUME ~ isdir PROVE Agreed(V2, O2, R, C, F, K, E, L, G, n, rdy, lns)
      <3>1. V2 = V /\ O2 = O
        BY <2>2
      <3> QED
        BY ONLY <1>1, <3>1
    <2> QED
      BY ONLY <2>1, <2>2
  <1>3. ASSUME d \in Open(O2) PROVE Doomed(F, E, d)
    <2>1. d \in O /\ d \in Paths /\ IsPrefix(d, d) /\ G[d] # "dir"
      <3>1. O \subseteq Paths /\ O2 \subseteq O
        BY <1>1 DEF Agreed, TreeKept
      <3> QED
        BY <1>3, <3>1, PathOrder DEF Open
    <2> QED
      BY ONLY <1>1, <2>1, OpenDoomed
  <1>4. ASSUME NEW x \in Paths, parent(x) = d PROVE G[x] = "none"
    <2>1. d \in Paths
      BY <1>4, PathIs
    <2> QED
      BY <1>1, <1>4, <2>1 DEF TreeOf
  <1> QED
    BY <1>2, <1>3, <1>4

(* A command that adds watches what is there, or is answered by an error.  *)
LEMMA AddKeepsAgreed ==
  ASSUME PaneInv, AddWatch PROVE PaneInv'
  <1>0. PICK d, m, k, u : /\ d = Head(lines).fname /\ m = message("error", d, "none")
                          /\ k = NewWatch(d) /\ u = [wd |-> k.wd, fname |-> d]
    OBVIOUS
  <1>1. /\ Command("add")
        /\ IF IsDir(d)
           THEN /\ kernel' = kernel \union {k}
                /\ fnames' = {x \in fnames : x.wd # k.wd} \union {u}
                /\ listing' = {d}
                /\ renamed' = (renamed \/ \E x \in fnames : x.wd = k.wd /\ x.fname # d)
                /\ UNCHANGED stdout
           ELSE stdout' = Append(stdout, m) /\ UNCHANGED <<kernel, fnames, listing, renamed>>
    BY <1>0 DEF AddWatch, NewWatch
  <1>2. MonInv /\ QueueOrder /\ KernelInv /\ WillAgree
    BY DEF PaneInv
  <1>3. MonInv'
    BY <1>2, AddWatchKeepsPane
  <1>4. /\ alive /\ link /\ batch = <<>> /\ ~ ready /\ listing = {} /\ lines # <<>>
        /\ Head(lines) \in PaneCommands /\ Head(lines).op = "add" /\ Head(lines) = lines[1] /\ 1 \in 1..Len(lines)
        /\ PaneNow.sent # <<>> /\ PaneNow.sent[1] = Head(lines)
        /\ PaneNow' = Popped(PaneNow) /\ Coming' = Coming
        /\ UNCHANGED <<disk, batch, ready, alive, link, hasty, stray>>
    BY <1>1, CommandNow
  <1>5. d \in Names /\ Head(lines) = add(d)
    BY <1>0, <1>4 DEF PaneCommands, Names, add
  <1>6. m \in HelperMessages /\ stdout \in Seq(HelperMessages) /\ m.event = "error" /\ m.fname = d
    BY <1>0, <1>2, <1>5 DEF message, HelperMessages, EntryKinds, MonInv, QueueTypes, Names
  <1>7. TreeOf(disk)
    BY <1>2 DEF MonInv, DiskTree, TreeOf, IsDir
  <1>8. CASE IsDir(d)
    <2>1. /\ kernel' = kernel \union {k}
          /\ fnames' = {x \in fnames : x.wd # k.wd} \union {u}
          /\ listing' = {d}
          /\ renamed' = (renamed \/ \E x \in fnames : x.wd = k.wd /\ x.fname # d)
          /\ stdout' = stdout
      BY <1>1, <1>8
    <2>2. /\ k.at = d /\ k.wd = u.wd /\ u.fname = d
          /\ \/ k \in kernel
             \/ /\ \A x \in kernel : x.at # d
                /\ \A i \in 1..Len(Coming) : Coming[i].wd # u.wd
          /\ \A w \in fnames' : w = [wd |-> w.wd, fname |-> w.fname]
          /\ WatchesKept(kernel', fnames') /\ EventsTrue(kernel', Coming, disk) /\ RootKept(kernel', fnames', Coming)
      <3> DEFINE F2 == fnames'  K2 == kernel'
      <3>1. k = NewWatch(d) /\ u = [wd |-> k.wd, fname |-> d]
        BY <1>0
      <3>2. WatchIsAdded(d, k, u, K2, F2)
        BY <2>1, <3>1 DEF WatchIsAdded
      <3> HIDE DEF F2, K2
      <3>3. /\ k.at = d /\ k.wd = u.wd /\ u.fname = d
            /\ \/ k \in kernel
               \/ /\ \A x \in kernel : x.at # d
                  /\ \A i \in 1..Len(Coming) : Coming[i].wd # u.wd
            /\ \A w \in F2 : w = [wd |-> w.wd, fname |-> w.fname]
            /\ WatchesKept(K2, F2) /\ EventsTrue(K2, Coming, disk) /\ RootKept(K2, F2, Coming)
        BY ONLY <1>2, <3>1, <3>2, WatchAdded
      <3> QED
        BY <3>3 DEF F2, K2
    <2>3. KernelInv'
      BY <1>2, <1>4, <2>2 DEF KernelInv
    <2>4. QueueOrder'
      BY <1>2, <1>4, <2>1, <2>2 DEF QueueOrder, Watched
    <2>5. ASSUME ~ hasty, ~ renamed'
          PROVE  \E q : Handles(PaneNow', stdout, q) /\ (~ q.stray => AgreesAt(q)')
      <3>1. PICK q : Handles(PaneNow, stdout, q) /\ (~ q.stray => AgreesAt(q))
        BY <1>2, <1>4, <2>1, <2>5 DEF WillAgree
      <3>2. q \in PaneStates /\ Extends(PaneNow.sent, q.sent)
        BY <1>6, <3>1, HandlesKeeps
      <3>3. Handles(PaneNow', stdout, Popped(q)) /\ q.sent # <<>> /\ q.sent[1] = Head(lines)
        BY <1>4, <1>6, <3>1, HandlesPopped
      <3>4. fnames' = fnames \union {u}
        <4>1. \A x \in fnames : x.wd = k.wd => x = u
          BY <1>0, <1>2, <2>1, <2>5 DEF KernelInv
        <4> QED
          BY <2>1, <4>1
      <3>5. k \in kernel => u \in fnames
        <4>1. k \in kernel => \E x \in fnames : x.wd = k.wd
          BY <1>2 DEF KernelInv, WatchesKept
        <4>2. \A x \in fnames : x.wd = k.wd => x = u
          BY <1>0, <1>2, <2>1, <2>5 DEF KernelInv
        <4> QED
          BY <4>1, <4>2
      <3>6. ASSUME ~ q.stray PROVE AgreesAt(Popped(q))'
        <4> DEFINE C == q.sent  O == q.open  V == q.items  R == q.prev  F == fnames  E == Coming  n == Len(batch)
                   F2 == fnames'  K2 == kernel'  K == kernel  lns == lines
        <4>1. Shapes(C, F, E, {}) /\ Agreed(V, O, R, C, F, K, E, {}, disk, n, ready, lns)
          BY <1>2, <1>4, <3>1, <3>2, <3>6, ShapesNow DEF AgreesAt
        <4>2. C # <<>> /\ C[1] = add(d) /\ 1 \in 1..Len(lns) /\ lns[1] = C[1]
          BY <1>4, <1>5, <3>3
        <4>3. \/ u \in F /\ k \in K
              \/ /\ \A x \in K : x.at # d
                 /\ \A i \in 1..Len(E) : E[i].wd # u.wd
          BY <2>2, <3>5
        <4>4. F2 = F \union {u} /\ K2 = K \union {k}
          BY <2>1, <3>4
        <4>5. d \in Names /\ k.at = d /\ k.wd = u.wd /\ u.fname = d
          BY <1>5, <2>2
        <4> HIDE DEF C, O, V, R, F, E, n, F2, K2, K, lns
        <4>6. Agreed(V, O, R, C, F2, K2, E, {d}, disk, n, ready, lns)
          BY ONLY <4>1, <4>2, <4>3, <4>4, <4>5, WatchAgrees
        <4>7. Agreed(q.items, q.open, q.prev, q.sent, fnames', kernel', Coming, listing', disk, Len(batch), ready, lines)
          BY <2>1, <4>6 DEF C, O, V, R, E, n, F2, K2, lns
        <4>8. \A e \in Names : Head(lines).fname = e => Watched(fnames', e) /\ e \in listing'
          BY <1>0, <2>1, <2>2 DEF Watched
        <4> QED
          BY <1>1, <1>3, <2>3, <2>4, <3>2, <3>3, <4>7, <4>8, CommandDone
      <3>7. Popped(q).stray = q.stray
        BY DEF Popped
      <3> QED
        BY <3>3, <3>6, <3>7
    <2>6. WillAgree'
      BY <1>4, <2>1, <2>5 DEF WillAgree
    <2> QED
      BY <1>3, <2>3, <2>4, <2>6 DEF PaneInv
  <1>9. CASE ~ IsDir(d)
    <2>1. stdout' = Append(stdout, m) /\ UNCHANGED <<kernel, fnames, listing, renamed>>
      BY <1>1, <1>9
    <2>2. d # Root /\ (d \in Paths => disk[d] # "dir")
      BY <1>9 DEF IsDir
    <2>3. KernelInv' /\ QueueOrder'
      BY <1>2, <1>4, <2>1 DEF KernelInv, QueueOrder
    <2>4. ASSUME ~ hasty, ~ renamed
          PROVE  \E q : Handles(PaneNow', stdout', q) /\ (~ q.stray => AgreesAt(q)')
      <3>1. PICK q : Handles(PaneNow, stdout, q) /\ (~ q.stray => AgreesAt(q))
        BY <1>2, <1>4, <2>4 DEF WillAgree
      <3>2. q \in PaneStates
        BY <1>6, <3>1, HandlesKeeps
      <3>10. PICK z : z = WithError(q, d)
        OBVIOUS
      <3>3. Handles(PaneNow, stdout', z)
        <4>1. After(q, m) = z
          BY <1>6, <3>10 DEF After
        <4> QED
          BY <1>6, <2>1, <3>1, <4>1, HandlesMore
      <3>4. z.stray = q.stray /\ z.sent = q.sent /\ Popped(z).stray = z.stray
        BY <3>10 DEF WithError, Popped
      <3>5. z \in PaneStates /\ Extends(PaneNow.sent, z.sent)
        BY <1>3, <3>3, HandlesKeeps DEF MonInv, QueueTypes
      <3>6. Handles(PaneNow', stdout', Popped(z)) /\ z.sent # <<>>
        BY <1>3, <1>4, <3>3, HandlesPopped DEF MonInv, QueueTypes
      <3>7. ASSUME ~ z.stray PROVE AgreesAt(Popped(z))'
        <4> DEFINE V == q.items  O == q.open  R == q.prev  C == q.sent  F == fnames  E == Coming
                   n == Len(batch)  V2 == z.items  O2 == z.open  isdir == ItemOf(q, d) = "dir"
        <4>1. /\ Shapes(C, F, E, listing) /\ TreeOf(disk)
              /\ Agreed(V, O, R, C, F, kernel, E, listing, disk, n, ready, lines)
          BY <1>2, <1>7, <3>1, <3>2, <3>4, <3>7, ShapesNow DEF AgreesAt
        <4>2. d \in Names /\ d # Root /\ (d \in Paths => disk[d] # "dir")
          BY <1>5, <2>2
        <4>3. isdir <=> d \in Paths /\ V[d] = "dir"
          BY DEF ItemOf
        <4>4. z.prev = R /\ \A x : x \in Below(d) <=> x \in Paths /\ IsPrefix(d, x) /\ x # d
          BY <3>10 DEF WithError, Below, Under
        <4>5. V2 = (IF isdir THEN [x \in Paths |-> IF IsPrefix(d, x) /\ x # d THEN "none" ELSE V[x]] ELSE V)
          BY <3>10, <4>4 DEF WithError, Cleared
        <4>6. O2 = (IF isdir THEN {g \in O : ~ (IsPrefix(d, g) /\ g # d)} ELSE O)
          <5>1. O \subseteq Paths
            BY <3>2, StateParts
          <5>2. O2 = IF isdir THEN O \ Below(d) ELSE O
            BY <3>10 DEF WithError
          <5> HIDE DEF O2, isdir
          <5> QED
            BY <4>4, <5>1, <5>2
        <4> HIDE DEF V, O, R, C, F, E, n, V2, O2, isdir
        <4>7. /\ Agreed(V2, O2, R, C, F, kernel, E, listing, disk, n, ready, lines)
              /\ d \in Open(O2) => Doomed(F, E, d)
              /\ \A x \in Paths : parent(x) = d => disk[x] = "none"
          BY ONLY <4>1, <4>2, <4>3, <4>5, <4>6, NoWatchAgrees
        <4>8. Agreed(z.items, z.open, z.prev, z.sent, fnames', kernel', Coming, listing', disk, Len(batch), ready, lines)
          BY <2>1, <3>4, <4>4, <4>7 DEF R, C, F, E, n, V2, O2
        <4>9. \A e \in Names : "add" = "add" /\ Head(lines).fname = e =>
                /\ e \in Open(z.open) => Watched(fnames', e) \/ Doomed(fnames', Coming, e)
                /\ \A x \in Paths : parent(x) = e /\ e \in Open(z.open) /\ disk[x] # "none" => e \in listing'
          <5>1. \A e : Head(lines).fname = e => e = d
            BY <1>0
          <5>2. d \in Open(z.open) => Doomed(fnames', Coming, d)
            BY <2>1, <4>7 DEF F, E, O2
          <5> QED
            BY <4>7, <5>1, <5>2
        <4>10. "add" = "remove" => \A w \in fnames' : ~ IsPrefix(Head(lines).fname, w.fname)
          OBVIOUS
        <4> QED
          BY ONLY PaneInv, <1>1, <1>3, <2>3, <3>5, <3>6, <4>8, <4>9, <4>10, CommandDone
      <3> QED
        BY <3>4, <3>6, <3>7
    <2>5. WillAgree'
      BY <1>4, <2>1, <2>4 DEF WillAgree
    <2> QED
      BY <1>3, <2>3, <2>5 DEF PaneInv
  <1> QED
    BY <1>8, <1>9

-----------------------------------------------------------------------------
(* The helper tells of an entry *)

Fits(q, F, K, E, L, G, n, rdy, lns) ==
  Agreed(q.items, q.open, q.prev, q.sent, F, K, E, L, G, n, rdy, lns)

(* What the helper has read are the first of the commands.                 *)
LEMMA LinesFirst ==
  ASSUME MonInv, NEW q \in PaneStates, Extends(PaneNow.sent, q.sent)
  PROVE  \A j \in 1..Len(lines) : j \in 1..Len(q.sent) /\ lines[j] = q.sent[j]
  <1> DEFINE c == lines \o stdin
  <1>1. lines \in Seq(PaneCommands) /\ stdin \in Seq(PaneCommands) /\ PaneNow.sent = c
    BY DEF MonInv, QueueTypes, PaneNow
  <1>2. /\ Len(c) = Len(lines) + Len(stdin) /\ Len(stdin) \in Nat /\ Len(lines) \in Nat
        /\ \A i \in 1 .. Len(lines) + Len(stdin) : c[i] = IF i <= Len(lines) THEN lines[i] ELSE stdin[i - Len(lines)]
    BY <1>1, ConcatProperties, LenProperties
  <1> HIDE DEF c
  <1>3. Len(c) <= Len(q.sent) /\ \A j \in 1..Len(c) : q.sent[j] = c[j]
    BY <1>1 DEF Extends
  <1>4. Len(q.sent) \in Nat
    BY StateParts
  <1>5. ASSUME NEW j \in 1..Len(lines) PROVE j \in 1..Len(q.sent) /\ lines[j] = q.sent[j]
    <2>1. j \in 1..Len(c) /\ j \in 1 .. Len(lines) + Len(stdin) /\ j <= Len(lines) /\ j \in 1..Len(q.sent)
      BY <1>2, <1>3, <1>4
    <2> QED
      BY <1>2, <1>3, <2>1
  <1> QED
    BY <1>5

(* addItem.                                                                *)
LEMMA ItemAgrees ==
  ASSUME NEW q \in PaneStates, NEW F, NEW K, NEW E, NEW L, NEW G, NEW n, NEW rdy, NEW lns,
         Shapes(q.sent, F, E, L), Fits(q, F, K, E, L, G, n, rdy, lns),
         NEW p, NEW k, CanPlace(q.open, q.prev, q.sent, F, E, L, G, n, rdy, lns, p, k),
         NEW z, z = WithItem(q, p, k), ~ z.stray
  PROVE  /\ Fits(z, F, K, E, L, G, n, rdy, lns)
         /\ parent(p) \in Open(z.open) => parent(p) \in Open(q.open) /\ z.items[p] = k
         /\ \A x \in Paths : ~ IsPrefix(p, x) => z.items[x] = q.items[x]
  <1> DEFINE V == q.items  O == q.open  R == q.prev  C == q.sent
             B == R \union (IF V[p] # "none" THEN {g \in O : IsPrefix(p, g)} ELSE {})
             placed == parent(p) = Root \/ V[parent(p)] = "dir"
             opened == placed /\ p \in B /\ k = "dir"
             V2 == [x \in Paths |-> IF x = p THEN IF placed THEN k ELSE "none"
                                    ELSE IF IsPrefix(p, x) THEN "none" ELSE V[x]]
             O2 == {g \in O : ~ IsPrefix(p, g)} \union (IF opened THEN {p} ELSE {})
             R2 == IF placed THEN B \ {p} ELSE B
             D == IF opened THEN Append(C, add(p)) ELSE C
  <1>0. p \in Paths
    BY DEF CanPlace
  <1>1. O \subseteq Paths /\ R \subseteq Paths /\ V = [x \in Paths |-> V[x]]
    BY StateParts
  <1>2. \A x : x \in Under(p) <=> x \in Paths /\ IsPrefix(p, x)
    BY DEF Under
  <1>3. ItemOf(q, p) = V[p]
    BY <1>0 DEF ItemOf
  <1>4. O \intersect Under(p) = {g \in O : IsPrefix(p, g)} /\ O \ Under(p) = {g \in O : ~ IsPrefix(p, g)}
    BY <1>1, <1>2
  <1>5. q.prev \union (IF ItemOf(q, p) # "none" THEN q.open \intersect Under(p) ELSE {}) = B
    BY <1>3, <1>4
  <1>6. p \in Under(p)
    BY <1>0, <1>2, PathsAbove, PathOrder
  <1>7. [Cleared(q, Under(p)) EXCEPT ![p] = IF placed THEN k ELSE "none"] = V2
    BY <1>1, <1>2 DEF Cleared
  <1>8. /\ z.items = V2 /\ z.open = O2 /\ z.prev = R2 /\ z.sent = D
        /\ z.stray = (q.stray \/ (opened /\ parent(p) \notin O \union {Root}))
    <2> HIDE DEF V2, B
    <2>1. (p \in Paths /\ (parent(p) = Root \/ q.items[parent(p)] = "dir")) <=> placed
      BY <1>0
    <2> HIDE DEF placed
    <2>2. z = [items |-> [Cleared(q, Under(p)) EXCEPT ![p] = IF placed THEN k ELSE "none"],
               open  |-> (q.open \ Under(p)) \union (IF opened THEN {p} ELSE {}),
               prev  |-> IF placed THEN B \ {p} ELSE B,
               sent  |-> IF opened THEN Append(q.sent, add(p)) ELSE q.sent,
               stray |-> q.stray \/ (opened /\ parent(p) \notin q.open \union {Root})]
      BY <1>5, <2>1, Zenon DEF WithItem
    <2> QED
      BY <1>4, <1>7, <2>2
  <1>9. opened => parent(p) \in Open(O)
    BY <1>8 DEF Open
  <1>10. Shapes(C, F, E, L) /\ Agreed(V, O, R, C, F, K, E, L, G, n, rdy, lns)
    BY DEF Fits
  <1>11. CanPlace(O, R, C, F, E, L, G, n, rdy, lns, p, k)
    OBVIOUS
  <1>12. parent(p) \in Open(O2) => parent(p) \in Open(O) /\ parent(p) # p
    <2>1. parent(p) # p
      BY <1>0, PathsAbove, AboveIs
    <2> QED
      BY <2>1 DEF Open
  <1>13. parent(p) \in Open(O) => placed
    BY <1>10 DEF Agreed, TreeKept, Open
  <1>14. Placed(V, O, R, C, p, k, B, placed, opened, V2, O2, R2, D)
    <2>1. opened => parent(p) \in Open(O)
      BY <1>9
    <2> QED
      BY <2>1 DEF Placed
  <1> HIDE DEF V, O, R, C, B, placed, opened, V2, O2, R2, D
  <1>16. Agreed(V2, O2, R2, D, F, K, E, L, G, n, rdy, lns)
    BY ONLY <1>10, <1>11, <1>14, PlacedAgrees
  <1>17. \A x \in Paths : ~ IsPrefix(p, x) => V2[x] = V[x]
    <2>1. IsPrefix(p, p)
      BY <1>0, PathsAbove, PathOrder
    <2> QED
      BY <1>14, <2>1 DEF Placed
  <1>18. placed => V2[p] = k
    BY <1>0, <1>14 DEF Placed
  <1> QED
    BY <1>8, <1>12, <1>13, <1>16, <1>17, <1>18 DEF Fits, V, O

(* A list of a set has each of its members.                                *)
LEMMA SetToSeqAll ==
  ASSUME NEW S, IsFiniteSet(S), NEW s, s = SetToSeq(S)
  PROVE  /\ Cardinality(S) \in Nat /\ s \in [1..Cardinality(S) -> S]
         /\ \A x \in S : \E i \in 1..Cardinality(S) : s[i] = x
  <1> DEFINE n == Cardinality(S)
  <1>1. n \in Nat /\ ExistsBijection(1..n, S)
    BY FS_CardinalityType
  <1>2. \E f \in [1..n -> S] : IsInjective(f)
    BY <1>1 DEF ExistsBijection, Bijection, Injection
  <1>3. s \in [1..n -> S] /\ IsInjective(s)
    BY <1>2 DEF SetToSeq
  <1>4. s \in Injection(1..n, S)
    BY <1>3 DEF Injection, IsInjective
  <1>5. IsFiniteSet(1..n) /\ Cardinality(1..n) = n
    <2> HIDE DEF n
    <2>1. 1 \in Int /\ n \in Int /\ (1 > n => n = 0) /\ n - 1 + 1 = n
      BY <1>1
    <2> QED
      BY <2>1, FS_Interval
  <1>6. s \in Surjection(1..n, S)
    BY <1>4, <1>5, FS_Injection
  <1> QED
    BY <1>1, <1>3, <1>6 DEF Surjection

(* One more message of those told.                                         *)
LEMMA OneMore ==
  ASSUME NEW S, NEW a \in Seq(S), NEW n \in Nat, NEW t \in [1..n -> S]
  PROVE  /\ a \o [i \in 1..0 |-> t[i]] = a
         /\ a \o [i \in 1..n |-> t[i]] = a \o t
         /\ \A b \in 1..n : /\ a \o [i \in 1 .. b - 1 |-> t[i]] \in Seq(S)
                            /\ a \o [i \in 1..b |-> t[i]] = Append(a \o [i \in 1 .. b - 1 |-> t[i]], t[b])
  <1> DEFINE u(b) == [i \in 1..b |-> t[i]]
  <1>1. ASSUME NEW b \in 0..n PROVE u(b) \in Seq(S) /\ Len(u(b)) = b /\ \A i \in 1..b : u(b)[i] = t[i]
    <2>1. b \in Nat /\ u(b) \in [1..b -> S]
      OBVIOUS
    <2>2. \A i \in 1..b : u(b)[i] = t[i]
      OBVIOUS
    <2>3. DOMAIN u(b) = 1..b
      OBVIOUS
    <2> HIDE DEF u
    <2>4. u(b) \in Seq(S)
      BY ONLY <2>1, SeqDef
    <2>5. Len(u(b)) = b
      BY <2>1, <2>3, <2>4, LenProperties
    <2> QED
      BY <2>2, <2>4, <2>5
  <1>2. u(n) = t
    OBVIOUS
  <1> HIDE DEF u
  <1>3. u(0) = <<>>
    BY <1>1, EmptySeq
  <1>4. a \o u(0) = a
    BY <1>3, ConcatEmptySeq
  <1>5. ASSUME NEW b \in 1..n
        PROVE  a \o u(b - 1) \in Seq(S) /\ a \o u(b) = Append(a \o u(b - 1), t[b])
    <2> DEFINE c == u(b - 1)  e == u(b)  x == a \o c  y == a \o e  g == t[b]  z == Append(x, g)
    <2>1. /\ c \in Seq(S) /\ Len(c) = b - 1 /\ \A i \in 1 .. b - 1 : c[i] = t[i]
      BY <1>1
    <2>2. /\ e \in Seq(S) /\ Len(e) = b /\ \A i \in 1..b : e[i] = t[i]
      BY <1>1
    <2> HIDE DEF c, e
    <2>3. /\ x \in Seq(S) /\ Len(x) = Len(a) + Len(c) /\ Len(a) \in Nat
          /\ \A i \in 1 .. Len(a) + Len(c) : x[i] = IF i <= Len(a) THEN a[i] ELSE c[i - Len(a)]
      BY <2>1, ConcatProperties, LenProperties
    <2>4. /\ y \in Seq(S) /\ Len(y) = Len(a) + Len(e)
          /\ \A i \in 1 .. Len(a) + Len(e) : y[i] = IF i <= Len(a) THEN a[i] ELSE e[i - Len(a)]
      BY <2>2, ConcatProperties
    <2> HIDE DEF x, y
    <2>5. g \in S /\ t[b] = g
      OBVIOUS
    <2> HIDE DEF g
    <2>6. /\ z \in Seq(S) /\ Len(z) = Len(x) + 1 /\ z[Len(x) + 1] = g
          /\ \A i \in 1..Len(x) : z[i] = x[i]
      <3>1. x \in Seq(S)
        BY <2>3
      <3> QED
        BY ONLY <2>5, <3>1, AppendProperties
    <2> HIDE DEF z
    <2>7. Len(y) = Len(z) /\ Len(z) = Len(a) + b /\ Len(x) = Len(a) + b - 1
      BY <2>1, <2>2, <2>3, <2>4, <2>6
    <2>8. ASSUME NEW i \in 1..Len(y) PROVE y[i] = z[i]
      <3>1. CASE i <= Len(a)
        <4>1. i \in 1 .. Len(a) + Len(e) /\ i \in 1 .. Len(a) + Len(c) /\ i \in 1..Len(x)
          BY <2>1, <2>2, <2>3, <2>7, <3>1
        <4> QED
          BY <2>3, <2>4, <2>6, <3>1, <4>1
      <3>2. CASE ~ (i <= Len(a)) /\ i <= Len(x)
        <4>1. /\ i \in 1 .. Len(a) + Len(e) /\ i \in 1 .. Len(a) + Len(c) /\ i \in 1..Len(x)
              /\ i - Len(a) \in 1 .. b - 1 /\ i - Len(a) \in 1..b
          BY <2>1, <2>2, <2>3, <2>7, <3>2
        <4> QED
          BY <2>1, <2>2, <2>3, <2>4, <2>6, <3>2, <4>1
      <3>3. CASE ~ (i <= Len(x))
        <4>1. /\ i = Len(x) + 1 /\ i \in 1 .. Len(a) + Len(e) /\ ~ (i <= Len(a))
              /\ i - Len(a) = b /\ b \in 1..b
          BY <2>1, <2>2, <2>3, <2>7, <3>3
        <4> QED
          BY <2>2, <2>4, <2>5, <2>6, <4>1
      <3> QED
        BY <3>1, <3>2, <3>3
    <2>9. y = z
      BY <2>4, <2>6, <2>7, <2>8, SeqEqual
    <2> QED
      BY <2>3, <2>9 DEF x, y, z, c, e, g
  <1> QED
    BY <1>2, <1>4, <1>5 DEF u

(* An entry of the directory that is listed.                               *)
LEMMA EntryListed ==
  ASSUME MonInv, QueueOrder, KernelInv, NEW d, listing = {d},
         NEW q \in PaneStates, Extends(PaneNow.sent, q.sent), AgreesAt(q),
         NEW x \in Paths, parent(x) = d, disk[x] # "none",
         NEW z, z = After(q, message("create", x, disk[x])), ~ z.stray
  PROVE  /\ AgreesAt(z)
         /\ d \in Open(z.open) => d \in Open(q.open) /\ z.items[x] # "none"
         /\ \A y \in Paths : parent(y) = d /\ y # x => z.items[y] = q.items[y]
  <1> DEFINE C == q.sent  F == fnames  E == Coming  L == listing  n == Len(batch)
  <1>1. Watched(F, d) /\ batch = <<>> /\ ~ ready /\ n = 0
    BY DEF QueueOrder
  <1>2. disk[x] \in EntryKinds
    BY DEF MonInv, DiskTree
  <1>3. z = WithItem(q, x, disk[x])
    BY DEF After, message
  <1>4. Shapes(C, F, E, L)
    BY ShapesNow
  <1>5. Fits(q, F, kernel, E, L, disk, n, ready, lines)
    BY DEF AgreesAt, Fits
  <1>6. x \in q.open => ~ Watched(F, x) /\ x \notin L
    BY <1>5 DEF Fits, Agreed, ListedBefore
  <1>7. CanPlace(q.open, q.prev, C, F, E, L, disk, n, ready, lines, x, disk[x])
    BY <1>1, <1>2, <1>6, LinesFirst DEF CanPlace
  <1> HIDE DEF F, E, L, n
  <1> DEFINE k == disk[x]
  <1>8. z = WithItem(q, x, k) /\ CanPlace(q.open, q.prev, q.sent, F, E, L, disk, n, ready, lines, x, k)
    BY <1>3, <1>7
  <1>9. Shapes(q.sent, F, E, L) /\ ~ z.stray
    BY <1>4
  <1>10. k # "none"
    OBVIOUS
  <1> HIDE DEF k
  <1>11. /\ Fits(z, F, kernel, E, L, disk, n, ready, lines)
         /\ parent(x) \in Open(z.open) => parent(x) \in Open(q.open) /\ z.items[x] = k
         /\ \A y \in Paths : ~ IsPrefix(x, y) => z.items[y] = q.items[y]
    BY ONLY q \in PaneStates, <1>5, <1>8, <1>9, ItemAgrees
  <1>12. ASSUME NEW y \in Paths, parent(y) = d, y # x PROVE ~ IsPrefix(x, y)
    BY <1>12, PathsAbove, AboveIs
  <1> QED
    BY <1>10, <1>11, <1>12 DEF AgreesAt, Fits, F, E, L, n

(* The entries of a new watch are shown before what comes next.            *)
LEMMA ListKeepsAgreed ==
  ASSUME PaneInv, List PROVE PaneInv'
  <1>1. MonInv /\ QueueOrder /\ KernelInv /\ WillAgree
    BY DEF PaneInv
  <1>2. MonInv'
    BY <1>1, ListKeepsPane
  <1>3. PICK d \in listing :
          LET items == SetToSeq({p \in Children(d) : disk[p] # "none"})
          IN  /\ alive' = IsDir(d)
              /\ stdout' = IF IsDir(d)
                           THEN stdout \o [i \in DOMAIN items |->
                                             message("create", items[i], disk[items[i]])]
                           ELSE stdout
    BY DEF List
  <1>4. /\ alive /\ link /\ listing' = {}
        /\ UNCHANGED <<disk, kernel, events, batch, fnames, ready, lines, stdin, link, renamed, hasty, stray>>
        /\ UNCHANGED <<isOpen, firstOpen, prevOpenFolders, shown, openDirs>>
    BY DEF List, Helper, kernelvars, panevars
  <1>5. listing = {d} /\ batch = <<>> /\ ~ ready
    BY <1>1, <1>3 DEF QueueOrder
  <1>6. Coming' = Coming /\ PaneNow' = PaneNow
    BY <1>4 DEF Coming, PaneNow
  <1>7. QueueOrder' /\ KernelInv'
    BY <1>1, <1>4, <1>5, <1>6 DEF QueueOrder, KernelInv
  <1>8. ASSUME alive', ~ hasty, ~ renamed
        PROVE  \E q : Handles(PaneNow, stdout', q) /\ (~ q.stray => AgreesAt(q)')
    <2>1. PICK S : S = {p \in Children(d) : disk[p] # "none"}
      OBVIOUS
    <2>2. /\ S \subseteq Paths /\ IsFiniteSet(S)
          /\ \A x : x \in S <=> x \in Paths /\ parent(x) = d /\ disk[x] # "none"
      BY <2>1, MonitorAssumption, FS_Subset DEF Children
    <2>3. PICK items, n : items = SetToSeq(S) /\ n = Cardinality(S)
      OBVIOUS
    <2>4. /\ n \in Nat /\ items \in [1..n -> S]
          /\ \A x \in S : \E i \in 1..n : items[i] = x
      BY <2>2, <2>3, SetToSeqAll
    <2>5. PICK told : told = [i \in 1..n |-> message("create", items[i], disk[items[i]])]
      OBVIOUS
    <2>6. stdout' = stdout \o told
      <3>1. DOMAIN items = 1..n
        BY <2>4
      <3> QED
        BY <1>3, <1>8, <2>1, <2>3, <2>5, <3>1
    <2>7. told \in [1..n -> HelperMessages] /\ stdout \in Seq(HelperMessages)
      <3>1. stdout \in Seq(HelperMessages)
        BY <1>1 DEF MonInv, QueueTypes
      <3>2. ASSUME NEW i \in 1..n PROVE message("create", items[i], disk[items[i]]) \in HelperMessages
        <4>1. items[i] \in Paths
          BY <2>2, <2>4
        <4>2. items[i] \in Seq(STRING) /\ disk[items[i]] \in EntryKinds
          BY <1>1, <4>1, PathIs DEF MonInv, DiskTree
        <4> QED
          BY <4>2 DEF message, HelperMessages
      <3> QED
        BY <2>5, <3>1, <3>2
    <2> DEFINE T(b) == stdout \o [i \in 1..b |-> told[i]]
               Good(b, q) == /\ Handles(PaneNow, T(b), q)
                             /\ ~ q.stray => /\ AgreesAt(q)
                                             /\ \A j \in 1..b : d \in Open(q.open) => q.items[items[j]] # "none"
    <2>8. /\ T(0) = stdout /\ T(n) = stdout'
          /\ \A b \in 1..n : T(b - 1) \in Seq(HelperMessages) /\ T(b) = Append(T(b - 1), told[b])
      <3>1. n \in Nat
        BY <2>4
      <3>2. /\ stdout \o [i \in 1..0 |-> told[i]] = stdout
            /\ stdout \o [i \in 1..n |-> told[i]] = stdout \o told
            /\ \A b \in 1..n : /\ stdout \o [i \in 1 .. b - 1 |-> told[i]] \in Seq(HelperMessages)
                               /\ stdout \o [i \in 1..b |-> told[i]]
                                    = Append(stdout \o [i \in 1 .. b - 1 |-> told[i]], told[b])
        BY ONLY <2>7, <3>1, OneMore
      <3> QED
        BY <2>6, <3>2
    <2> HIDE DEF T
    <2>9. \E q : Good(0, q)
      <3>1. PICK q : Handles(PaneNow, stdout, q) /\ (~ q.stray => AgreesAt(q))
        BY <1>1, <1>4, <1>8 DEF WillAgree
      <3> QED
        BY <2>8, <3>1
    <2>10. ASSUME NEW b \in 1..n, NEW q, Good(b - 1, q) PROVE \E z : Good(b, z)
      <3>1. PICK m, x : x = items[b] /\ m = message("create", x, disk[x])
        OBVIOUS
      <3>2. x \in Paths /\ parent(x) = d /\ disk[x] # "none" /\ told[b] = m /\ m \in HelperMessages
        BY <2>2, <2>4, <2>5, <2>7, <3>1
      <3>3. PICK z : z = After(q, m)
        OBVIOUS
      <3>4. T(b - 1) \in Seq(HelperMessages) /\ T(b) = Append(T(b - 1), m) /\ Handles(PaneNow, T(b - 1), q)
        BY <2>8, <2>10, <3>2
      <3>5. Handles(PaneNow, T(b), z)
        BY <3>2, <3>3, <3>4, HandlesMore
      <3>6. /\ q \in PaneStates /\ Extends(PaneNow.sent, q.sent)
            /\ q.stray => z.stray
        BY <3>2, <3>3, <3>4, HandlesKeeps, AfterTypes
      <3>7. ASSUME ~ z.stray
            PROVE  /\ AgreesAt(z)
                   /\ \A j \in 1..b : d \in Open(z.open) => z.items[items[j]] # "none"
        <4>1. AgreesAt(q) /\ \A j \in 1 .. b - 1 : d \in Open(q.open) => q.items[items[j]] # "none"
          BY <2>10, <3>6, <3>7
        <4>2. z = After(q, message("create", x, disk[x]))
          BY <3>1, <3>3
        <4>3. /\ AgreesAt(z)
              /\ d \in Open(z.open) => d \in Open(q.open) /\ z.items[x] # "none"
              /\ \A y \in Paths : parent(y) = d /\ y # x => z.items[y] = q.items[y]
          BY ONLY <1>1, <1>5, <3>2, <3>6, <3>7, <4>1, <4>2, EntryListed
        <4>4. ASSUME NEW j \in 1..b, d \in Open(z.open) PROVE z.items[items[j]] # "none"
          <5>1. j = b \/ j \in 1 .. b - 1
            BY <2>4
          <5>2. items[j] \in Paths /\ parent(items[j]) = d
            BY <2>2, <2>4
          <5> QED
            BY <3>1, <4>1, <4>3, <4>4, <5>1, <5>2
        <4> QED
          BY <4>3, <4>4
      <3> QED
        BY <3>5, <3>7
    <2>11. \E q : Good(n, q)
      <3> HIDE DEF Good
      <3> SUFFICES ASSUME \A q : ~ Good(n, q) PROVE FALSE
        OBVIOUS
      <3> DEFINE B == {b \in 0..n : \A q : ~ Good(b, q)}
      <3>1. B \subseteq Nat /\ n \in B
        BY <2>4
      <3>2. PICK b \in B : \A c \in B : b <= c
        BY <3>1, HasLeast
      <3>3. b \in 0..n /\ \A q : ~ Good(b, q)
        BY <3>2
      <3>4. b # 0
        BY <2>9, <3>3
      <3>5. b \in 1..n /\ b - 1 \in 0..n /\ ~ (b <= b - 1)
        BY <2>4, <3>3, <3>4
      <3>6. b - 1 \notin B
        BY <3>2, <3>5
      <3>7. PICK q : Good(b - 1, q)
        BY <3>5, <3>6
      <3> QED
        BY <2>10, <3>3, <3>5, <3>7
    <2>12. PICK q : Good(n, q)
      BY <2>11
    <2>13. Handles(PaneNow, stdout', q)
      BY <2>8, <2>12
    <2>14. ASSUME ~ q.stray PROVE AgreesAt(q)'
      <3>1. Agreed(q.items, q.open, q.prev, q.sent, fnames, kernel, Coming, listing, disk, Len(batch), ready, lines)
        BY <2>12, <2>14 DEF AgreesAt
      <3>2. \A x \in Paths : parent(x) \in listing /\ parent(x) \in Open(q.open) /\ disk[x] # "none" =>
              q.items[x] # "none"
        <4> SUFFICES ASSUME NEW x \in Paths, parent(x) \in listing, parent(x) \in Open(q.open), disk[x] # "none"
                     PROVE  q.items[x] # "none"
          OBVIOUS
        <4>1. parent(x) = d
          BY <1>5
        <4>2. PICK j \in 1..n : items[j] = x
          BY <2>2, <2>4, <4>1
        <4> QED
          BY <2>12, <2>14, <4>1, <4>2
      <3> DEFINE V == q.items  O == q.open  R == q.prev  C == q.sent  m == Len(batch)
      <3>3. /\ Agreed(V, O, R, C, fnames, kernel, Coming, listing, disk, m, ready, lines)
            /\ \A x \in Paths : parent(x) \in listing /\ parent(x) \in Open(O) /\ disk[x] # "none" => V[x] # "none"
        BY <3>1, <3>2
      <3> HIDE DEF V, O, R, C, m
      <3>4. Agreed(V, O, R, C, fnames, kernel, Coming, {}, disk, m, ready, lines)
        BY ONLY <3>3, ListedAgrees
      <3> QED
        BY <1>4, <1>6, <3>4 DEF AgreesAt, V, O, R, C, m
    <2> QED
      BY <2>13, <2>14
  <1>9. WillAgree'
    BY <1>4, <1>6, <1>8 DEF WillAgree
  <1> QED
    BY <1>2, <1>7, <1>9 DEF PaneInv

-----------------------------------------------------------------------------
(* The helper handles an event *)

(* removeItem.                                                             *)
LEMMA ItemClosed ==
  ASSUME NEW q \in PaneStates, NEW F, NEW K, NEW E, NEW L, NEW G, NEW n, NEW rdy, NEW lns,
         Shapes(q.sent, F, E, L), Fits(q, F, K, E, L, G, n, rdy, lns),
         NEW p \in Names, p # Root,
         p \in Paths /\ parent(p) \in Open(q.open) /\ G[p] # "none" =>
           Doomed(F, E, p) \/ \E i \in 1..Len(E) : Tells(F, E, i, Came, p),
         NEW z, z = WithoutItem(q, p)
  PROVE  /\ Fits(z, F, K, E, L, G, n, rdy, lns) /\ Shapes(z.sent, F, E, L)
         /\ z.open \subseteq q.open
         /\ \A g \in z.open : ~ IsPrefix(p, g)
         /\ \A x \in Paths : IsPrefix(p, x) => z.items[x] = "none"
         /\ Len(z.sent) \in Nat \ {0} /\ z.sent[Len(z.sent)] = remove(p)
  <1> DEFINE V == q.items  O == q.open  R == q.prev  C == q.sent
             V2 == [x \in Paths |-> IF IsPrefix(p, x) THEN "none" ELSE V[x]]
             O2 == {g \in O : ~ IsPrefix(p, g)}
             D == Append(C, remove(p))
  <1>1. O \subseteq Paths /\ V = [x \in Paths |-> V[x]] /\ C \in Seq(PaneCommands)
    BY StateParts
  <1>2. \A x : x \in Under(p) <=> x \in Paths /\ IsPrefix(p, x)
    BY DEF Under
  <1>3. z.items = V2 /\ z.open = O2 /\ z.prev = R /\ z.sent = D
    <2>1. Cleared(q, Under(p)) = V2
      BY <1>2 DEF Cleared
    <2>2. O \ Under(p) = O2
      BY <1>1, <1>2
    <2> HIDE DEF V2, O2
    <2> QED
      BY <2>1, <2>2 DEF WithoutItem
  <1>4. remove(p) \in PaneCommands
    BY CommandsSent DEF Names
  <1>5. D \in Seq(PaneCommands) /\ Len(C) \in Nat /\ Len(D) = Len(C) + 1 /\ D[Len(D)] = remove(p)
    BY <1>1, <1>4, CommandSent
  <1>6. Shapes(C, F, E, L) /\ Agreed(V, O, R, C, F, K, E, L, G, n, rdy, lns)
    BY DEF Fits
  <1>7. p \in Paths /\ parent(p) \in Open(O) /\ G[p] # "none" =>
          Doomed(F, E, p) \/ \E i \in 1..Len(E) : Tells(F, E, i, Came, p)
    OBVIOUS
  <1>8. /\ V2 = [x \in Paths |-> IF IsPrefix(p, x) THEN "none" ELSE V[x]]
        /\ O2 = {g \in O : ~ IsPrefix(p, g)} /\ D = Append(C, remove(p))
    OBVIOUS
  <1> HIDE DEF V, O, R, C, V2, O2, D
  <1>9. Agreed(V2, O2, R, D, F, K, E, L, G, n, rdy, lns)
    BY ONLY p \in Names, p # Root, <1>6, <1>7, <1>8, ClosedAgrees
  <1>10. Shapes(D, F, E, L)
    BY <1>5, <1>6 DEF Shapes
  <1> QED
    BY <1>3, <1>5, <1>8, <1>9, <1>10 DEF Fits, O

(* The event has been handled.                                             *)
LEMMA EventDone ==
  ASSUME NEW q, NEW F, NEW K, NEW E, NEW L, NEW G, NEW n \in Int, NEW rdy, NEW lns,
         Shapes(q.sent, F, E, L), Fits(q, F, K, E, L, G, n, rdy, lns),
         Heard(q.items, q.open, q.sent, F, E, G),
         NEW D, Follows(D, E), NEW m, m = n - 1
  PROVE  Fits(q, F, K, D, L, G, m, rdy, lns)
  <1> DEFINE V == q.items  O == q.open  R == q.prev  C == q.sent
  <1>1. /\ Shapes(C, F, E, L) /\ Agreed(V, O, R, C, F, K, E, L, G, n, rdy, lns) /\ Heard(V, O, C, F, E, G)
        /\ n \in Int /\ Follows(D, E) /\ m = n - 1
    BY DEF Fits
  <1> HIDE DEF V, O, R, C
  <1>2. Agreed(V, O, R, C, F, K, D, L, G, m, rdy, lns)
    BY ONLY <1>1, HandledAgrees
  <1> QED
    BY <1>2 DEF Fits, V, O, R, C

(* The only watch with the descriptor of the event.                        *)
LEMMA FirstIs ==
  ASSUME NEW C, NEW F, NEW E, NEW L, Shapes(C, F, E, L), 1 \in 1..Len(E),
         NEW w \in F, w.wd = E[1].wd, NEW p, p = PathOf(w, E[1])
  PROVE  /\ \A v \in F : v.wd = E[1].wd => v = w
         /\ \A M, x : Tells(F, E, 1, M, x) => E[1].mask \in M /\ x = p
         /\ \A x : Dooms(F, E, 1, x) => E[1].mask \in Gone /\ IsPrefix(p, x)
         /\ \A M : E[1].mask \in M => Tells(F, E, 1, M, p)
         /\ p \in Names /\ w.fname \in Names
         /\ E[1].mask \in Left => p = w.fname
         /\ E[1].mask \notin Left => p # Root /\ parent(p) = w.fname
  <1>1. \A v \in F : v.wd = E[1].wd => v = w
    BY DEF Shapes
  <1>2. w.fname \in Names
    BY DEF Shapes
  <1>3. E[1].mask \in Left => p = w.fname
    <2>1. E[1].mask \in Left => E[1].name = <<>>
      BY DEF Shapes, Left, Gone, Came
    <2> QED
      BY <1>2, <2>1, ConcatEmptySeq DEF PathOf, Names
  <1>4. E[1].mask \notin Left => p \in Names /\ p # Root /\ parent(p) = w.fname
    BY EntryOf
  <1> QED
    BY <1>1, <1>2, <1>3, <1>4 DEF Tells, Dooms

(* An event for a watch that is not known.                                 *)
LEMMA UnknownHeard ==
  ASSUME NEW V, NEW O, NEW C, NEW F, NEW E, NEW G, Len(E) > 0, \A w \in F : w.wd # E[1].wd
  PROVE  Heard(V, O, C, F, E, G)
  <1>1. (\A M, x : ~ Tells(F, E, 1, M, x)) /\ (\A x : ~ Dooms(F, E, 1, x))
    BY DEF Tells, Dooms
  <1> QED
    BY <1>1 DEF Heard

(* "delete" for an entry.                                                  *)
LEMMA EntryGone ==
  ASSUME NEW q \in PaneStates, NEW F, NEW K, NEW E, NEW G, NEW n, NEW rdy, NEW lns,
         Shapes(q.sent, F, E, {}), Fits(q, F, K, E, {}, G, n, rdy, lns), EventsTrue(K, E, G),
         1 \in 1..Len(E), NEW w \in F, w.wd = E[1].wd, E[1].mask \in Gone,
         NEW p, p = PathOf(w, E[1]), NEW z, z = WithoutItem(q, p)
  PROVE  Fits(z, F, K, E, {}, G, n, rdy, lns) /\ Shapes(z.sent, F, E, {}) /\ Heard(z.items, z.open, z.sent, F, E, G)
  <1> DEFINE d == w.fname
  <1>1. E[1].mask \notin Left /\ E[1].mask \notin Came /\ E[1].mask \notin Came \union {"ATTRIB"}
    BY DEF Gone, Left, Came
  <1>2. /\ \A M, x : Tells(F, E, 1, M, x) => E[1].mask \in M /\ x = p
        /\ \A x : Dooms(F, E, 1, x) => IsPrefix(p, x)
        /\ p \in Names /\ d \in Names /\ p # Root /\ parent(p) = d
    <2> HIDE DEF d
    <2>1. /\ \A M, x : Tells(F, E, 1, M, x) => E[1].mask \in M /\ x = p
          /\ \A x : Dooms(F, E, 1, x) => E[1].mask \in Gone /\ IsPrefix(p, x)
          /\ p \in Names /\ w.fname \in Names
          /\ E[1].mask \notin Left => p # Root /\ parent(p) = w.fname
      BY FirstIs
    <2> QED
      BY <1>1, <2>1 DEF d
  <1>3. Dooms(F, E, 1, p)
    BY <1>2, PathOrder DEF Dooms
  <1>4. Doomed(F, E, p)
    BY <1>3 DEF Doomed
  <1>5. /\ Fits(z, F, K, E, {}, G, n, rdy, lns) /\ Shapes(z.sent, F, E, {})
        /\ z.open \subseteq q.open
        /\ \A g \in z.open : ~ IsPrefix(p, g)
        /\ \A x \in Paths : IsPrefix(p, x) => z.items[x] = "none"
        /\ Len(z.sent) \in Nat \ {0} /\ z.sent[Len(z.sent)] = remove(p)
    <2>1. p \in Names /\ p # Root /\ Shapes(q.sent, F, E, {}) /\ Fits(q, F, K, E, {}, G, n, rdy, lns)
      BY <1>2
    <2>2. p \in Paths /\ parent(p) \in Open(q.open) /\ G[p] # "none" =>
            Doomed(F, E, p) \/ \E i \in 1..Len(E) : Tells(F, E, i, Came, p)
      BY <1>4
    <2> QED
      BY ONLY q \in PaneStates, z = WithoutItem(q, p), <2>1, <2>2, ItemClosed
  <1>6. ASSUME NEW x \in Names, Dooms(F, E, 1, x)
        PROVE  /\ x \notin z.open
               /\ Len(z.sent) > 0 /\ z.sent[Len(z.sent)].op = "remove" /\ IsPrefix(z.sent[Len(z.sent)].fname, x)
               /\ x \in Paths => z.items[x] = "none"
    BY <1>2, <1>5, <1>6 DEF remove
  <1>7. ASSUME NEW x \in Paths, Dooms(F, E, 1, x), parent(x) \in Open(z.open), G[x] # "none"
        PROVE  \E j \in 1..Len(E) : j > 1 /\ (Dooms(F, E, j, x) \/ Tells(F, E, j, Came, x))
    <2>1. x \in Names /\ x # Root /\ IsPrefix(p, x)
      BY <1>2, <1>7, PathsAbove
    <2>2. ~ IsPrefix(p, parent(x))
      BY <1>2, <1>5, <1>7, PathOrder DEF Open
    <2>3. x = p
      BY <1>2, <2>1, <2>2, AboveIs
    <2>4. d \in Open(z.open)
      BY <1>2, <1>7, <2>3
    <2>5. Live(K, w) \/ Doomed(F, E, d)
      <3> DEFINE V == z.items  O == z.open  R == z.prev  C == z.sent
      <3>1. Shapes(C, F, E, {}) /\ Agreed(V, O, R, C, F, K, E, {}, G, n, rdy, lns) /\ w.fname \in Open(O) /\ w \in F
        BY <1>5, <2>4 DEF Fits
      <3> HIDE DEF V, O, R, C
      <3> QED
        BY ONLY <3>1, LiveOrDoomed
    <2>6. CASE Live(K, w)
      <3>1. PICK k \in K : k.wd = w.wd /\ k.at = d
        BY <2>6 DEF Live
      <3>2. At(k, E[1]) = p
        BY <3>1 DEF At, PathOf
      <3>3. Later(E, 1, Came)
        BY <1>7, <2>3, <3>1, <3>2 DEF EventsTrue, There
      <3>4. PICK j \in 1..Len(E) : j > 1 /\ E[j].mask \in Came /\ E[j].wd = E[1].wd /\ E[j].name = E[1].name
        BY <3>3 DEF Later
      <3>5. Tells(F, E, j, Came, p)
        BY <3>4 DEF Tells, PathOf
      <3> QED
        BY <2>3, <3>4, <3>5
    <2>7. CASE Doomed(F, E, d)
      <3>1. PICK j \in 1..Len(E) : Dooms(F, E, j, d)
        BY <2>7 DEF Doomed
      <3>2. j # 1
        BY <1>2, <3>1, AboveIs
      <3>3. Dooms(F, E, j, p)
        BY <1>2, <3>1, DoomIs, AboveIs
      <3>4. j > 1
        BY <3>1, <3>2
      <3> QED
        BY <2>3, <3>3, <3>4
    <2> QED
      BY <2>5, <2>6, <2>7
  <1>8. Len(E) > 0
    <2>1. Len(E) \in Nat
      BY DEF Shapes
    <2> QED
      BY <2>1
  <1>9. \A M, x : M = Came \/ M = Came \union {"ATTRIB"} => ~ Tells(F, E, 1, M, x)
    BY <1>1, <1>2
  <1>10. Heard(z.items, z.open, z.sent, F, E, G)
    BY <1>1, <1>6, <1>7, <1>8, <1>9 DEF Heard
  <1> QED
    BY <1>5, <1>10

(* "create" for an entry.                                                  *)
LEMMA EntryCame ==
  ASSUME NEW q \in PaneStates, NEW F, NEW K, NEW E, NEW G, NEW n \in Nat \ {0}, NEW rdy,
         Shapes(q.sent, F, E, {}), Fits(q, F, K, E, {}, G, n, rdy, <<>>), EventsTrue(K, E, G),
         1 \in 1..Len(E), NEW w \in F, w.wd = E[1].wd, E[1].mask \in Came,
         NEW p, p = PathOf(w, E[1]),
         NEW k \in EntryKinds \union {"unknown"}, k # "none", p \in Paths /\ G[p] # "none" => k = G[p],
         NEW z, z = WithItem(q, p, k), ~ z.stray, Shapes(z.sent, F, E, {})
  PROVE  Fits(z, F, K, E, {}, G, n, rdy, <<>>) /\ Heard(z.items, z.open, z.sent, F, E, G)
  <1> DEFINE d == w.fname
  <1>1. E[1].mask \notin Left /\ E[1].mask \notin Gone
    BY DEF Gone, Left, Came
  <1>2. /\ \A M, x : Tells(F, E, 1, M, x) => x = p
        /\ \A x : ~ Dooms(F, E, 1, x)
        /\ Tells(F, E, 1, Came, p)
        /\ p \in Names /\ d \in Names /\ p # Root /\ parent(p) = d
        /\ \A v \in F : v.wd = E[1].wd => v = w
    <2> HIDE DEF d
    <2>1. /\ \A v \in F : v.wd = E[1].wd => v = w
          /\ \A M, x : Tells(F, E, 1, M, x) => E[1].mask \in M /\ x = p
          /\ \A x : Dooms(F, E, 1, x) => E[1].mask \in Gone /\ IsPrefix(p, x)
          /\ \A M : E[1].mask \in M => Tells(F, E, 1, M, p)
          /\ p \in Names /\ w.fname \in Names
          /\ E[1].mask \notin Left => p # Root /\ parent(p) = w.fname
      BY FirstIs
    <2> QED
      BY <1>1, <2>1 DEF d
  <1>3. /\ Len(E) \in Nat /\ Len(E) > 0
        /\ E[1].name \in Names /\ Len(E[1].name) = 1
    BY <1>1 DEF Shapes, Left, Came, Gone
  <1>4. CASE p \notin Paths
    <2>1. \A x : x \notin Under(p)
      BY <1>2, <1>4, PathsAbove DEF Under
    <2>2. /\ q.items = [x \in Paths |-> q.items[x]]
          /\ q = [items |-> q.items, open |-> q.open, prev |-> q.prev, sent |-> q.sent, stray |-> q.stray]
          /\ q.stray \in BOOLEAN
      BY StateParts
    <2>3. [Cleared(q, Under(p)) EXCEPT ![p] = "none"] = q.items
      BY <1>4, <2>1, <2>2 DEF Cleared
    <2>4. z.items = q.items /\ z.open = q.open /\ z.prev = q.prev /\ z.sent = q.sent
      <3>1. z = [items |-> [Cleared(q, Under(p)) EXCEPT ![p] = "none"],
                 open  |-> (q.open \ Under(p)) \union {}, prev |-> q.prev, sent |-> q.sent,
                 stray |-> q.stray \/ FALSE]
        <4>1. ItemOf(q, p) = "none"
          BY <1>4 DEF ItemOf
        <4>2. q.prev \union {} = q.prev
          OBVIOUS
        <4> QED
          BY <1>4, <4>1, <4>2 DEF WithItem
      <3>2. (q.open \ Under(p)) \union {} = q.open
        BY <2>1
      <3> QED
        BY <2>3, <3>1, <3>2
    <2>5. Fits(z, F, K, E, {}, G, n, rdy, <<>>)
      BY <2>4 DEF Fits
    <2>6. \A M : \A x \in Paths : ~ Tells(F, E, 1, M, x)
      BY <1>2, <1>4
    <2>7. Heard(z.items, z.open, z.sent, F, E, G)
      BY <1>1, <1>2, <1>3, <2>6 DEF Heard
    <2> QED
      BY <2>5, <2>7
  <1>5. CASE p \in Paths
    <2> DEFINE O == q.open  V == q.items  R == q.prev  C == q.sent
    <2>1. Agreed(V, O, R, C, F, K, E, {}, G, n, rdy, <<>>) /\ Shapes(C, F, E, {})
      BY DEF Fits
    <2> HIDE DEF O, V, R, C
    <2>2. d \in Open(O) => Live(K, w) \/ Doomed(F, E, d)
      <3>1. w \in F
        OBVIOUS
      <3> QED
        BY ONLY <2>1, <3>1, LiveOrDoomed DEF d
    <2>3. \A i \in 1..Len(E) : Dooms(F, E, i, d) => Dooms(F, E, i, p)
      BY <1>2, <2>1, DoomIs, AboveIs
    <2>4. d \in Open(O) => k = G[p] \/ Doomed(F, E, p)
      <3> SUFFICES ASSUME d \in Open(O), G[p] = "none" PROVE Doomed(F, E, p)
        BY <1>5
      <3>1. CASE Live(K, w)
        <4>1. PICK x \in K : x.wd = w.wd /\ x.at = d
          BY <3>1 DEF Live
        <4>2. At(x, E[1]) = p
          BY <4>1 DEF At, PathOf
        <4>3. Later(E, 1, Gone)
          BY <4>1, <4>2 DEF EventsTrue, There
        <4>4. PICK j \in 1..Len(E) : j > 1 /\ E[j].mask \in Gone /\ E[j].wd = E[1].wd /\ E[j].name = E[1].name
          BY <4>3 DEF Later
        <4>5. PathOf(w, E[j]) = p
          BY <4>4 DEF PathOf
        <4>6. Dooms(F, E, j, p)
          BY <1>2, <4>4, <4>5, PathOrder DEF Dooms
        <4> QED
          BY <4>6 DEF Doomed
      <3>2. CASE Doomed(F, E, d)
        BY <2>3, <3>2 DEF Doomed
      <3> QED
        BY <2>2, <3>1, <3>2
    <2>5. p \in O => ~ Watched(F, p) /\ p \notin {}
      <3>1. \A j \in 1..Len(E) : ~ (j < 1)
        BY <1>3
      <3> QED
        BY <1>2, <2>1, <3>1 DEF Agreed, CreatedBefore
    <2>6. ASSUME d \in Open(O), NEW i \in 1..Len(E), Tells(F, E, i, Came, p)
          PROVE  (i > n => ~ rdy) \/ \E j \in 1..Len(E) : j < i /\ Dooms(F, E, j, p)
      <3> SUFFICES ASSUME i > 1 PROVE \E j \in 1..Len(E) : j < i /\ Dooms(F, E, j, p)
        OBVIOUS
      <3>1. PICK v \in F : v.wd = E[i].wd /\ p = PathOf(v, E[i]) /\ E[i].mask \in Came
        BY <2>6 DEF Tells
      <3>2. E[i].mask \notin Left
        BY <3>1 DEF Came, Left
      <3>3. v.fname = d
        BY <1>2, <2>1, <3>1, <3>2, EntryOf
      <3>4. CASE v = w
        <4>1. E[i].name \in Names /\ Len(E[i].name) = 1
          BY <2>1, <3>2 DEF Shapes
        <4>2. E[i].name = E[1].name
          <5>1. PICK x, y : /\ x = E[i].name /\ y = E[1].name /\ x \in Names /\ Len(x) = 1
                            /\ y \in Names /\ Len(y) = 1
            BY <1>3, <4>1
          <5>2. d \o x = d \o y /\ d \in Names
            BY <1>2, <3>1, <3>4, <5>1 DEF PathOf
          <5>3. x = y
            BY ONLY <5>1, <5>2, ChildIs
          <5> QED
            BY <5>1, <5>3
        <4>3. PICK l \in 1..Len(E) : /\ 1 < l /\ l < i /\ E[l].mask \in Gone
                                     /\ E[l].wd = E[1].wd /\ E[l].name = E[1].name
          <5>1. E[i].wd = E[1].wd /\ 1 < i
            BY <3>1, <3>4
          <5> QED
            BY <3>1, <4>2, <5>1 DEF EventsTrue
        <4>4. PathOf(w, E[l]) = p
          BY <4>3 DEF PathOf
        <4>5. Dooms(F, E, l, p)
          BY <1>2, <4>3, <4>4, PathOrder DEF Dooms
        <4> QED
          BY <4>3, <4>5
      <3>5. CASE v # w
        <4>1. PICK j \in 1..Len(E) : /\ Dooms(F, E, j, d)
                                     /\ \/ \A x \in 1..Len(E) : E[x].wd = v.wd => j < x
                                        \/ \A x \in 1..Len(E) : E[x].wd = w.wd => j < x
          BY <2>1, <2>6, <3>3, <3>5 DEF Agreed, TwinsDoomed
        <4>2. ~ (j < 1)
          OBVIOUS
        <4>3. j < i
          BY <3>1, <4>1, <4>2
        <4> QED
          BY <2>3, <4>1, <4>3
      <3> QED
        BY <3>4, <3>5
    <2>7. CanPlace(O, R, C, F, E, {}, G, n, rdy, <<>>, p, k)
      <3>1. Watched(F, d)
        BY DEF Watched
      <3>2. \A j \in 1..Len(<<>>) : FALSE
        OBVIOUS
      <3> QED
        BY <1>2, <1>5, <2>4, <2>5, <2>6, <3>1, <3>2 DEF CanPlace
    <2>8. CanPlace(q.open, q.prev, q.sent, F, E, {}, G, n, rdy, <<>>, p, k)
      BY <2>7 DEF O, R, C
    <2> DEFINE lns == <<>>  L == {}
    <2>9. /\ Shapes(q.sent, F, E, L) /\ Fits(q, F, K, E, L, G, n, rdy, lns)
          /\ CanPlace(q.open, q.prev, q.sent, F, E, L, G, n, rdy, lns, p, k)
          /\ z = WithItem(q, p, k) /\ ~ z.stray
      BY <2>8
    <2> HIDE DEF lns, L
    <2>10. /\ Fits(z, F, K, E, L, G, n, rdy, lns)
           /\ parent(p) \in Open(z.open) => parent(p) \in Open(q.open) /\ z.items[p] = k
           /\ \A x \in Paths : ~ IsPrefix(p, x) => z.items[x] = q.items[x]
      BY ONLY q \in PaneStates, <2>9, ItemAgrees
    <2>11. Heard(z.items, z.open, z.sent, F, E, G)
      <3>1. d \in Open(z.open) => z.items[p] = k
        BY <1>2, <2>10
      <3>2. \A x \in Paths : \A M : Tells(F, E, 1, M, x) /\ parent(x) \in Open(z.open) =>
              /\ z.items[x] # "none"
              /\ z.items[x] \in Plain /\ G[x] \in Plain => z.items[x] = G[x]
        <4>1. G[p] \in Plain => G[p] # "none"
          BY DEF Plain
        <4> QED
          BY <1>2, <1>5, <3>1, <4>1
      <3> QED
        BY <1>1, <1>2, <1>3, <3>2 DEF Heard
    <2> QED
      BY <2>10, <2>11 DEF lns, L
  <1> QED
    BY <1>4, <1>5

(* "update" for an entry.                                                  *)
LEMMA EntryChanged ==
  ASSUME NEW q \in PaneStates, NEW F, NEW K, NEW E, NEW L, NEW G, NEW n, NEW rdy, NEW lns,
         Shapes(q.sent, F, E, L), Fits(q, F, K, E, L, G, n, rdy, lns),
         1 \in 1..Len(E), NEW w \in F, w.wd = E[1].wd, E[1].mask = "ATTRIB",
         NEW p, p = PathOf(w, E[1]), NEW k, p \in Paths /\ G[p] # "none" => k = G[p],
         NEW z, z = WithMode(q, p, k)
  PROVE  Fits(z, F, K, E, L, G, n, rdy, lns) /\ Shapes(z.sent, F, E, L) /\ Heard(z.items, z.open, z.sent, F, E, G)
  <1> DEFINE V == q.items  O == q.open  R == q.prev  C == q.sent
             plain == ItemOf(q, p) \in Plain
             m == IF k \in {"exec", "dir"} THEN "exec" ELSE "file"
             V2 == IF plain THEN [V EXCEPT ![p] = m] ELSE V
  <1>1. E[1].mask \notin Left /\ E[1].mask \notin Gone
    BY DEF Gone, Left
  <1>2. /\ \A M, x : Tells(F, E, 1, M, x) => E[1].mask \in M /\ x = p
        /\ \A x : ~ Dooms(F, E, 1, x)
        /\ Tells(F, E, 1, {"ATTRIB"}, p)
    <2>1. /\ \A M, x : Tells(F, E, 1, M, x) => E[1].mask \in M /\ x = p
          /\ \A x : Dooms(F, E, 1, x) => E[1].mask \in Gone /\ IsPrefix(p, x)
          /\ \A M : E[1].mask \in M => Tells(F, E, 1, M, p)
      BY FirstIs
    <2> QED
      BY <1>1, <2>1
  <1>3. z.items = V2 /\ z.open = O /\ z.prev = R /\ z.sent = C
    BY DEF WithMode, Plain
  <1>4. Shapes(C, F, E, L) /\ Agreed(V, O, R, C, F, K, E, L, G, n, rdy, lns)
    BY DEF Fits
  <1>5. plain => p \in Paths /\ V[p] \in Plain
    BY DEF ItemOf, Plain
  <1>6. ~ plain /\ p \in Paths => V[p] \notin Plain
    BY DEF ItemOf
  <1>7. Len(E) \in Nat /\ Len(E) > 0 /\ m \in Plain
    BY DEF Shapes, Plain
  <1>8. \A x \in Paths : V[x] = V[x] /\ V = [y \in Paths |-> V[y]]
    BY StateParts
  <1>9. plain => V2 = [V EXCEPT ![p] = m]
    OBVIOUS
  <1>10. ~ plain => V2 = V
    OBVIOUS
  <1>11. G[p] \in Plain /\ p \in Paths => m = G[p]
    BY DEF Plain
  <1> HIDE DEF V, O, R, C, plain, m, V2
  <1>12. Agreed(V2, O, R, C, F, K, E, L, G, n, rdy, lns)
    <2>1. ASSUME plain PROVE Agreed(V2, O, R, C, F, K, E, L, G, n, rdy, lns)
      <3>1. p \in Paths /\ V[p] \in Plain /\ V2 = [V EXCEPT ![p] = m]
        BY <1>5, <1>9, <2>1
      <3>2. 1 \in 1..Len(E) /\ m \in Plain
        BY <1>7
      <3> QED
        BY ONLY <1>2, <1>4, <3>1, <3>2, ModeAgrees
    <2> QED
      BY <1>4, <1>10, <2>1
  <1>13. p \in Paths => (V2[p] \in Plain /\ G[p] \in Plain => V2[p] = G[p])
    <2>1. plain /\ p \in Paths => V2[p] = m
      BY <1>8, <1>9
    <2> QED
      BY <1>6, <1>10, <1>11, <2>1
  <1>14. \A M, x : M = Came => ~ Tells(F, E, 1, M, x)
    BY <1>2 DEF Came
  <1>15. Heard(V2, O, C, F, E, G)
    BY <1>1, <1>2, <1>7, <1>13, <1>14 DEF Heard
  <1> QED
    BY <1>3, <1>4, <1>12, <1>15 DEF Fits

(* "delete" for a directory that is watched, which is then forgotten.      *)
WatchesGone(p, F, K, F2, K2) ==
  /\ F2 = {v \in F : ~ IsPrefix(p, v.fname)} /\ K2 \subseteq K
  /\ \A k \in K : k \in K2 \/ \E v \in F : v.wd = k.wd /\ IsPrefix(p, v.fname)

(* A directory that left is removed from the pane with all its watches.    *)
LEMMA SelfLeft ==
  ASSUME NEW q \in PaneStates, NEW F, NEW K, NEW E, NEW G, NEW n, NEW rdy, NEW lns,
         Shapes(q.sent, F, E, {}), Fits(q, F, K, E, {}, G, n, rdy, lns),
         1 \in 1..Len(E), NEW w \in F, w.wd = E[1].wd, E[1].mask \in Left,
         NEW p, p = PathOf(w, E[1]), p # Root, NEW z, z = WithoutItem(q, p),
         NEW F2, NEW K2, WatchesGone(p, F, K, F2, K2)
  PROVE  Fits(z, F2, K2, E, {}, G, n, rdy, lns) /\ Shapes(z.sent, F2, E, {}) /\ Heard(z.items, z.open, z.sent, F2, E, G)
  <1>1. /\ \A v \in F : v.wd = E[1].wd => v = w
        /\ p \in Names /\ p = w.fname
    BY FirstIs
  <1>2. p \in Paths /\ parent(p) \in Open(q.open) /\ G[p] # "none" =>
          Doomed(F, E, p) \/ \E i \in 1..Len(E) : Tells(F, E, i, Came, p)
    <2> SUFFICES ASSUME p \in Paths, parent(p) \in Open(q.open), G[p] # "none"
                 PROVE  Doomed(F, E, p) \/ \E i \in 1..Len(E) : Tells(F, E, i, Came, p)
      OBVIOUS
    <2>1. \A j \in 1..Len(E) : ~ (j < 1)
      BY DEF Shapes
    <2>2. \/ Doomed(F, E, parent(p))
          \/ \E j \in 1..Len(E) : j > 1 /\ Tells(F, E, j, Came, p)
      BY <1>1, <2>1 DEF Fits, Agreed, LeftCreated
    <2>3. Doomed(F, E, parent(p)) => Doomed(F, E, p)
      BY <1>1, AboveIs, DoomedBelow
    <2> QED
      BY <2>2, <2>3
  <1>3. /\ Fits(z, F, K, E, {}, G, n, rdy, lns) /\ Shapes(z.sent, F, E, {})
        /\ z.open \subseteq q.open
        /\ \A g \in z.open : ~ IsPrefix(p, g)
        /\ \A x \in Paths : IsPrefix(p, x) => z.items[x] = "none"
        /\ Len(z.sent) \in Nat \ {0} /\ z.sent[Len(z.sent)] = remove(p)
    <2>1. p \in Names /\ p # Root /\ Shapes(q.sent, F, E, {}) /\ Fits(q, F, K, E, {}, G, n, rdy, lns)
      BY <1>1
    <2> QED
      BY ONLY q \in PaneStates, z = WithoutItem(q, p), <1>2, <2>1, ItemClosed
  <1> DEFINE V == z.items  O == z.open  R == z.prev  C == z.sent
  <1>4. Shapes(C, F, E, {}) /\ Agreed(V, O, R, C, F, K, E, {}, G, n, rdy, lns)
    BY <1>3 DEF Fits
  <1>5. \A h \in O : IsPrefix(p, h) => h = p /\ ~ Watched(F, p)
    BY <1>3
  <1>6. \A i \in 1..Len(C) : C[i].op = "add" /\ IsPrefix(p, C[i].fname) =>
          C[i].fname = p \/ Removing(C, i, C[i].fname)
    <2> SUFFICES ASSUME NEW i \in 1..Len(C), C[i].op = "add", IsPrefix(p, C[i].fname)
                 PROVE  Removing(C, i, C[i].fname)
      OBVIOUS
    <2>1. C[Len(C)].op = "remove" /\ C[Len(C)].fname = p /\ Len(C) \in 1..Len(C)
      BY <1>3 DEF remove
    <2>2. Len(C) > i
      BY <1>3, <2>1
    <2> QED
      BY <2>1, <2>2 DEF Removing, Removes
  <1>7. /\ p \in Names /\ p # Root /\ F2 = {v \in F : ~ IsPrefix(p, v.fname)} /\ K2 \subseteq K
        /\ \A k \in K : k \in K2 \/ \E v \in F : v.wd = k.wd /\ IsPrefix(p, v.fname)
    BY <1>1 DEF WatchesGone
  <1> HIDE DEF V, O, R, C
  <1>8. Agreed(V, O, R, C, F2, K2, E, {}, G, n, rdy, lns)
    BY ONLY <1>4, <1>5, <1>6, <1>7, ForgottenAgrees
  <1>9. Shapes(C, F2, E, {})
    BY <1>4 DEF Shapes, WatchesGone
  <1>10. \A v \in F2 : v.wd # E[1].wd
    BY <1>1, PathOrder DEF WatchesGone
  <1>11. Heard(V, O, C, F2, E, G)
    <2>1. Len(E) > 0
      BY DEF Shapes
    <2> QED
      BY <1>10, <2>1, UnknownHeard
  <1> QED
    BY <1>8, <1>9, <1>11 DEF Fits, V, O, R, C

(* The event that is handled is the first of those still to come.          *)
LEMMA EventNow ==
  ASSUME PaneInv, HandleEvent
  PROVE  /\ alive /\ link /\ lines = <<>> /\ listing = {}
         /\ Len(batch) \in Nat \ {0} /\ Len(batch') = Len(batch) - 1
         /\ 1 \in 1..Len(Coming) /\ Coming[1] = Head(batch) /\ Len(Coming) \in Nat
         /\ Follows(Coming', Coming) /\ PaneNow' = PaneNow
         /\ UNCHANGED <<disk, ready, lines, listing, alive, link, hasty, renamed, stray>>
         /\ UNCHANGED <<isOpen, firstOpen, prevOpenFolders, shown, openDirs>>
  <1>1. /\ alive /\ link /\ batch # <<>> /\ batch' = Tail(batch)
        /\ UNCHANGED <<disk, events, ready, lines, listing, alive, stdin, link, hasty, renamed, stray>>
        /\ UNCHANGED <<isOpen, firstOpen, prevOpenFolders, shown, openDirs>>
    BY DEF HandleEvent, Helper, panevars
  <1>2. lines = <<>> /\ listing = {}
    BY <1>1 DEF PaneInv, QueueOrder
  <1>3. PICK wds : batch \in Seq(KernelEvents(wds)) /\ events \in Seq(KernelEvents(wds))
    BY DEF PaneInv, MonInv, EventTypes
  <1>4. /\ Len(batch) \in Nat \ {0} /\ Len(batch') = Len(batch) - 1
        /\ batch[1] = Head(batch) /\ 1 \in 1..Len(batch)
    BY <1>1, <1>3, TailIs
  <1>5. 1 \in 1..Len(Coming) /\ Coming[1] = Head(batch) /\ Len(Coming) \in Nat
    BY <1>4, ComingIs DEF PaneInv
  <1>6. Coming' = Tail(Coming)
    BY <1>1, <1>3, TailConcat DEF Coming
  <1>7. Follows(Coming', Coming)
    <2>1. PICK u : Coming \in Seq(KernelEvents(u))
      BY ComingIs DEF PaneInv
    <2>2. Coming # <<>>
      BY <1>5
    <2>3. PICK c, t : c = Coming /\ t = Tail(c)
      OBVIOUS
    <2>4. Len(t) = Len(c) - 1 /\ \A i \in 1..Len(t) : t[i] = c[i + 1]
      BY <2>1, <2>2, <2>3, TailIs
    <2> QED
      BY <1>6, <2>3, <2>4 DEF Follows
  <1>8. PaneNow' = PaneNow
    BY <1>1 DEF PaneNow
  <1> QED
    BY <1>1, <1>2, <1>4, <1>5, <1>7, <1>8

(* What the helper does with it.                                           *)
LEMMA EventHandled ==
  ASSUME PaneInv, HandleEvent
  PROVE  \/ (\A w \in fnames : w.wd # Coming[1].wd) /\ UNCHANGED <<kernel, fnames, stdout>>
         \/ \E w \in fnames : \E p :
              /\ w.wd = Coming[1].wd /\ p = PathOf(w, Coming[1])
              /\ \/ /\ Coming[1].mask \in Left /\ remove_watch_and_subwatches(w.fname)
                    /\ stdout' = Append(stdout, message("delete", p, "none"))
                 \/ /\ Coming[1].mask \in Gone /\ UNCHANGED <<kernel, fnames>>
                    /\ stdout' = Append(stdout, message("delete", p, "none"))
                 \/ /\ Coming[1].mask \in Came /\ UNCHANGED <<kernel, fnames>>
                    /\ stdout' = Append(stdout, FileEvent("create", p))
                 \/ /\ Coming[1].mask = "ATTRIB" /\ UNCHANGED <<kernel, fnames>>
                    /\ stdout' = Append(stdout, FileEvent("update", p))
  <1> DEFINE e == Head(batch)
             known == {w \in fnames : w.wd = e.wd}
             c == CHOOSE w \in known : TRUE
             p == c.fname \o e.name
  <1>1. e = Coming[1] /\ 1 \in 1..Len(Coming)
    BY EventNow
  <1>2. e.mask \in Left \union Gone \union Came \union {"ATTRIB"}
    BY <1>1 DEF PaneInv, KernelInv, EventShape
  <1>3. known = {} => UNCHANGED <<kernel, fnames, stdout>>
    BY DEF HandleEvent
  <1>4. known # {} =>
          \/ /\ e.mask \in Left /\ remove_watch_and_subwatches(c.fname)
             /\ stdout' = Append(stdout, message("delete", p, "none"))
          \/ /\ e.mask \in Gone /\ UNCHANGED <<kernel, fnames>>
             /\ stdout' = Append(stdout, message("delete", p, "none"))
          \/ /\ e.mask \in Came /\ UNCHANGED <<kernel, fnames>>
             /\ stdout' = Append(stdout, FileEvent("create", p))
          \/ /\ e.mask = "ATTRIB" /\ UNCHANGED <<kernel, fnames>>
             /\ stdout' = Append(stdout, FileEvent("update", p))
    BY <1>2 DEF HandleEvent, Left, Gone, Came
  <1>5. known # {} => c \in fnames /\ c.wd = e.wd
    OBVIOUS
  <1>6. known = {} => \A w \in fnames : w.wd # e.wd
    OBVIOUS
  <1>7. p = PathOf(c, e)
    BY DEF PathOf
  <1> HIDE DEF known, e, c, p
  <1> QED
    BY <1>1, <1>3, <1>4, <1>5, <1>6, <1>7

(* The events that follow are as true.                                     *)
LEMMA FollowsTrue ==
  ASSUME NEW K, NEW F, NEW E, NEW G, NEW D, Follows(D, E), Len(E) \in Nat, Len(E) > 0,
         EventsTrue(K, E, G), RootKept(K, F, E), \A i \in 1..Len(E) : EventShape(E[i])
  PROVE  EventsTrue(K, D, G) /\ RootKept(K, F, D) /\ \A i \in 1..Len(D) : EventShape(D[i])
  <1>1. /\ Len(D) \in Nat /\ \A i \in 1..Len(D) : i \in Nat /\ i + 1 \in 1..Len(E) /\ D[i] = E[i + 1]
        /\ \A i \in 1..Len(E) : i > 1 => i - 1 \in 1..Len(D) /\ D[i - 1] = E[i] /\ (i - 1) + 1 = i /\ i \in Nat
    <2>1. Len(D) = Len(E) - 1 /\ \A i \in 1..Len(D) : D[i] = E[i + 1]
      BY DEF Follows
    <2>2. \A i \in 1..Len(D) : i \in Nat /\ i + 1 \in 1..Len(E)
      <3>1. Len(E) \in Nat /\ Len(D) = Len(E) - 1
        BY <2>1
      <3> QED
        BY ONLY <3>1
    <2>3. ASSUME NEW i \in 1..Len(E), i > 1 PROVE i - 1 \in 1..Len(D) /\ D[i - 1] = E[i] /\ (i - 1) + 1 = i /\ i \in Nat
      <3>1. i - 1 \in 1..Len(D) /\ (i - 1) + 1 = i /\ i \in Nat
        <4>1. Len(E) \in Nat /\ Len(D) = Len(E) - 1 /\ i \in 1..Len(E) /\ i > 1
          BY <2>1, <2>3
        <4> QED
          BY ONLY <4>1
      <3>2. D[i - 1] = E[(i - 1) + 1]
        BY <2>1, <3>1
      <3> QED
        BY <3>1, <3>2
    <2>4. Len(D) \in Nat
      BY <2>1
    <2> QED
      BY <2>1, <2>2, <2>3, <2>4
  <1>2. ASSUME NEW i \in 1..Len(D), NEW M, Later(E, i + 1, M) PROVE Later(D, i, M)
    <2>1. PICK j \in 1..Len(E) : j > i + 1 /\ E[j].mask \in M /\ E[j].wd = E[i + 1].wd /\ E[j].name = E[i + 1].name
      BY <1>2 DEF Later
    <2>2. j > 1 /\ j - 1 > i
      BY <1>1, <2>1
    <2>3. D[i] = E[i + 1] /\ j - 1 \in 1..Len(D) /\ D[j - 1] = E[j]
      BY <1>1, <2>2
    <2> QED
      BY <2>1, <2>2, <2>3 DEF Later
  <1>3. ASSUME NEW k \in K, NEW i \in 1..Len(D), D[i].wd = k.wd
        PROVE  /\ D[i].mask \in Gone /\ There(G, At(k, D[i])) => Later(D, i, Came)
               /\ D[i].mask \in Came /\ ~ There(G, At(k, D[i])) => Later(D, i, Gone)
    <2>1. i + 1 \in 1..Len(E) /\ D[i] = E[i + 1]
      BY <1>1
    <2>2. /\ D[i].mask \in Gone /\ There(G, At(k, D[i])) => Later(E, i + 1, Came)
          /\ D[i].mask \in Came /\ ~ There(G, At(k, D[i])) => Later(E, i + 1, Gone)
      BY <1>3, <2>1 DEF EventsTrue
    <2> QED
      BY <1>2, <2>2
  <1>4. ASSUME NEW i \in 1..Len(D), NEW j \in 1..Len(D), i < j, D[i].mask \in Came, D[j].mask \in Came,
               D[i].wd = D[j].wd, D[i].name = D[j].name
        PROVE  \E l \in 1..Len(D) : /\ i < l /\ l < j /\ D[l].mask \in Gone
                                    /\ D[l].wd = D[i].wd /\ D[l].name = D[i].name
    <2>1. i + 1 \in 1..Len(E) /\ D[i] = E[i + 1] /\ j + 1 \in 1..Len(E) /\ D[j] = E[j + 1] /\ i + 1 < j + 1
      BY <1>1, <1>4
    <2>2. PICK l \in 1..Len(E) : /\ i + 1 < l /\ l < j + 1 /\ E[l].mask \in Gone
                                 /\ E[l].wd = D[i].wd /\ E[l].name = D[i].name
      BY <1>4, <2>1 DEF EventsTrue
    <2>3. l > 1 /\ i < l - 1 /\ l - 1 < j
      BY <1>1, <2>2
    <2>4. l - 1 \in 1..Len(D) /\ D[l - 1] = E[l]
      BY <1>1, <2>3
    <2> QED
      BY <2>2, <2>3, <2>4
  <1>5. EventsTrue(K, D, G)
    BY <1>3, <1>4 DEF EventsTrue
  <1>6. RootKept(K, F, D)
    <2>1. \A i \in 1..Len(D) : D[i].mask \in Left =>
            /\ \A k \in K : k.wd = D[i].wd => k.at # Root
            /\ \A w \in F : w.wd = D[i].wd => w.fname # Root
      <3> SUFFICES ASSUME NEW i \in 1..Len(D), D[i].mask \in Left
                   PROVE  /\ \A k \in K : k.wd = D[i].wd => k.at # Root
                          /\ \A w \in F : w.wd = D[i].wd => w.fname # Root
        OBVIOUS
      <3>1. i + 1 \in 1..Len(E) /\ D[i] = E[i + 1]
        BY <1>1
      <3> QED
        BY <3>1 DEF RootKept
    <2> QED
      BY <2>1 DEF RootKept
  <1> QED
    BY <1>1, <1>5, <1>6

(* What the pane will make of it, before the event is taken from those to  *)
(* come.                                                                   *)
EventIsTold(z) ==
  /\ Handles(PaneNow, stdout', z)
  /\ ~ z.stray => /\ Shapes(z.sent, fnames', Coming, {})
                  /\ Fits(z, fnames', kernel', Coming, {}, disk, Len(batch), ready, <<>>)
                  /\ Heard(z.items, z.open, z.sent, fnames', Coming, disk)

(* The first event of the batch, told under the name of its watch.         *)
LEMMA EventTold ==
  ASSUME PaneInv, HandleEvent, NEW q, Handles(PaneNow, stdout, q), ~ q.stray => AgreesAt(q)
  PROVE  \E z : EventIsTold(z)
  <1>1. MonInv /\ QueueOrder /\ KernelInv
    BY DEF PaneInv
  <1>2. /\ lines = <<>> /\ listing = {} /\ Len(batch) \in Nat \ {0}
        /\ 1 \in 1..Len(Coming) /\ Len(Coming) > 0 /\ UNCHANGED <<disk, ready>>
    BY EventNow
  <1>3. stdout \in Seq(HelperMessages)
    BY <1>1 DEF MonInv, QueueTypes
  <1>4. q \in PaneStates
    BY <1>3, HandlesKeeps
  <1>5. \A s \in PaneStates : Shapes(s.sent, fnames, Coming, {})
    BY <1>1, <1>2, ShapesNow
  <1>6. ~ q.stray => Fits(q, fnames, kernel, Coming, {}, disk, Len(batch), ready, <<>>)
    BY <1>2 DEF AgreesAt, Fits
  <1>7. CASE (\A w \in fnames : w.wd # Coming[1].wd) /\ UNCHANGED <<kernel, fnames, stdout>>
    <2>1. Heard(q.items, q.open, q.sent, fnames, Coming, disk)
      BY <1>2, <1>7, UnknownHeard
    <2> QED
      BY <1>4, <1>5, <1>6, <1>7, <2>1 DEF EventIsTold
  <1>8. ASSUME NEW w \in fnames, NEW p, w.wd = Coming[1].wd, p = PathOf(w, Coming[1]),
               \/ /\ Coming[1].mask \in Left /\ remove_watch_and_subwatches(w.fname)
                  /\ stdout' = Append(stdout, message("delete", p, "none"))
               \/ /\ Coming[1].mask \in Gone /\ UNCHANGED <<kernel, fnames>>
                  /\ stdout' = Append(stdout, message("delete", p, "none"))
               \/ /\ Coming[1].mask \in Came /\ UNCHANGED <<kernel, fnames>>
                  /\ stdout' = Append(stdout, FileEvent("create", p))
               \/ /\ Coming[1].mask = "ATTRIB" /\ UNCHANGED <<kernel, fnames>>
                  /\ stdout' = Append(stdout, FileEvent("update", p))
        PROVE  \E z : EventIsTold(z)
    <2>1. p \in Names /\ (Coming[1].mask \in Left => p = w.fname)
      BY <1>2, <1>4, <1>5, <1>8, FirstIs
    <2>2. \A v \in {"create", "delete", "update"} : \A k \in EntryKinds \union {"unknown"} :
            message(v, p, k) \in HelperMessages
      BY <2>1 DEF message, HelperMessages, Names
    <2>3. PICK k : k = IF p \in Paths /\ disk[p] # "none" THEN disk[p] ELSE "unknown"
      OBVIOUS
    <2>4. /\ k \in EntryKinds \union {"unknown"} /\ k # "none" /\ (p \in Paths /\ disk[p] # "none" => k = disk[p])
          /\ \A v : FileEvent(v, p) = message(v, p, k)
      BY <1>1, <2>3 DEF MonInv, DiskTree, FileEvent
    <2>5. ASSUME NEW m \in HelperMessages, stdout' = Append(stdout, m)
          PROVE  /\ Handles(PaneNow, stdout', After(q, m)) /\ After(q, m) \in PaneStates
                 /\ q.stray => After(q, m).stray
      BY <1>3, <1>4, <2>5, HandlesMore, AfterTypes
    <2>6. EventsTrue(kernel, Coming, disk) /\ RootKept(kernel, fnames, Coming)
      BY <1>1 DEF KernelInv
    <2> DEFINE E == Coming  F == fnames  K == kernel  G == disk  n == Len(batch)
               F2 == fnames'  K2 == kernel'
    <2>7. CASE /\ Coming[1].mask \in Left /\ remove_watch_and_subwatches(w.fname)
               /\ stdout' = Append(stdout, message("delete", p, "none"))
      <3>1. PICK z : z = WithoutItem(q, p)
        OBVIOUS
      <3>2. z = After(q, message("delete", p, "none"))
        BY <3>1 DEF After, message
      <3>3. Handles(PaneNow, stdout', z) /\ z.stray = q.stray
        <4>1. message("delete", p, "none") \in HelperMessages
          BY <2>2 DEF EntryKinds
        <4>2. z.stray = q.stray
          BY <3>1 DEF WithoutItem
        <4> QED
          BY <2>5, <2>7, <3>2, <4>1, <4>2
      <3>4. p # Root
        BY <1>2, <1>8, <2>1, <2>6, <2>7 DEF RootKept
      <3>5. WatchesGone(p, F, K, F2, K2)
        BY <1>1, <2>1, <2>7, WatchesRemoved DEF WatchesGone
      <3>6. ASSUME ~ q.stray
            PROVE  /\ Fits(z, F2, K2, E, {}, G, n, ready, <<>>) /\ Shapes(z.sent, F2, E, {})
                   /\ Heard(z.items, z.open, z.sent, F2, E, G)
        <4>1. /\ Shapes(q.sent, F, E, {}) /\ Fits(q, F, K, E, {}, G, n, ready, <<>>)
              /\ 1 \in 1..Len(E) /\ w \in F /\ w.wd = E[1].wd /\ E[1].mask \in Left /\ p = PathOf(w, E[1])
          BY <1>2, <1>4, <1>5, <1>6, <1>8, <2>7, <3>6
        <4>2. q \in PaneStates /\ z = WithoutItem(q, p)
          BY <1>4, <3>1
        <4>3. PICK lns : lns = <<>>
          OBVIOUS
        <4>4. Fits(q, F, K, E, {}, G, n, ready, lns)
          BY <4>1, <4>3
        <4> HIDE DEF E, F, K, G, n, F2, K2
        <4>5. /\ Fits(z, F2, K2, E, {}, G, n, ready, lns) /\ Shapes(z.sent, F2, E, {})
              /\ Heard(z.items, z.open, z.sent, F2, E, G)
          BY ONLY <3>4, <3>5, <4>1, <4>2, <4>4, SelfLeft
        <4> QED
          BY <4>3, <4>5
      <3> QED
        BY <3>3, <3>6 DEF EventIsTold
    <2>8. CASE /\ Coming[1].mask \in Gone /\ UNCHANGED <<kernel, fnames>>
               /\ stdout' = Append(stdout, message("delete", p, "none"))
      <3>1. PICK z : z = WithoutItem(q, p)
        OBVIOUS
      <3>2. z = After(q, message("delete", p, "none"))
        BY <3>1 DEF After, message
      <3>3. Handles(PaneNow, stdout', z) /\ z.stray = q.stray
        <4>1. message("delete", p, "none") \in HelperMessages
          BY <2>2 DEF EntryKinds
        <4>2. z.stray = q.stray
          BY <3>1 DEF WithoutItem
        <4> QED
          BY <2>5, <2>8, <3>2, <4>1, <4>2
      <3>4. ASSUME ~ q.stray
            PROVE  /\ Fits(z, F, K, E, {}, G, n, ready, <<>>) /\ Shapes(z.sent, F, E, {})
                   /\ Heard(z.items, z.open, z.sent, F, E, G)
        <4>1. PICK lns : lns = <<>>
          OBVIOUS
        <4>2. /\ Shapes(q.sent, F, E, {}) /\ Fits(q, F, K, E, {}, G, n, ready, lns)
              /\ EventsTrue(K, E, G)
              /\ 1 \in 1..Len(E) /\ w \in F /\ w.wd = E[1].wd /\ E[1].mask \in Gone /\ p = PathOf(w, E[1])
          BY <1>2, <1>4, <1>5, <1>6, <1>8, <2>6, <2>8, <3>4, <4>1
        <4>3. q \in PaneStates /\ z = WithoutItem(q, p)
          BY <1>4, <3>1
        <4> HIDE DEF E, F, K, G, n
        <4>4. /\ Fits(z, F, K, E, {}, G, n, ready, lns) /\ Shapes(z.sent, F, E, {})
              /\ Heard(z.items, z.open, z.sent, F, E, G)
          BY ONLY <4>2, <4>3, EntryGone
        <4> QED
          BY <4>1, <4>4
      <3> QED
        BY <2>8, <3>3, <3>4 DEF EventIsTold
    <2>9. CASE /\ Coming[1].mask \in Came /\ UNCHANGED <<kernel, fnames>>
               /\ stdout' = Append(stdout, FileEvent("create", p))
      <3>1. PICK z : z = WithItem(q, p, k)
        OBVIOUS
      <3>2. z = After(q, message("create", p, k))
        BY <3>1 DEF After, message
      <3>3. Handles(PaneNow, stdout', z) /\ z \in PaneStates /\ (q.stray => z.stray)
        BY <2>2, <2>4, <2>5, <2>9, <3>2
      <3>4. ASSUME ~ z.stray
            PROVE  Fits(z, F, K, E, {}, G, n, ready, <<>>) /\ Heard(z.items, z.open, z.sent, F, E, G)
        <4>1. /\ Shapes(q.sent, F, E, {}) /\ Fits(q, F, K, E, {}, G, n, ready, <<>>)
              /\ EventsTrue(K, E, G) /\ n \in Nat \ {0} /\ Shapes(z.sent, F, E, {})
              /\ 1 \in 1..Len(E) /\ w \in F /\ w.wd = E[1].wd /\ E[1].mask \in Came /\ p = PathOf(w, E[1])
          BY <1>2, <1>4, <1>5, <1>6, <1>8, <2>6, <2>9, <3>3, <3>4
        <4>2. /\ q \in PaneStates /\ z = WithItem(q, p, k) /\ ~ z.stray
              /\ k \in EntryKinds \union {"unknown"} /\ k # "none" /\ (p \in Paths /\ G[p] # "none" => k = G[p])
          BY <1>4, <2>4, <3>1, <3>4
        <4> HIDE DEF E, F, K, G, n
        <4> QED
          BY ONLY <4>1, <4>2, EntryCame
      <3> QED
        BY <1>5, <2>9, <3>3, <3>4 DEF EventIsTold
    <2>10. CASE /\ Coming[1].mask = "ATTRIB" /\ UNCHANGED <<kernel, fnames>>
                /\ stdout' = Append(stdout, FileEvent("update", p))
      <3>1. PICK z : z = WithMode(q, p, k)
        OBVIOUS
      <3>2. z = After(q, message("update", p, k))
        BY <3>1 DEF After, message
      <3>3. Handles(PaneNow, stdout', z) /\ (q.stray => z.stray)
        BY <2>2, <2>4, <2>5, <2>10, <3>2
      <3>4. ASSUME ~ q.stray
            PROVE  /\ Fits(z, F, K, E, {}, G, n, ready, <<>>) /\ Shapes(z.sent, F, E, {})
                   /\ Heard(z.items, z.open, z.sent, F, E, G)
        <4>1. PICK lns, L : lns = <<>> /\ L = {}
          OBVIOUS
        <4>2. /\ Shapes(q.sent, F, E, L) /\ Fits(q, F, K, E, L, G, n, ready, lns)
              /\ 1 \in 1..Len(E) /\ w \in F /\ w.wd = E[1].wd /\ E[1].mask = "ATTRIB" /\ p = PathOf(w, E[1])
          BY <1>2, <1>4, <1>5, <1>6, <1>8, <2>10, <3>4, <4>1
        <4>3. /\ q \in PaneStates /\ z = WithMode(q, p, k)
              /\ p \in Paths /\ G[p] # "none" => k = G[p]
          BY <1>4, <2>4, <3>1
        <4> HIDE DEF E, F, K, G, n
        <4>4. /\ Fits(z, F, K, E, L, G, n, ready, lns) /\ Shapes(z.sent, F, E, L)
              /\ Heard(z.items, z.open, z.sent, F, E, G)
          BY ONLY <4>2, <4>3, EntryChanged
        <4> QED
          BY <4>1, <4>4
      <3> QED
        BY <2>10, <3>3, <3>4 DEF EventIsTold
    <2> QED
      BY <1>8, <2>7, <2>8, <2>9, <2>10
  <1> QED
    BY <1>7, <1>8, EventHandled

(* Telling an event keeps what will agree.                                 *)
LEMMA HandleKeepsAgreed ==
  ASSUME PaneInv, HandleEvent PROVE PaneInv'
  <1>1. MonInv /\ QueueOrder /\ KernelInv /\ WillAgree
    BY DEF PaneInv
  <1>2. MonInv'
    BY <1>1, HandleEventKeepsPane
  <1>3. /\ alive /\ link /\ lines = <<>> /\ listing = {}
        /\ Len(batch) \in Nat \ {0} /\ Len(batch') = Len(batch) - 1
        /\ Len(Coming) \in Nat /\ Len(Coming) > 0
        /\ Follows(Coming', Coming) /\ PaneNow' = PaneNow
        /\ UNCHANGED <<disk, ready, lines, listing, alive, link, hasty, renamed, stray>>
    BY EventNow
  <1>4. QueueOrder'
    BY <1>1, <1>3 DEF QueueOrder
  <1>5. KernelInv'
    <2>1. /\ \A w \in fnames' : w = [wd |-> w.wd, fname |-> w.fname]
          /\ WatchesKept(kernel', fnames') /\ EventsTrue(kernel', Coming, disk)
          /\ RootKept(kernel', fnames', Coming)
      <3>1. \/ UNCHANGED <<kernel, fnames>>
            \/ \E w \in fnames : remove_watch_and_subwatches(w.fname)
        BY EventHandled
      <3>2. CASE UNCHANGED <<kernel, fnames>>
        BY <1>1, <3>2 DEF KernelInv
      <3>3. CASE \E w \in fnames : remove_watch_and_subwatches(w.fname)
        BY <1>1, <3>3, WatchesRemoved
      <3> QED
        BY <3>1, <3>2, <3>3
    <2>2. \A i \in 1..Len(Coming) : EventShape(Coming[i])
      BY <1>1 DEF KernelInv
    <2>3. PICK D : D = Coming'
      OBVIOUS
    <2>4. EventsTrue(kernel', D, disk) /\ RootKept(kernel', fnames', D) /\ \A i \in 1..Len(D) : EventShape(D[i])
      BY <1>3, <2>1, <2>2, <2>3, FollowsTrue
    <2> QED
      BY <1>3, <2>1, <2>3, <2>4 DEF KernelInv
  <1>6. ASSUME ~ hasty, ~ renamed
        PROVE  \E z : Handles(PaneNow, stdout', z) /\ (~ z.stray => AgreesAt(z)')
    <2>1. PICK q : Handles(PaneNow, stdout, q) /\ (~ q.stray => AgreesAt(q))
      BY <1>1, <1>3, <1>6 DEF WillAgree
    <2>2. PICK z : EventIsTold(z)
      BY <2>1, EventTold
    <2>3. ASSUME ~ z.stray PROVE AgreesAt(z)'
      <3>1. PICK D, lns, L, n : D = Coming' /\ lns = <<>> /\ L = {} /\ n = Len(batch)
        OBVIOUS
      <3> DEFINE F == fnames'  K == kernel'
      <3>2. /\ Shapes(z.sent, F, Coming, L) /\ Fits(z, F, K, Coming, L, disk, n, ready, lns)
            /\ Heard(z.items, z.open, z.sent, F, Coming, disk)
        BY <2>2, <2>3, <3>1 DEF EventIsTold
      <3>3. Follows(D, Coming) /\ n \in Int
        BY <1>3, <3>1
      <3>4. PICK m : m = n - 1
        OBVIOUS
      <3> HIDE DEF F, K
      <3>5. Fits(z, F, K, D, L, disk, m, ready, lns)
        BY ONLY <3>2, <3>3, <3>4, EventDone
      <3> QED
        BY <1>3, <3>1, <3>4, <3>5 DEF Fits, AgreesAt, F, K
    <2> QED
      BY <2>2, <2>3 DEF EventIsTold
  <1>7. WillAgree'
    BY <1>3, <1>6 DEF WillAgree
  <1> QED
    BY <1>2, <1>4, <1>5, <1>7 DEF PaneInv

-----------------------------------------------------------------------------
(* The pane and its connection *)

LEMMA PaneNowTypes ==
  ASSUME MonInv, stray \in BOOLEAN PROVE PaneNow \in PaneStates
  <1>1. lines \o stdin \in Seq(PaneCommands)
    BY ConcatProperties DEF MonInv, QueueTypes
  <1>2. /\ shown \in [Paths -> EntryKinds \union {"unknown"}]
        /\ openDirs \subseteq Paths /\ prevOpenFolders \subseteq Paths
    BY DEF MonInv, PaneTree
  <1>3. Empty \in [Paths -> EntryKinds \union {"unknown"}] /\ Public \in Paths
    BY MonitorAssumption DEF Empty, EntryKinds
  <1> QED
    BY <1>1, <1>2, <1>3 DEF PaneNow, PaneStates

LEMMA SentAfter ==
  ASSUME MonInv, NEW c \in PaneCommands
  PROVE  lines \o Append(stdin, c) = Append(lines \o stdin, c)
  <1> DEFINE a == lines  b == stdin  t == <<c>>
  <1>1. a \in Seq(PaneCommands) /\ b \in Seq(PaneCommands) /\ t \in Seq(PaneCommands)
    BY DEF MonInv, QueueTypes
  <1> HIDE DEF a, b, t
  <1>2. a \o b \in Seq(PaneCommands)
    BY <1>1, ConcatProperties
  <1>3. Append(b, c) = b \o t
    BY <1>1, AppendIsConcat DEF t
  <1>4. Append(a \o b, c) = (a \o b) \o t
    BY <1>2, AppendIsConcat DEF t
  <1>5. (a \o b) \o t = a \o (b \o t)
    BY <1>1, ConcatAssociative
  <1> QED
    BY <1>3, <1>4, <1>5 DEF a, b

(* What the kernel and the helper keep does not depend on the pane.        *)
LEMMA HelperFrame ==
  ASSUME PaneInv, UNCHANGED <<disk, kernel, events, batch, fnames, ready, lines, listing>>
  PROVE  /\ KernelInv' /\ Coming' = Coming
         /\ \A q : AgreesAt(q) => AgreesAt(q)'
  BY DEF PaneInv, KernelInv, Coming, AgreesAt

(* The first message forgets what was shown and asks for the root.         *)
LEMMA FirstMessageKeepsAgreed ==
  ASSUME PaneInv, FirstMessage PROVE PaneInv'
  <1>1. MonInv /\ QueueOrder /\ KernelInv /\ WillAgree
    BY DEF PaneInv
  <1>2. MonInv'
    BY <1>1, FirstMessageKeepsPane
  <1>3. /\ UNCHANGED <<disk, kernel, events, batch, fnames, ready, lines, listing>>
        /\ UNCHANGED <<stdin, stdout, alive, link, hasty, renamed, stray>>
        /\ link /\ ~ isOpen /\ isOpen' = TRUE /\ shown' = Empty /\ openDirs' = {}
        /\ prevOpenFolders' = IF firstOpen THEN {Public} ELSE openDirs
    BY DEF FirstMessage, Opened, kernelvars, helpervars
  <1>4. KernelInv' /\ \A q : AgreesAt(q) => AgreesAt(q)'
    BY <1>3, HelperFrame
  <1>5. PaneNow' = PaneNow
    BY <1>3 DEF PaneNow
  <1>6. QueueOrder'
    BY <1>1, <1>3 DEF QueueOrder
  <1>7. WillAgree'
    BY <1>1, <1>3, <1>4, <1>5 DEF WillAgree
  <1> QED
    BY <1>2, <1>4, <1>6, <1>7 DEF PaneInv

(* What Message makes of the pane is After.                                *)
LEMMA MessageIs ==
  ASSUME MonInv, Message
  PROVE  /\ UNCHANGED <<disk, kernel, events, batch, fnames, ready, lines, listing>>
         /\ UNCHANGED <<alive, link, isOpen, firstOpen, hasty, renamed>>
         /\ link /\ isOpen /\ stdout # <<>> /\ stdout' = Tail(stdout)
         /\ PaneNow' = After(PaneNow, Head(stdout))
  <1> DEFINE m == Head(stdout)
  <1>1. /\ UNCHANGED <<disk, kernel, events, batch, fnames, ready, lines, listing>>
        /\ UNCHANGED <<alive, link, isOpen, firstOpen, hasty, renamed>>
        /\ link /\ isOpen /\ stdout # <<>> /\ stdout' = Tail(stdout)
    BY DEF Message, kernelvars, helpervars
  <1>2. m \in HelperMessages
    BY <1>1, HeadTailProperties DEF MonInv, QueueTypes
  <1>3. m.fname \in Seq(STRING) /\ m.event \in {"create", "delete", "update", "error", "heartbeat"}
    BY <1>2 DEF HelperMessages
  <1>4. \/ m.event = "heartbeat" /\ UNCHANGED <<shown, openDirs, prevOpenFolders, stdin, stray>>
        \/ m.event = "create" /\ addItem(m.fname, m.kind)
        \/ m.event = "delete" /\ removeItem(m.fname)
        \/ m.event = "update" /\ updateItem(m.fname, m.kind)
        \/ m.event = "error" /\ handleError(m.fname)
    BY <1>3 DEF Message
  <1> HIDE DEF m
  <1>5. /\ PaneNow = [items |-> shown, open |-> openDirs, prev |-> prevOpenFolders,
                      sent |-> lines \o stdin, stray |-> stray]
        /\ PaneNow' = [items |-> shown', open |-> openDirs', prev |-> prevOpenFolders',
                       sent |-> lines \o stdin', stray |-> stray']
    BY <1>1 DEF PaneNow
  <1>6. \A T : Cleared(PaneNow, T) = Without(T)
    BY <1>5 DEF Cleared, Without
  <1>7. \A p : ItemOf(PaneNow, p) = followPath(p)
    BY <1>5 DEF ItemOf, followPath
  <1>8. add(m.fname) \in PaneCommands /\ remove(m.fname) \in PaneCommands
    BY <1>3, CommandsSent
  <1>9. CASE m.event = "heartbeat" /\ UNCHANGED <<shown, openDirs, prevOpenFolders, stdin, stray>>
    BY <1>1, <1>5, <1>9 DEF After, m
  <1>10. CASE m.event = "create" /\ addItem(m.fname, m.kind)
    <2>1. PICK p, k : p = m.fname /\ k = m.kind
      OBVIOUS
    <2> DEFINE before == prevOpenFolders \union (IF followPath(p) # "none" THEN OpenUnder(p) ELSE {})
               placed == p \in Paths /\ (parent(p) = Root \/ shown[parent(p)] = "dir")
               opened == placed /\ p \in before /\ k = "dir"
    <2>2. /\ shown' = [Without(Under(p)) EXCEPT ![p] = IF placed THEN k ELSE "none"]
          /\ openDirs' = (openDirs \ Under(p)) \union (IF opened THEN {p} ELSE {})
          /\ prevOpenFolders' = IF placed THEN before \ {p} ELSE before
          /\ stdin' = IF opened THEN Append(stdin, add(p)) ELSE stdin
          /\ stray' = (stray \/ (opened /\ parent(p) \notin openDirs \union {Root}))
      BY <1>10, <2>1 DEF addItem
    <2>3. lines \o stdin' = IF opened THEN Append(lines \o stdin, add(p)) ELSE lines \o stdin
      <3>1. lines \o Append(stdin, add(p)) = Append(lines \o stdin, add(p))
        BY <1>8, <2>1, SentAfter
      <3> HIDE DEF opened
      <3> QED
        BY <2>2, <3>1
    <2>4. PICK s : s = PaneNow
      OBVIOUS
    <2>5. /\ s.items = shown /\ s.open = openDirs /\ s.prev = prevOpenFolders
          /\ s.sent = lines \o stdin /\ s.stray = stray
      BY <1>5, <2>4
    <2>6. before = s.prev \union (IF ItemOf(s, p) # "none" THEN s.open \intersect Under(p) ELSE {})
      BY <1>7, <2>4, <2>5 DEF OpenUnder
    <2>7. placed <=> p \in Paths /\ (parent(p) = Root \/ s.items[parent(p)] = "dir")
      BY <2>5
    <2>8. After(s, m) = WithItem(s, p, k)
      BY <1>10, <2>1 DEF After
    <2>9. WithItem(s, p, k) =
            [items |-> [Cleared(s, Under(p)) EXCEPT ![p] = IF placed THEN k ELSE "none"],
             open  |-> (s.open \ Under(p)) \union (IF opened THEN {p} ELSE {}),
             prev  |-> IF placed THEN before \ {p} ELSE before,
             sent  |-> IF opened THEN Append(s.sent, add(p)) ELSE s.sent,
             stray |-> s.stray \/ (opened /\ parent(p) \notin s.open \union {Root})]
      <3> HIDE DEF before, placed
      <3> QED
        BY <2>6, <2>7, Zenon DEF WithItem
    <2>10. /\ Cleared(s, Under(p)) = Without(Under(p))
           /\ PaneNow' = [items |-> shown', open |-> openDirs', prev |-> prevOpenFolders',
                          sent |-> lines \o stdin', stray |-> stray']
      BY <1>5, <1>6, <2>4
    <2> HIDE DEF before, placed, opened
    <2>11. PaneNow' = WithItem(s, p, k)
      BY <2>2, <2>3, <2>5, <2>9, <2>10
    <2> QED
      BY <1>1, <2>4, <2>8, <2>11 DEF m
  <1>11. CASE m.event = "delete" /\ removeItem(m.fname)
    <2>1. PICK p, s : p = m.fname /\ s = PaneNow
      OBVIOUS
    <2>2. /\ shown' = Without(Under(p)) /\ openDirs' = openDirs \ Under(p)
          /\ stdin' = Append(stdin, remove(p)) /\ UNCHANGED <<prevOpenFolders, stray>>
      BY <1>11, <2>1 DEF removeItem
    <2>3. lines \o stdin' = Append(lines \o stdin, remove(p))
      BY <1>8, <2>1, <2>2, SentAfter
    <2>4. After(s, m) = WithoutItem(s, p)
      BY <1>11, <2>1 DEF After
    <2>5. PaneNow' = WithoutItem(s, p)
      BY <1>5, <1>6, <2>1, <2>2, <2>3 DEF WithoutItem
    <2> QED
      BY <1>1, <2>1, <2>4, <2>5 DEF m
  <1>12. CASE m.event = "update" /\ updateItem(m.fname, m.kind)
    <2>1. PICK p, k, s : p = m.fname /\ k = m.kind /\ s = PaneNow
      OBVIOUS
    <2>2. After(s, m) = WithMode(s, p, k)
      BY <1>12, <2>1 DEF After
    <2>3. PaneNow' = WithMode(s, p, k)
      BY <1>5, <1>7, <1>12, <2>1 DEF WithMode, updateItem
    <2> QED
      BY <1>1, <2>1, <2>2, <2>3 DEF m
  <1>13. CASE m.event = "error" /\ handleError(m.fname)
    <2>1. PICK p, s : p = m.fname /\ s = PaneNow
      OBVIOUS
    <2>2. After(s, m) = WithError(s, p)
      BY <1>13, <2>1 DEF After
    <2>3. PaneNow' = WithError(s, p)
      BY <1>5, <1>6, <1>7, <1>13, <2>1 DEF WithError, handleError
    <2> QED
      BY <1>1, <2>1, <2>2, <2>3 DEF m
  <1> QED
    BY <1>4, <1>9, <1>10, <1>11, <1>12, <1>13

(* Handling a message takes the first step of the course of states.        *)
LEMMA MessageKeepsAgreed ==
  ASSUME PaneInv, Message PROVE PaneInv'
  <1>1. MonInv /\ QueueOrder /\ KernelInv /\ WillAgree
    BY DEF PaneInv
  <1>2. MonInv'
    BY <1>1, MessageKeepsPane
  <1>3. /\ UNCHANGED <<disk, kernel, events, batch, fnames, ready, lines, listing>>
        /\ UNCHANGED <<alive, link, isOpen, firstOpen, hasty, renamed>>
        /\ link /\ isOpen /\ stdout # <<>> /\ stdout' = Tail(stdout)
        /\ PaneNow' = After(PaneNow, Head(stdout))
    BY <1>1, MessageIs
  <1>4. KernelInv' /\ \A q : AgreesAt(q) => AgreesAt(q)'
    BY <1>3, HelperFrame
  <1>5. stdout \in Seq(HelperMessages)
    BY <1>1 DEF MonInv, QueueTypes
  <1>6. stray' \in BOOLEAN
    <2>1. PaneNow \in PaneStates
      BY <1>1, PaneNowTypes DEF QueueOrder
    <2>2. Head(stdout) \in HelperMessages
      BY <1>3, <1>5, TailIs
    <2>3. PaneNow' \in PaneStates
      BY <1>3, <2>1, <2>2, AfterTypes
    <2>4. PICK s : s = PaneNow'
      OBVIOUS
    <2>5. s.stray \in BOOLEAN
      BY <2>3, <2>4, StateParts
    <2> QED
      BY <2>4, <2>5 DEF PaneNow
  <1>7. QueueOrder'
    BY <1>1, <1>3, <1>6 DEF QueueOrder
  <1>8. \A q : Handles(PaneNow, stdout, q) => Handles(PaneNow', stdout', q)
    BY <1>3, <1>5, HandlesFirst
  <1>9. WillAgree'
    BY <1>1, <1>3, <1>4, <1>8 DEF WillAgree
  <1> QED
    BY <1>2, <1>4, <1>7, <1>9 DEF PaneInv

(* A click while all is quiet; after any other, hasty is true.             *)
LEMMA ToggleKeepsAgreed ==
  ASSUME PaneInv, NEW p \in Paths, toggleDir(p) PROVE PaneInv'
  <1>1. MonInv /\ QueueOrder /\ KernelInv /\ WillAgree
    BY DEF PaneInv
  <1>2. MonInv'
    BY <1>1, ToggleKeepsPane
  <1>3. /\ UNCHANGED <<disk, kernel, events, batch, fnames, ready, lines, listing>>
        /\ UNCHANGED <<stdout, alive, link, isOpen, firstOpen, prevOpenFolders, renamed, stray>>
        /\ isOpen /\ shown[p] = "dir" /\ parent(p) \in openDirs \union {Root}
        /\ shown' = Without(Below(p)) /\ hasty' = (hasty \/ ~ Settled)
        /\ p \in openDirs => openDirs' = openDirs \ Under(p) /\ stdin' = Append(stdin, remove(p))
        /\ p \notin openDirs => openDirs' = (openDirs \ Below(p)) \union {p} /\ stdin' = Append(stdin, add(p))
    BY DEF toggleDir, kernelvars, helpervars
  <1>4. KernelInv'
    BY <1>3, HelperFrame
  <1>5. QueueOrder'
    BY <1>1, <1>3 DEF QueueOrder
  <1>6. ASSUME alive, link, ~ hasty', ~ renamed
        PROVE  \E q : Handles(PaneNow', stdout', q) /\ (~ q.stray => AgreesAt(q)')
    <2>1. Settled /\ ~ hasty
      BY <1>3, <1>6
    <2>2. events = <<>> /\ batch = <<>> /\ lines = <<>> /\ listing = {} /\ stdin = <<>> /\ stdout = <<>>
      BY <2>1 DEF Settled
    <2>3. PaneNow \in PaneStates /\ PaneNow' \in PaneStates
      <3>1. PaneNow \in PaneStates
        BY <1>1, PaneNowTypes DEF QueueOrder
      <3>2. PaneNow' \in PaneStates
        <4>1. lines' \o stdin' \in Seq(PaneCommands)
          BY <1>2, ConcatProperties DEF MonInv, QueueTypes
        <4>2. /\ shown' \in [Paths -> EntryKinds \union {"unknown"}]
              /\ openDirs' \subseteq Paths /\ prevOpenFolders' \subseteq Paths
          BY <1>2 DEF MonInv, PaneTree
        <4>3. isOpen' /\ stray' \in BOOLEAN
          BY <1>1, <1>3 DEF QueueOrder
        <4> QED
          BY <4>1, <4>2, <4>3 DEF PaneNow, PaneStates
      <3> QED
        BY <3>1, <3>2
    <2>4. PICK q : Handles(PaneNow, stdout, q) /\ (~ q.stray => AgreesAt(q))
      BY <1>1, <1>6, <2>1 DEF WillAgree
    <2>5. q = PaneNow /\ Handles(PaneNow', stdout', PaneNow')
      <3>1. Len(stdout) = 0
        BY <2>2
      <3>2. PICK s, t : s = PaneNow' /\ t = stdout'
        OBVIOUS
      <3>3. Handles(s, t, s)
        BY <1>3, <2>3, <3>1, <3>2, HandlesNone
      <3> QED
        BY <2>3, <2>4, <3>1, <3>2, <3>3, HandlesNone
    <2>6. PICK s : s = PaneNow'
      OBVIOUS
    <2>7. ASSUME ~ stray PROVE AgreesAt(s)'
      <3>1. PICK V, O, R, C : V = shown /\ O = openDirs /\ R = prevOpenFolders /\ C = PaneNow.sent
        OBVIOUS
      <3>2. PICK E, n, ls : E = Coming /\ n = Len(batch) /\ ls = lines
        OBVIOUS
      <3>3. Len(C) = 0 /\ Len(E) = 0 /\ Len(ls) = 0
        <4>1. PaneNow.sent = <<>> /\ Coming = <<>>
          BY <2>2, ConcatEmptySeq DEF PaneNow, Coming
        <4> QED
          BY <2>2, <3>1, <3>2, <4>1
      <3>4. Agreed(V, O, R, C, fnames, kernel, E, {}, disk, n, ready, ls)
        <4>1. q.items = shown /\ q.open = openDirs /\ q.prev = prevOpenFolders /\ q.stray = stray
          BY <1>3, <2>5 DEF PaneNow
        <4>2. Agreed(q.items, q.open, q.prev, q.sent, fnames, kernel, Coming, listing, disk, Len(batch), ready, lines)
          BY <2>4, <2>7, <4>1 DEF AgreesAt
        <4> QED
          BY <2>2, <2>5, <3>1, <3>2, <4>1, <4>2
      <3>5. \A w \in fnames : w.fname \in Names
        BY <1>1 DEF MonInv, Watches, Names
      <3>6. PICK V2, O2, D : V2 = shown' /\ O2 = openDirs' /\ D = lines \o stdin'
        OBVIOUS
      <3>7. V2 = [x \in Paths |-> IF IsPrefix(p, x) /\ x # p THEN "none" ELSE V[x]]
        BY <1>3, <3>1, <3>6 DEF Without, Below, Under
      <3>8. O \subseteq Paths /\ IsPrefix(p, p) /\ p \in Paths
        BY <1>1, <3>1, PathsAbove, PathOrder DEF MonInv, PaneTree
      <3>9. add(p) \in PaneCommands /\ remove(p) \in PaneCommands
        BY CommandsSent, PathIs
      <3>10. \A c \in PaneCommands : stdin' = Append(stdin, c) => Len(D) = 1 /\ D[1] = c
        <4> SUFFICES ASSUME NEW c \in PaneCommands, stdin' = Append(stdin, c) PROVE Len(D) = 1 /\ D[1] = c
          OBVIOUS
        <4>1. stdin' = <<c>>
          BY <2>2
        <4>2. D = <<c>>
          BY <2>2, <3>6, <4>1, ConcatEmptySeq
        <4> QED
          BY <4>2
      <3>11. Agreed(V2, O2, R, D, fnames, kernel, E, {}, disk, n, ready, ls)
        <4> DEFINE F == fnames  K == kernel  G == disk
        <4>1. /\ Agreed(V, O, R, C, F, K, E, {}, G, n, ready, ls) /\ Len(C) = 0 /\ Len(E) = 0 /\ Len(ls) = 0
              /\ \A w \in F : w.fname \in Names
          BY <3>3, <3>4, <3>5
        <4> HIDE DEF F, K, G
        <4>2. CASE p \in openDirs
          <5>1. O2 = {g \in O : ~ IsPrefix(p, g)}
            BY <1>3, <3>1, <3>6, <3>8, <4>2 DEF Under
          <5>2. Len(D) = 1 /\ D[1] = remove(p) /\ p \in O /\ p \in Paths
            BY <1>3, <3>1, <3>9, <3>10, <4>2
          <5>3. Agreed(V2, O2, R, D, F, K, E, {}, G, n, ready, ls)
            BY ONLY <3>7, <4>1, <5>1, <5>2, ToggledShut
          <5> QED
            BY <5>3 DEF F, K, G
        <4>3. CASE p \notin openDirs
          <5>1. O2 = {g \in O : ~ (IsPrefix(p, g) /\ g # p)} \union {p}
            BY <1>3, <3>1, <3>6, <3>8, <4>3 DEF Under, Below
          <5>2. Len(D) = 1 /\ D[1] = add(p) /\ p \notin O /\ p \in Paths /\ V[p] = "dir" /\ parent(p) \in Open(O)
            BY <1>3, <3>1, <3>9, <3>10, <4>3 DEF Open
          <5>3. Agreed(V2, O2, R, D, F, K, E, {}, G, n, ready, ls)
            BY ONLY <3>7, <4>1, <5>1, <5>2, ToggledOpen
          <5> QED
            BY <5>3 DEF F, K, G
        <4> QED
          BY <4>2, <4>3
      <3>12. s.items = V2 /\ s.open = O2 /\ s.prev = R /\ s.sent = D
        BY <1>3, <2>6, <3>1, <3>6 DEF PaneNow
      <3>13. Coming' = E
        BY <1>3, <3>2 DEF Coming
      <3> QED
        BY <1>3, <2>2, <3>2, <3>11, <3>12, <3>13 DEF AgreesAt
    <2>8. s.stray = stray
      BY <1>3, <2>6 DEF PaneNow
    <2> QED
      BY <2>5, <2>6, <2>7, <2>8
  <1>7. WillAgree'
    BY <1>3, <1>6 DEF WillAgree
  <1> QED
    BY <1>2, <1>4, <1>5, <1>7 DEF PaneInv

(* A connection that is lost takes all queues and watches with it.         *)
LEMMA CloseKeepsAgreed ==
  ASSUME PaneInv, wsClosed PROVE PaneInv'
  <1>1. MonInv /\ QueueOrder
    BY DEF PaneInv
  <1>2. MonInv'
    BY <1>1, ConnectionKeepsPane
  <1>3. /\ ~ link' /\ ~ isOpen' /\ ~ alive' /\ kernel' = {} /\ fnames' = {}
        /\ events' = <<>> /\ batch' = <<>> /\ stdout' = <<>>
        /\ lines' = <<>> /\ listing' = {} /\ ready' = FALSE /\ stray' = stray
    BY DEF wsClosed, stop_wait
  <1>4. QueueOrder'
    BY <1>1, <1>3 DEF QueueOrder
  <1>5. KernelInv'
    <2>1. PICK E : E = Coming'
      OBVIOUS
    <2>2. Len(E) = 0
      <3>1. E = <<>> \o <<>>
        BY <1>3, <2>1 DEF Coming
      <3> QED
        BY <3>1
    <2>3. WatchesKept({}, {})
      BY FS_EmptySet DEF WatchesKept
    <2>4. EventsTrue({}, E, disk') /\ RootKept({}, {}, E)
      BY <2>2 DEF EventsTrue, RootKept
    <2> QED
      BY <1>3, <2>1, <2>2, <2>3, <2>4 DEF KernelInv
  <1>6. WillAgree'
    BY <1>3 DEF WillAgree
  <1> QED
    BY <1>2, <1>4, <1>5, <1>6 DEF PaneInv

(* A pane that has just connected will agree, whatever it showed.          *)
LEMMA FreshPane ==
  ASSUME MonInv, stray \in BOOLEAN, ~ isOpen, kernel = {}, fnames = {}, events = <<>>, batch = <<>>,
         stdout = <<>>, lines = <<>>, listing = {}, stdin = wsOpened
  PROVE  \E q : Handles(PaneNow, stdout, q) /\ (~ q.stray => AgreesAt(q))
  <1>1. PICK s, R : s = PaneNow /\ R = s.prev
    OBVIOUS
  <1>2. s \in PaneStates
    BY <1>1, PaneNowTypes
  <1>3. Handles(s, stdout, s)
    BY <1>2, HandlesNone
  <1>4. s.items = Empty /\ s.open = {} /\ R \subseteq Paths
    BY <1>1, <1>2, StateParts DEF PaneNow
  <1>5. s.sent = wsOpened
    <2>1. wsOpened \in Seq(PaneCommands)
      BY DEF MonInv, QueueTypes
    <2>2. <<>> \o wsOpened = wsOpened
      BY <2>1, ConcatEmptySeq
    <2> QED
      BY <1>1, <2>2 DEF PaneNow
  <1>6. PICK E, ls, n : E = Coming /\ ls = lines /\ n = Len(batch)
    OBVIOUS
  <1>7. Len(E) = 0 /\ Len(ls) = 0
    <2>1. E = <<>> \o <<>>
      BY <1>6 DEF Coming
    <2> QED
      BY <1>6, <2>1
  <1>8. Agreed(Empty, {}, R, wsOpened, {}, {}, E, {}, disk, n, ready, ls)
    BY <1>4, <1>7, FreshAgrees
  <1>9. AgreesAt(s)
    BY <1>1, <1>4, <1>5, <1>6, <1>8 DEF AgreesAt
  <1> QED
    BY <1>1, <1>3, <1>9

(* A new helper starts from nothing watched and nothing on its way.        *)
LEMMA OpenKeepsAgreed ==
  ASSUME PaneInv, openWS PROVE PaneInv'
  <1>1. MonInv /\ QueueOrder /\ KernelInv
    BY DEF PaneInv
  <1>2. MonInv'
    BY <1>1, ConnectionKeepsPane
  <1>3. /\ link' /\ alive' /\ stdin' = wsOpened /\ ~ link
        /\ UNCHANGED <<disk, kernel, events, batch, fnames, ready, lines, listing, stdout>>
        /\ UNCHANGED <<isOpen, firstOpen, prevOpenFolders, shown, openDirs, stray>>
    BY DEF openWS, start_helper, kernelvars, panevars
  <1>4. KernelInv'
    BY <1>3, HelperFrame
  <1>5. /\ stray \in BOOLEAN /\ ~ isOpen /\ kernel = {} /\ fnames = {} /\ events = <<>> /\ batch = <<>>
        /\ stdout = <<>> /\ lines = <<>> /\ listing = {} /\ ~ ready /\ ready \in BOOLEAN
    BY <1>1, <1>3 DEF QueueOrder
  <1>6. QueueOrder'
    BY <1>1, <1>3, <1>5 DEF QueueOrder
  <1>7. \E q : Handles(PaneNow', stdout', q) /\ (~ q.stray => AgreesAt(q)')
    <2>1. PICK s, R : s = PaneNow' /\ R = s.prev
      OBVIOUS
    <2>2. /\ wsOpened \in Seq(PaneCommands) /\ lines' \o stdin' = wsOpened
      <3>1. wsOpened \in Seq(PaneCommands)
        BY <1>2, <1>3 DEF MonInv, QueueTypes
      <3>2. <<>> \o wsOpened = wsOpened
        BY <3>1, ConcatEmptySeq
      <3> QED
        BY <1>3, <1>5, <3>1, <3>2
    <2>3. s = [items |-> Empty, open |-> {}, prev |-> IF firstOpen THEN {Public} ELSE openDirs,
               sent |-> wsOpened, stray |-> stray]
      BY <1>3, <1>5, <2>1, <2>2 DEF PaneNow
    <2>4. R \subseteq Paths /\ s.items = Empty /\ s.open = {} /\ s.sent = wsOpened
      <3>1. Public \in Paths /\ openDirs \subseteq Paths
        BY <1>1, MonitorAssumption DEF MonInv, PaneTree
      <3> QED
        BY <2>1, <2>3, <3>1
    <2>5. s \in PaneStates
      BY <1>5, <2>1, <2>2, <2>3, <2>4 DEF PaneStates, Empty, EntryKinds
    <2>6. PICK t : t = stdout'
      OBVIOUS
    <2>7. Handles(s, t, s)
      BY <1>3, <1>5, <2>5, <2>6, HandlesNone
    <2>8. PICK E, ls, n : E = Coming' /\ ls = lines /\ n = Len(batch)
      OBVIOUS
    <2>9. Len(E) = 0 /\ Len(ls) = 0
      <3>1. E = <<>> \o <<>>
        BY <1>3, <1>5, <2>8 DEF Coming
      <3> QED
        BY <1>5, <2>8, <3>1
    <2>10. Agreed(Empty, {}, R, wsOpened, {}, {}, E, {}, disk, n, ready, ls)
      BY <2>4, <2>9, FreshAgrees
    <2>11. AgreesAt(s)'
      BY <1>3, <1>5, <2>1, <2>4, <2>8, <2>10 DEF AgreesAt
    <2> QED
      BY <2>1, <2>6, <2>7, <2>11
  <1>8. WillAgree'
    BY <1>7 DEF WillAgree
  <1> QED
    BY <1>2, <1>4, <1>6, <1>8 DEF PaneInv

LEMMA AgreedInitial == MonInit => PaneInv
  <1> SUFFICES ASSUME MonInit PROVE PaneInv
    OBVIOUS
  <1>1. MonInv
    BY PaneInitial
  <1>2. /\ stray \in BOOLEAN /\ ~ isOpen /\ kernel = {} /\ fnames = {} /\ events = <<>> /\ batch = <<>>
        /\ stdout = <<>> /\ lines = <<>> /\ listing = {} /\ stdin = wsOpened /\ ready = FALSE /\ link
    BY DEF MonInit
  <1>3. QueueOrder
    BY <1>2 DEF QueueOrder
  <1>4. KernelInv
    <2>1. PICK E : E = Coming
      OBVIOUS
    <2>2. Len(E) = 0
      <3>1. E = <<>> \o <<>>
        BY <1>2, <2>1 DEF Coming
      <3> QED
        BY <3>1
    <2>3. WatchesKept({}, {})
      BY FS_EmptySet DEF WatchesKept
    <2>4. EventsTrue({}, E, disk) /\ RootKept({}, {}, E)
      BY <2>2 DEF EventsTrue, RootKept
    <2> QED
      BY <1>2, <2>1, <2>2, <2>3, <2>4 DEF KernelInv
  <1>5. WillAgree
    BY <1>1, <1>2, FreshPane DEF WillAgree
  <1> QED
    BY <1>1, <1>3, <1>4, <1>5 DEF PaneInv

LEMMA AgreedStep == PaneInv /\ [MonNext]_monvars => PaneInv'
  <1> SUFFICES ASSUME PaneInv, [MonNext]_monvars PROVE PaneInv'
    OBVIOUS
  <1>1. CASE UNCHANGED monvars
    <2>1. MonInv'
      BY <1>1, PaneStep DEF PaneInv
    <2>2. /\ UNCHANGED <<disk, kernel, events, batch, fnames, ready, lines, listing>>
          /\ UNCHANGED <<stdin, stdout, alive, link, hasty, renamed, stray>>
          /\ UNCHANGED <<isOpen, firstOpen, prevOpenFolders, shown, openDirs>>
      BY <1>1 DEF monvars, kernelvars, helpervars, panevars
    <2>3. KernelInv' /\ \A q : AgreesAt(q) => AgreesAt(q)'
      BY <2>2, HelperFrame
    <2>4. QueueOrder' /\ PaneNow' = PaneNow
      BY <2>2 DEF PaneInv, QueueOrder, PaneNow
    <2>5. WillAgree'
      BY <2>2, <2>3, <2>4 DEF PaneInv, WillAgree
    <2> QED
      BY <2>1, <2>3, <2>4, <2>5 DEF PaneInv
  <1>2. ASSUME NEW p \in Paths, \/ \E k \in {"dir", "file"} : Create(p, k)
                                \/ Chmod(p) \/ Delete(p) \/ toggleDir(p)
                                \/ \E q \in Paths : Move(p, q)
        PROVE  PaneInv'
    BY <1>2, CreateKeepsAgreed, ChmodKeepsAgreed, DeleteKeepsAgreed, ToggleKeepsAgreed, MoveKeepsAgreed
  <1>3. CASE Select \/ ReadStdin \/ AddWatch \/ List \/ RemoveWatch \/ Echo \/ HandleEvent
    BY <1>3, SelectKeepsAgreed, ReadKeepsAgreed, AddKeepsAgreed, ListKeepsAgreed, RemoveKeepsAgreed,
       EchoKeepsAgreed, HandleKeepsAgreed
  <1>4. CASE FirstMessage \/ Message \/ wsClosed \/ openWS
    BY <1>4, FirstMessageKeepsAgreed, MessageKeepsAgreed, CloseKeepsAgreed, OpenKeepsAgreed
  <1> QED
    BY <1>1, <1>2, <1>3, <1>4 DEF MonNext

(* When all is quiet there is nothing left to handle: the pane that will   *)
(* agree is the pane there is.                                             *)
LEMMA QuietPane ==
  ASSUME PaneInv, ~ hasty, ~ renamed PROVE PaneSettles
  <1> SUFFICES ASSUME Settled, ~ stray PROVE PaneSettles
    BY DEF PaneSettles, PaneComplete, PaneSound, WatchedAreOpen
  <1>1. /\ isOpen /\ alive /\ link /\ events = <<>> /\ batch = <<>> /\ lines = <<>> /\ listing = {}
        /\ stdin = <<>> /\ stdout = <<>>
    BY DEF Settled
  <1>2. MonInv /\ QueueOrder /\ WillAgree
    BY DEF PaneInv
  <1>3. PICK q : Handles(PaneNow, stdout, q) /\ (~ q.stray => AgreesAt(q))
    BY <1>1, <1>2 DEF WillAgree
  <1>4. PaneNow \in PaneStates
    BY <1>2, PaneNowTypes DEF QueueOrder
  <1>5. q = PaneNow
    BY <1>1, <1>3, <1>4, HandlesNone
  <1>6. q.items = shown /\ q.open = openDirs /\ q.stray = stray /\ q.sent = <<>>
    BY <1>1, <1>5, ConcatEmptySeq DEF PaneNow
  <1>7. Coming = <<>>
    BY <1>1, ConcatEmptySeq DEF Coming
  <1>8. PICK V, O, R, C, F : V = shown /\ O = openDirs /\ R = q.prev /\ C = q.sent /\ F = fnames
    OBVIOUS
  <1>9. PICK K, E, G, n, rdy, ls :
          K = kernel /\ E = Coming /\ G = disk /\ n = Len(batch) /\ rdy = ready /\ ls = lines
    OBVIOUS
  <1>10. Agreed(V, O, R, C, F, K, E, {}, G, n, rdy, ls) /\ Len(C) = 0 /\ Len(E) = 0
    BY <1>1, <1>3, <1>6, <1>7, <1>8, <1>9 DEF AgreesAt
  <1>11. /\ \A w \in F : w.fname \in Open(O)
         /\ \A h \in Open(O) : Watched(F, h)
         /\ \A x \in Paths : parent(x) \in Open(O) =>
              /\ V[x] # "none" => V[x] = G[x]
              /\ G[x] # "none" => V[x] # "none"
    BY ONLY <1>10, QuietAgrees
  <1>12. /\ \A w \in fnames : w.fname \in openDirs \union {Root}
         /\ \A h \in openDirs \union {Root} : \E w \in fnames : w.fname = h
         /\ \A x \in Paths : parent(x) \in openDirs \union {Root} =>
              /\ shown[x] # "none" => shown[x] = disk[x]
              /\ disk[x] # "none" => shown[x] # "none"
    BY <1>8, <1>9, <1>11 DEF Open, Watched
  <1>13. PaneComplete /\ PaneSound
    BY <1>12 DEF PaneComplete, PaneSound, Children
  <1>14. WatchedAreOpen
    BY <1>12 DEF WatchedAreOpen
  <1> QED
    BY <1>13, <1>14 DEF PaneSettles

(* On the pane of a site with one appserver: whatever order changes,       *)
(* events and answers came in, and however often the connection was lost,  *)
(* once all is handled the pane, the files and the helper agree - if no    *)
(* folder was clicked with messages under way, and no watch got another    *)
(* name.                                                                   *)
THEOREM PaneAgrees == MonSpec => [](~ hasty /\ ~ renamed => PaneSettles)
  <1>1. PaneInv => (~ hasty /\ ~ renamed => PaneSettles)
    BY QuietPane
  <1> QED
    BY <1>1, AgreedInitial, AgreedStep, PTL DEF MonSpec
=============================================================================

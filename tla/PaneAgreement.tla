---------------------------- MODULE PaneAgreement ----------------------------
(***************************************************************************)
(* What the pane will show and have open once it has handled the messages  *)
(* on their way agrees with the files and with what the helper watches, up *)
(* to the events and commands that are still to be handled.  The parts of  *)
(* this invariant are stated of                                            *)
(*   V, O, R  the items, the open folders and those to be opened again,    *)
(*   C        the commands on their way, those the helper has read first,  *)
(*   F, K     the helper's watches and the kernel's,                       *)
(*   E        the events on their way, of which the helper has read n,     *)
(*   L        what is to be listed,                                        *)
(*   G        the files.                                                   *)
(***************************************************************************)
EXTENDS FileMonitor, FiniteSetTheorems, WellFoundedInduction, SequenceTheorems, TLAPS

Names == Seq(STRING)
Gone == {"DELETE", "MOVED_FROM"}
Came == {"CREATE", "MOVED_TO"}
Left == {"DELETE_SELF", "MOVE_SELF"}
Plain == {"file", "exec"}

Open(O) == O \union {Root}
Watched(F, d) == \E w \in F : w.fname = d
Live(K, w) == \E k \in K : k.wd = w.wd /\ k.at = w.fname

(* The event i will be told as one about the path p.                       *)
PathOf(w, e) == w.fname \o e.name
Tells(F, E, i, M, p) ==
  E[i].mask \in M /\ \E w \in F : w.wd = E[i].wd /\ p = PathOf(w, E[i])

(* The event i removes p, or a folder it is in, from the pane.             *)
Dooms(F, E, i, p) ==
  E[i].mask \in Gone /\ \E w \in F : w.wd = E[i].wd /\ IsPrefix(PathOf(w, E[i]), p)
Doomed(F, E, p) == \E i \in 1..Len(E) : Dooms(F, E, i, p)

Adds(C, i, p) == C[i].op = "add" /\ C[i].fname = p
Adding(C, p) == \E i \in 1..Len(C) : Adds(C, i, p)
Removes(C, i, p) == C[i].op = "remove" /\ IsPrefix(C[i].fname, p)
Removing(C, n, p) == \E i \in 1..Len(C) : i > n /\ Removes(C, i, p)

-----------------------------------------------------------------------------
(* The pane keeps a tree: a folder that is open is in folders that are.    *)
TreeKept(V, O, R) ==
  /\ V \in [Paths -> EntryKinds \union {"unknown"}]
  /\ \A p \in Paths : V[p] # "none" => parent(p) = Root \/ V[parent(p)] = "dir"
  /\ O \subseteq Paths /\ \A g \in O : V[g] = "dir"
  /\ \A g \in O : \A d \in Paths : IsPrefix(d, g) => d \in O
  /\ R \subseteq Paths /\ \A p \in R : V[p] = "none"

(* Nothing is watched, or will be, below a folder to be opened again.      *)
Forgotten(R, F, C, L) ==
  \A p \in R : /\ \A w \in F : ~ IsPrefix(p, w.fname)
               /\ \A i \in 1..Len(C) : C[i].op = "add" => ~ IsPrefix(p, C[i].fname)
               /\ \A d \in L : ~ IsPrefix(p, d)

(* A folder that is open is removed only before it is added.               *)
AddedLast(O, F, C, L) ==
  \A i \in 1..Len(C) : C[i].op = "remove" =>
    /\ C[i].fname # Root
    /\ \A h \in O : IsPrefix(C[i].fname, h) =>
         /\ C[i].fname = h /\ ~ Watched(F, h) /\ h \notin L
         /\ \A j \in 1..Len(C) : Adds(C, j, h) => j > i

(* A folder that is added after it was removed is not watched before.      *)
AddedAgain(F, C) ==
  \A i, j \in 1..Len(C) : i < j /\ C[j].op = "add" /\ Removes(C, i, C[j].fname) =>
    /\ C[i].fname = C[j].fname /\ ~ Watched(F, C[j].fname)
    /\ \A k \in 1..Len(C) : Adds(C, k, C[j].fname) => k > i

(* What is about to be listed is not watched yet when it is open.          *)
ListedBefore(O, F, C, L) ==
  \A g \in O :
    /\ parent(g) \in L => ~ Watched(F, g) /\ g \notin L
    /\ \A i \in 1..Len(C) : Adds(C, i, parent(g)) =>
         ~ Watched(F, g) /\ g \notin L /\ \A j \in 1..Len(C) : Adds(C, j, g) => j > i

(* Nor is what is about to be created, unless it is removed before.        *)
CreatedBefore(O, F, E, L, n, rdy, lns) ==
  \A g \in O : \A i \in 1..Len(E) : Tells(F, E, i, Came, g) =>
    \/ \E j \in 1..Len(E) : j < i /\ Dooms(F, E, j, g)
    \/ /\ ~ Watched(F, g) /\ g \notin L
       /\ \A j \in 1..Len(lns) : ~ Adds(lns, j, g)
       /\ i > n => ~ rdy

(* What is watched, or will be, is open or will be forgotten.              *)
WatchedOpen(O, F, C, E) ==
  \A w \in F : w.fname \in Open(O) \/ Removing(C, 0, w.fname) \/ Doomed(F, E, w.fname)
AddedOpen(O, F, C, E) ==
  \A i \in 1..Len(C) : C[i].op = "add" =>
    C[i].fname \in Open(O) \/ Removing(C, i, C[i].fname) \/ Doomed(F, E, C[i].fname)

(* What is open is watched, or will be watched or closed.                  *)
OpenWatched(O, F, C, E) ==
  \A h \in Open(O) : Watched(F, h) \/ Adding(C, h) \/ Doomed(F, E, h)

(* A watch whose directory has gone from its name will be forgotten.       *)
StaleDoomed(F, K, C, E) ==
  \A w \in F : Live(K, w) \/ Removing(C, 0, w.fname) \/ Doomed(F, E, w.fname)
StaleLeft(O, F, K, E) ==
  \A w \in F : w.fname # Root /\ parent(w.fname) \in Open(O) /\ ~ Live(K, w) =>
    \/ \E i \in 1..Len(E) : E[i].wd = w.wd /\ E[i].mask \in Left
    \/ Doomed(F, E, parent(w.fname))

(* ... and if something is there again, then its creation comes later.     *)
LeftCreated(O, F, E, G) ==
  \A w \in F : w.fname \in Paths /\ parent(w.fname) \in Open(O) /\ G[w.fname] # "none" =>
    \A i \in 1..Len(E) :
      /\ E[i].wd = w.wd /\ E[i].mask \in Left
      /\ \A j \in 1..Len(E) : j < i => ~ (E[j].wd = w.wd /\ E[j].mask \in Left)
      => \/ Doomed(F, E, parent(w.fname))
         \/ \E j \in 1..Len(E) : j > i /\ Tells(F, E, j, Came, w.fname)

(* What is shown in an open folder is there as that.                       *)
ShownThere(V, O, F, E, G) ==
  \A p \in Paths : parent(p) \in Open(O) /\ V[p] # "none" =>
    \/ V[p] = G[p]
    \/ Doomed(F, E, p)
    \/ /\ V[p] \in Plain /\ G[p] \in Plain
       /\ \E i \in 1..Len(E) : Tells(F, E, i, Came \union {"ATTRIB"}, p)

(* What is there in an open folder is shown.                               *)
ThereShown(V, O, F, C, E, L, G) ==
  \A p \in Paths : parent(p) \in Open(O) /\ G[p] # "none" =>
    \/ V[p] # "none"
    \/ \E i \in 1..Len(E) : Tells(F, E, i, Came, p)
    \/ Adding(C, parent(p)) \/ parent(p) \in L \/ Doomed(F, E, p)

(* An open folder with items is watched; one that is not has nothing       *)
(* watched below it.                                                       *)
ItemsWatched(V, O, F) ==
  \A p \in Paths : parent(p) \in Open(O) /\ V[p] # "none" => Watched(F, parent(p))
WatchedAbove(O, F, C) ==
  \A h \in Open(O) : ~ Watched(F, h) =>
    /\ \A w \in F : ~ IsPrefix(h, w.fname)
    /\ \A i \in 1..Len(C) : C[i].op = "add" /\ IsPrefix(h, C[i].fname) => C[i].fname = h

(* Of two watches with one name, one is older than what removes both.      *)
TwinsDoomed(O, F, E) ==
  \A v, w \in F : v # w /\ v.fname = w.fname /\ v.fname \in Open(O) =>
    \E j \in 1..Len(E) :
      /\ Dooms(F, E, j, v.fname)
      /\ \/ \A i \in 1..Len(E) : E[i].wd = v.wd => j < i
         \/ \A i \in 1..Len(E) : E[i].wd = w.wd => j < i

Agreed(V, O, R, C, F, K, E, L, G, n, rdy, lns) ==
  /\ TreeKept(V, O, R) /\ Forgotten(R, F, C, L)
  /\ AddedLast(O, F, C, L) /\ AddedAgain(F, C)
  /\ ListedBefore(O, F, C, L) /\ CreatedBefore(O, F, E, L, n, rdy, lns)
  /\ WatchedOpen(O, F, C, E) /\ AddedOpen(O, F, C, E) /\ OpenWatched(O, F, C, E)
  /\ StaleDoomed(F, K, C, E) /\ StaleLeft(O, F, K, E) /\ LeftCreated(O, F, E, G)
  /\ ShownThere(V, O, F, E, G) /\ ThereShown(V, O, F, C, E, L, G)
  /\ ItemsWatched(V, O, F) /\ WatchedAbove(O, F, C) /\ TwinsDoomed(O, F, E)

-----------------------------------------------------------------------------
(* What holds of the kernel and the helper whatever the pane does.         *)

(* Every watch of the kernel has a name, and only one for a directory.     *)
WatchesKept(K, F) ==
  /\ IsFiniteSet(K) /\ IsFiniteSet(F)
  /\ \A v, w \in F : v.wd = w.wd => v = w
  /\ \A k \in K : \E w \in F : w.wd = k.wd
  /\ \A k, x \in K : k.wd = x.wd \/ k.at = x.at => k = x

(* The last event of an entry tells whether it is there.                   *)
There(G, p) == p \in Paths /\ G[p] # "none"
At(k, e) == k.at \o e.name
Later(E, i, M) ==
  \E j \in 1..Len(E) : j > i /\ E[j].mask \in M /\ E[j].wd = E[i].wd /\ E[j].name = E[i].name
EventsTrue(K, E, G) ==
  /\ \A k \in K : \A i \in 1..Len(E) : E[i].wd = k.wd =>
       /\ E[i].mask \in Gone /\ There(G, At(k, E[i])) => Later(E, i, Came)
       /\ E[i].mask \in Came /\ ~ There(G, At(k, E[i])) => Later(E, i, Gone)
  /\ \A i, j \in 1..Len(E) :
       /\ i < j /\ E[i].mask \in Came /\ E[j].mask \in Came
       /\ E[i].wd = E[j].wd /\ E[i].name = E[j].name
       => \E l \in 1..Len(E) : /\ i < l /\ l < j /\ E[l].mask \in Gone
                               /\ E[l].wd = E[i].wd /\ E[l].name = E[i].name

(* The root stays.                                                         *)
RootKept(K, F, E) ==
  /\ \A i \in 1..Len(E) : E[i].mask \in Left =>
       /\ \A k \in K : k.wd = E[i].wd => k.at # Root
       /\ \A w \in F : w.wd = E[i].wd => w.fname # Root
  /\ \A w \in F : w.fname = Root => \A k \in K : k.wd = w.wd => k.at = Root

-----------------------------------------------------------------------------
(* The order of paths *)

LEMMA HasLeast ==
  ASSUME NEW T, T \subseteq Nat, T # {} PROVE \E x \in T : \A y \in T : x <= y
  <1> DEFINE R == OpToRel(<, Nat)
  <1>1. IsWellFoundedOn(R, Nat)
    BY NatLessThanWellFounded
  <1>2. \A x, y \in Nat : <<y, x>> \in R <=> y < x
    BY DEF OpToRel
  <1> HIDE DEF R
  <1>3. PICK x \in T : \A y \in T : ~ (<<y, x>> \in R)
    BY <1>1, WFMin
  <1>4. ASSUME NEW y \in T PROVE x <= y
    <2>1. x \in Nat /\ y \in Nat /\ ~ (y < x)
      BY <1>2, <1>3
    <2> QED
      BY ONLY <2>1
  <1> QED
    BY <1>4

(* Prefixes, name by name.                                                 *)
LEMMA PrefixIs ==
  ASSUME NEW s \in Seq(STRING), NEW t \in Seq(STRING)
  PROVE  /\ IsPrefix(s, t) <=> Len(s) <= Len(t) /\ \A i \in 1..Len(s) : s[i] = t[i]
         /\ s = t <=> Len(s) = Len(t) /\ \A i \in 1..Len(s) : s[i] = t[i]
  <1>1. /\ Len(s) \in Nat /\ Len(t) \in Nat
        /\ (\A i \in 1..Len(s) : s[i] \in STRING) /\ (\A i \in 1..Len(t) : t[i] \in STRING)
    BY LenProperties, ElementOfSeq
  <1>2. s = t <=> Len(s) = Len(t) /\ \A i \in 1..Len(s) : s[i] = t[i]
    BY SeqEqual
  <1>3. ASSUME Len(s) <= Len(t)
        PROVE  SubSeq(s, 1, Len(s)) = SubSeq(t, 1, Len(s)) <=> \A i \in 1..Len(s) : s[i] = t[i]
    <2>1. SubSeq(s, 1, Len(s)) = s
      BY SubSeqFull
    <2>2. \A i \in 1..Len(s) : t[i] \in STRING
      BY <1>1, <1>3
    <2>3. Len(s) \in Int /\ 1 \in Int
      BY <1>1
    <2>4. /\ SubSeq(t, 1, Len(s)) \in Seq(STRING)
          /\ Len(SubSeq(t, 1, Len(s))) = IF 1 <= Len(s) THEN Len(s) - 1 + 1 ELSE 0
          /\ \A i \in 1 .. Len(s) - 1 + 1 : SubSeq(t, 1, Len(s))[i] = t[1 + i - 1]
      BY ONLY <2>2, <2>3, SubSeqProperties
    <2>5. Len(SubSeq(t, 1, Len(s))) = Len(s) /\ \A i \in 1..Len(s) : SubSeq(t, 1, Len(s))[i] = t[i]
      BY <1>1, <2>4
    <2> DEFINE u == SubSeq(t, 1, Len(s))
    <2> HIDE DEF u
    <2>6. u \in Seq(STRING) /\ Len(u) = Len(s) /\ \A i \in 1..Len(s) : u[i] = t[i]
      BY <2>4, <2>5 DEF u
    <2>7. s = u <=> \A i \in 1..Len(s) : s[i] = u[i]
      BY <2>6, SeqEqual
    <2> QED
      BY <2>1, <2>6, <2>7 DEF u
  <1> QED
    BY <1>2, <1>3 DEF IsPrefix

(* The order of paths.                                                     *)
LEMMA PrefixOrder ==
  ASSUME NEW s \in Seq(STRING), NEW t \in Seq(STRING), NEW u \in Seq(STRING)
  PROVE  /\ IsPrefix(s, s)
         /\ IsPrefix(s, t) /\ IsPrefix(t, u) => IsPrefix(s, u)
         /\ IsPrefix(s, u) /\ IsPrefix(t, u) /\ Len(s) <= Len(t) => IsPrefix(s, t)
         /\ IsPrefix(s, t) /\ Len(s) = Len(t) => s = t
         /\ IsPrefix(s, t) => Len(s) <= Len(t)
  <1>1. Len(s) \in Nat /\ Len(t) \in Nat /\ Len(u) \in Nat
    BY LenProperties
  <1>2. IsPrefix(s, s)
    BY <1>1, PrefixIs
  <1>3. /\ IsPrefix(s, t) <=> Len(s) <= Len(t) /\ \A i \in 1..Len(s) : s[i] = t[i]
        /\ IsPrefix(t, u) <=> Len(t) <= Len(u) /\ \A i \in 1..Len(t) : t[i] = u[i]
        /\ IsPrefix(s, u) <=> Len(s) <= Len(u) /\ \A i \in 1..Len(s) : s[i] = u[i]
        /\ s = t <=> Len(s) = Len(t) /\ \A i \in 1..Len(s) : s[i] = t[i]
    BY PrefixIs
  <1>4. IsPrefix(s, t) /\ IsPrefix(t, u) => IsPrefix(s, u)
    BY ONLY <1>1, <1>3
  <1>5. IsPrefix(s, u) /\ IsPrefix(t, u) /\ Len(s) <= Len(t) => IsPrefix(s, t)
    BY ONLY <1>1, <1>3
  <1> QED
    BY <1>2, <1>3, <1>4, <1>5

(* The parent of a path is the path without its last name.                 *)
LEMMA ParentIs ==
  ASSUME NEW p \in Seq(STRING), p # <<>>
  PROVE  /\ parent(p) \in Seq(STRING) /\ Len(p) \in Nat \ {0} /\ Len(parent(p)) = Len(p) - 1
         /\ \A i \in 1 .. Len(p) - 1 : parent(p)[i] = p[i]
  <1>1. Len(p) \in Nat \ {0} /\ \A i \in 1 .. Len(p) - 1 : p[i] \in STRING
    <2>1. Len(p) \in Nat \ {0} /\ \A i \in 1..Len(p) : p[i] \in STRING
      BY LenProperties, ElementOfSeq, EmptySeq
    <2> QED
      BY <2>1
  <1>2. Len(p) - 1 \in Int /\ 1 \in Int
    BY <1>1
  <1> DEFINE d == SubSeq(p, 1, Len(p) - 1)
  <1>3. /\ d \in Seq(STRING)
        /\ Len(d) = IF 1 <= Len(p) - 1 THEN Len(p) - 1 - 1 + 1 ELSE 0
        /\ \A i \in 1 .. Len(p) - 1 - 1 + 1 : d[i] = p[1 + i - 1]
    BY ONLY <1>1, <1>2, SubSeqProperties
  <1> HIDE DEF d
  <1>4. Len(p) - 1 - 1 + 1 = Len(p) - 1 /\ \A i \in 1 .. Len(p) - 1 : 1 + i - 1 = i
    BY <1>1
  <1>5. \A n \in Nat \ {0} : (IF 1 <= n - 1 THEN n - 1 - 1 + 1 ELSE 0) = n - 1
    OBVIOUS
  <1>6. Len(d) = Len(p) - 1
    BY ONLY <1>1, <1>3, <1>5
  <1> QED
    BY <1>1, <1>3, <1>4, <1>6 DEF parent, d

LEMMA ParentOrder ==
  ASSUME NEW p \in Seq(STRING), p # <<>>, NEW q \in Seq(STRING)
  PROVE  /\ IsPrefix(parent(p), p) /\ parent(p) # p /\ ~ IsPrefix(p, parent(p))
         /\ IsPrefix(q, p) /\ q # p => IsPrefix(q, parent(p))
         /\ IsPrefix(q, parent(p)) => IsPrefix(q, p)
  <1>1. /\ Len(p) \in Nat \ {0} /\ parent(p) \in Seq(STRING)
        /\ Len(parent(p)) = Len(p) - 1 /\ \A i \in 1 .. Len(p) - 1 : parent(p)[i] = p[i]
    BY ParentIs
  <1>2. Len(q) \in Nat
    BY LenProperties
  <1>3. IsPrefix(parent(p), p)
    <2>1. \A i \in 1..Len(parent(p)) : parent(p)[i] = p[i]
      BY <1>1
    <2>2. Len(parent(p)) <= Len(p)
      BY <1>1
    <2> QED
      BY <1>1, <2>1, <2>2, PrefixIs
  <1>4. ASSUME IsPrefix(q, p), q # p PROVE IsPrefix(q, parent(p))
    <2>1. Len(q) <= Len(p) /\ Len(q) # Len(p)
      BY <1>1, <1>4, PrefixOrder
    <2>2. Len(q) <= Len(parent(p))
      BY <1>1, <1>2, <2>1
    <2> QED
      BY <1>1, <1>3, <1>4, <2>2, PrefixOrder
  <1>5. ~ IsPrefix(p, parent(p)) /\ parent(p) # p
    <2>1. ~ (Len(p) <= Len(parent(p))) /\ Len(p) # Len(parent(p))
      BY <1>1
    <2> QED
      BY <1>1, <2>1, PrefixOrder
  <1>6. IsPrefix(q, parent(p)) => IsPrefix(q, p)
    BY <1>1, <1>3, PrefixOrder
  <1> QED
    BY <1>3, <1>4, <1>5, <1>6

LEMMA NotAboveRoot == \A p \in Seq(STRING) : p # <<>> => ~ IsPrefix(p, Root)
  <1> SUFFICES ASSUME NEW p \in Seq(STRING), p # <<>> PROVE ~ IsPrefix(p, Root)
    OBVIOUS
  <1>1. Len(p) \in Nat \ {0} /\ Len(Root) = 0 /\ Root \in Seq(STRING)
    BY EmptySeq DEF Root
  <1>2. ~ (Len(p) <= Len(Root))
    BY <1>1
  <1> QED
    BY <1>1, <1>2, PrefixOrder

(* A path is a sequence of names below the root.                           *)
LEMMA PathIs ==
  /\ \A p \in Paths : /\ p \in Seq(STRING) /\ p # <<>> /\ p # Root /\ parent(p) \in Paths \union {Root}
                      /\ parent(p) \in Seq(STRING) /\ <<p[Len(p)]>> \in Seq(STRING)
  /\ Root \in Seq(STRING) /\ Root = <<>> /\ Root \notin Paths
  <1>1. Root \in Seq(STRING) /\ Root = <<>>
    BY EmptySeq DEF Root
  <1>2. ASSUME NEW p \in Paths
        PROVE  /\ p \in Seq(STRING) /\ p # <<>> /\ p # Root /\ parent(p) \in Paths \union {Root}
               /\ parent(p) \in Seq(STRING) /\ <<p[Len(p)]>> \in Seq(STRING)
    <2>1. p \in Seq(STRING) /\ p # Root /\ parent(p) \in Paths \union {Root}
      BY MonitorAssumption
    <2>2. Len(p) \in 1..Len(p)
      BY <1>1, <2>1, EmptySeq
    <2>3. p[Len(p)] \in STRING
      BY <2>1, <2>2, ElementOfSeq
    <2>4. <<p[Len(p)]>> \in Seq(STRING)
      BY <2>3
    <2> QED
      BY <1>1, <2>1, <2>4, ParentIs
  <1> QED
    BY <1>1, <1>2

LEMMA PathOrder ==
  /\ Root \in Names
  /\ \A p \in Names : IsPrefix(p, p) /\ IsPrefix(Root, p) /\ (IsPrefix(p, Root) => p = Root)
  /\ \A p, q \in Names : IsPrefix(p, q) /\ IsPrefix(q, p) => p = q
  /\ \A p, q, r \in Names : /\ IsPrefix(p, q) /\ IsPrefix(q, r) => IsPrefix(p, r)
                            /\ IsPrefix(p, r) /\ IsPrefix(q, r) => IsPrefix(p, q) \/ IsPrefix(q, p)
  <1> USE DEF Names
  <1>1. Root \in Seq(STRING) /\ Root = <<>>
    BY EmptySeq DEF Root
  <1>2. ASSUME NEW p \in Seq(STRING)
        PROVE  IsPrefix(p, p) /\ IsPrefix(Root, p) /\ (IsPrefix(p, Root) => p = Root)
    <2>1. IsPrefix(p, p)
      BY PrefixOrder
    <2>2. IsPrefix(p, Root) => p = Root
      BY <1>1, NotAboveRoot
    <2>3. IsPrefix(Root, p)
      <3>1. Len(Root) = 0 /\ Len(p) \in Nat
        BY <1>1, EmptySeq, LenProperties
      <3>2. Len(Root) <= Len(p) /\ \A i \in 1..Len(Root) : Root[i] = p[i]
        BY <3>1
      <3> HIDE DEF Root
      <3> QED
        BY <1>1, <3>2, PrefixIs
    <2> QED
      BY <2>1, <2>2, <2>3
  <1>3. ASSUME NEW p \in Seq(STRING), NEW q \in Seq(STRING), IsPrefix(p, q), IsPrefix(q, p) PROVE p = q
    <2>1. Len(p) <= Len(q) /\ Len(q) <= Len(p) /\ Len(p) \in Nat /\ Len(q) \in Nat
      BY <1>3, PrefixOrder, LenProperties
    <2>2. Len(p) = Len(q)
      BY ONLY <2>1
    <2> QED
      BY <1>3, <2>2, PrefixOrder
  <1>4. ASSUME NEW p \in Seq(STRING), NEW q \in Seq(STRING), NEW r \in Seq(STRING)
        PROVE  /\ IsPrefix(p, q) /\ IsPrefix(q, r) => IsPrefix(p, r)
               /\ IsPrefix(p, r) /\ IsPrefix(q, r) => IsPrefix(p, q) \/ IsPrefix(q, p)
    <2>1. Len(p) \in Nat /\ Len(q) \in Nat
      BY LenProperties
    <2>2. Len(p) <= Len(q) \/ Len(q) <= Len(p)
      BY ONLY <2>1
    <2> QED
      BY <2>2, PrefixOrder
  <1> QED
    BY <1>1, <1>2, <1>3, <1>4

LEMMA AboveIs ==
  ASSUME NEW p \in Names, p # Root
  PROVE  /\ parent(p) \in Names /\ IsPrefix(parent(p), p) /\ ~ IsPrefix(p, parent(p)) /\ parent(p) # p
         /\ \A q \in Names : /\ IsPrefix(q, p) /\ q # p => IsPrefix(q, parent(p))
                             /\ IsPrefix(q, parent(p)) => IsPrefix(q, p) /\ q # p
  <1>1. p \in Seq(STRING) /\ p # <<>>
    BY DEF Names, Root
  <1>2. parent(p) \in Seq(STRING) /\ IsPrefix(parent(p), p) /\ ~ IsPrefix(p, parent(p)) /\ parent(p) # p
    BY <1>1, ParentIs, ParentOrder
  <1>3. ASSUME NEW q \in Seq(STRING)
        PROVE  /\ IsPrefix(q, p) /\ q # p => IsPrefix(q, parent(p))
               /\ IsPrefix(q, parent(p)) => IsPrefix(q, p) /\ q # p
    BY <1>1, <1>2, ParentOrder
  <1> QED
    BY <1>2, <1>3 DEF Names

(* What is above a path is a path, up to the root.                         *)
LEMMA PathsAbove ==
  /\ Root \notin Paths
  /\ \A p \in Paths : p \in Names /\ p # Root /\ parent(p) \in Open(Paths)
  /\ \A p \in Paths : \A q \in Names : IsPrefix(q, p) /\ q # Root => q \in Paths
  <1>1. /\ Root \notin Paths
        /\ \A p \in Paths : p \in Names /\ p # Root /\ parent(p) \in Open(Paths)
    BY PathIs DEF Names, Open
  <1>2. ASSUME NEW p \in Paths, NEW q \in Names, IsPrefix(q, p), q # Root PROVE q \in Paths
    <2> DEFINE T == {Len(c) : c \in {y \in Paths : IsPrefix(q, y)}}
    <2>1. Len(p) \in T /\ T \subseteq Nat
      BY <1>1, <1>2, LenProperties DEF Names
    <2>2. PICK n \in T : \A m \in T : n <= m
      BY <2>1, HasLeast
    <2>3. PICK c \in Paths : IsPrefix(q, c) /\ n = Len(c)
      BY <2>2
    <2>4. \A y \in Paths : IsPrefix(q, y) => Len(c) <= Len(y)
      BY <2>2, <2>3
    <2> HIDE DEF T
    <2>5. SUFFICES ASSUME q # c PROVE FALSE
      BY <2>3
    <2>6. c \in Names /\ c # Root /\ parent(c) \in Open(Paths)
      BY <1>1
    <2>7. IsPrefix(q, parent(c)) /\ parent(c) \in Names
      BY <2>3, <2>5, <2>6, AboveIs
    <2>8. parent(c) # Root
      BY <1>2, <2>7, PathOrder
    <2>9. Len(c) \in Nat \ {0} /\ Len(parent(c)) = Len(c) - 1
      BY <2>6, ParentIs DEF Names, Root
    <2>10. ~ (Len(c) <= Len(parent(c)))
      BY <2>9
    <2> QED
      BY <2>4, <2>6, <2>7, <2>8, <2>10 DEF Open
  <1> QED
    BY <1>1, <1>2

LEMMA ChildIs ==
  ASSUME NEW d \in Names, NEW x \in Names, Len(x) = 1
  PROVE  /\ d \o x \in Names /\ d \o x # Root /\ parent(d \o x) = d
         /\ \A y \in Names : Len(y) = 1 /\ d \o y = d \o x => y = x
  <1> USE DEF Names
  <1>1. Len(d) \in Nat /\ x[1] \in STRING /\ x = <<x[1]>>
    <2>1. 1 \in 1..Len(x)
      OBVIOUS
    <2>2. x[1] \in STRING
      BY <2>1, ElementOfSeq
    <2> QED
      BY <2>2, LenProperties
  <1>2. /\ d \o x \in Seq(STRING) /\ Len(d \o x) = Len(d) + 1
        /\ \A i \in 1 .. Len(d) + 1 : (d \o x)[i] = IF i <= Len(d) THEN d[i] ELSE x[i - Len(d)]
    <2>1. d \in Seq(STRING) /\ x \in Seq(STRING)
      OBVIOUS
    <2>2. /\ d \o x \in Seq(STRING) /\ Len(d \o x) = Len(d) + Len(x)
          /\ \A i \in 1 .. Len(d) + Len(x) : (d \o x)[i] = IF i <= Len(d) THEN d[i] ELSE x[i - Len(d)]
      BY ONLY <2>1, ConcatProperties
    <2> QED
      BY <2>2, Zenon
  <1> DEFINE p == d \o x
  <1> HIDE DEF p
  <1>3. p \in Seq(STRING) /\ Len(p) = Len(d) + 1 /\ p[Len(d) + 1] = x[1] /\ \A i \in 1..Len(d) : p[i] = d[i]
    <2>1. Len(d) + 1 \in 1 .. Len(d) + 1 /\ ~ (Len(d) + 1 <= Len(d)) /\ Len(d) + 1 - Len(d) = 1
      BY <1>1
    <2>2. \A i \in 1..Len(d) : i \in 1 .. Len(d) + 1 /\ i <= Len(d)
      BY <1>1
    <2> QED
      BY <1>2, <2>1, <2>2 DEF p
  <1>4. p # <<>>
    <2>1. Len(p) # 0
      BY <1>1, <1>3
    <2> QED
      BY <2>1, EmptySeq
  <1>5. parent(p) = d
    <2>1. /\ parent(p) \in Seq(STRING) /\ Len(parent(p)) = Len(p) - 1
          /\ \A i \in 1 .. Len(p) - 1 : parent(p)[i] = p[i]
      BY <1>3, <1>4, ParentIs
    <2>2. Len(p) - 1 = Len(d)
      BY <1>1, <1>3
    <2> QED
      BY <1>3, <2>1, <2>2, SeqEqual
  <1>6. ASSUME NEW y \in Seq(STRING), Len(y) = 1, d \o y = d \o x PROVE y = x
    <2>1. /\ Len(d \o y) = Len(d) + 1
          /\ \A i \in 1 .. Len(d) + 1 : (d \o y)[i] = IF i <= Len(d) THEN d[i] ELSE y[i - Len(d)]
      BY <1>6, ConcatProperties
    <2>2. (d \o y)[Len(d) + 1] = y[1]
      <3>1. Len(d) + 1 \in 1 .. Len(d) + 1 /\ ~ (Len(d) + 1 <= Len(d)) /\ Len(d) + 1 - Len(d) = 1
        BY <1>1
      <3> QED
        BY <2>1, <3>1
    <2>3. y[1] = x[1]
      BY <1>3, <1>6, <2>2 DEF p
    <2>4. \A i \in 1..1 : y[i] = x[i]
      BY <2>3
    <2> QED
      BY <1>6, <2>4, SeqEqual
  <1> QED
    BY <1>3, <1>4, <1>5, <1>6 DEF p, Root

LEMMA LastName ==
  ASSUME NEW p \in Paths
  PROVE  <<p[Len(p)]>> \in Names /\ Len(<<p[Len(p)]>>) = 1 /\ parent(p) \o <<p[Len(p)]>> = p
  <1> DEFINE x == <<p[Len(p)]>>
             d == parent(p)
  <1>1. p \in Seq(STRING) /\ p # <<>> /\ x \in Seq(STRING)
    BY PathIs
  <1>2. Len(x) = 1 /\ x[1] = p[Len(p)]
    OBVIOUS
  <1>3. /\ d \in Seq(STRING) /\ Len(p) \in Nat \ {0} /\ Len(d) = Len(p) - 1
        /\ \A i \in 1 .. Len(p) - 1 : d[i] = p[i]
    BY <1>1, ParentIs
  <1> HIDE DEF x, d
  <1>4. /\ d \o x \in Seq(STRING) /\ Len(d \o x) = Len(d) + 1
        /\ \A i \in 1 .. Len(d) + 1 : (d \o x)[i] = IF i <= Len(d) THEN d[i] ELSE x[i - Len(d)]
    <2>1. /\ d \o x \in Seq(STRING) /\ Len(d \o x) = Len(d) + Len(x)
          /\ \A i \in 1 .. Len(d) + Len(x) : (d \o x)[i] = IF i <= Len(d) THEN d[i] ELSE x[i - Len(d)]
      BY ONLY <1>1, <1>3, ConcatProperties
    <2> QED
      BY <1>2, <2>1, Zenon
  <1>5. Len(d) + 1 = Len(p)
    BY <1>3
  <1>6. ASSUME NEW i \in 1..Len(p) PROVE (d \o x)[i] = p[i]
    <2>1. CASE i <= Len(d)
      <3>1. i \in 1 .. Len(p) - 1 /\ i \in 1 .. Len(d) + 1
        BY <1>3, <2>1
      <3> QED
        BY <1>3, <1>4, <2>1, <3>1
    <2>2. CASE i > Len(d)
      <3>1. i = Len(p) /\ i - Len(d) = 1 /\ i \in 1 .. Len(d) + 1 /\ ~ (i <= Len(d))
        BY <1>3, <2>2
      <3> QED
        BY <1>2, <1>4, <3>1
    <2>3. i <= Len(d) \/ i > Len(d)
      BY <1>3
    <2> QED
      BY ONLY <2>1, <2>2, <2>3
  <1>7. d \o x = p
    BY <1>1, <1>4, <1>5, <1>6, SeqEqual
  <1> QED
    BY <1>1, <1>2, <1>7 DEF x, d, Names

-----------------------------------------------------------------------------
(* What the parts are made of *)

PaneCommands == [op : {"add", "remove", "heartbeat"}, fname : Seq(STRING)]

Shapes(C, F, E, L) ==
  /\ C \in Seq(PaneCommands)
  /\ \A w \in F : w.fname \in Names
  /\ \A v, w \in F : v.wd = w.wd => v = w
  /\ Len(E) \in Nat
  /\ \A i \in 1..Len(E) :
       \/ E[i].mask \in Left /\ E[i].name = <<>>
       \/ E[i].mask \in Gone \union Came \union {"ATTRIB"} /\ E[i].name \in Names /\ Len(E[i].name) = 1
  /\ L \subseteq Names

(* A known event is about an entry of the directory that is watched.       *)
LEMMA EntryOf ==
  ASSUME NEW C, NEW F, NEW E, NEW L, Shapes(C, F, E, L)
  PROVE  \A i \in 1..Len(E) : \A w \in F : E[i].mask \notin Left =>
           /\ w.fname \in Names /\ PathOf(w, E[i]) \in Names /\ PathOf(w, E[i]) # Root
           /\ parent(PathOf(w, E[i])) = w.fname
  <1> SUFFICES ASSUME NEW i \in 1..Len(E), NEW w \in F, E[i].mask \notin Left
               PROVE  /\ w.fname \in Names /\ PathOf(w, E[i]) \in Names /\ PathOf(w, E[i]) # Root
                      /\ parent(PathOf(w, E[i])) = w.fname
    OBVIOUS
  <1>1. w.fname \in Names /\ E[i].name \in Names /\ Len(E[i].name) = 1
    BY DEF Shapes
  <1> QED
    BY <1>1, ChildIs DEF PathOf

(* What removes a path removes what is below it.                           *)
LEMMA DoomIs ==
  ASSUME NEW C, NEW F, NEW E, NEW L, Shapes(C, F, E, L), NEW i \in 1..Len(E), NEW p \in Names,
         Dooms(F, E, i, p)
  PROVE  p # Root /\ \A q \in Names : IsPrefix(p, q) => Dooms(F, E, i, q)
  <1>1. E[i].mask \in Gone /\ E[i].mask \notin Left
    BY DEF Dooms, Gone, Left
  <1>2. PICK w \in F : w.wd = E[i].wd /\ IsPrefix(PathOf(w, E[i]), p)
    BY DEF Dooms
  <1> DEFINE x == PathOf(w, E[i])
  <1>3. x \in Names /\ x # Root /\ IsPrefix(x, p)
    BY <1>1, <1>2, EntryOf
  <1>4. p # Root
    BY <1>3, PathOrder
  <1>5. ASSUME NEW q \in Names, IsPrefix(p, q) PROVE Dooms(F, E, i, q)
    <2>1. IsPrefix(x, q)
      BY <1>3, <1>5, PathOrder
    <2> QED
      BY <1>1, <1>2, <2>1 DEF Dooms
  <1> QED
    BY <1>4, <1>5

(* The watch that tells of it is of a folder above.                        *)
LEMMA DoomedBy ==
  ASSUME NEW C, NEW F, NEW E, NEW L, Shapes(C, F, E, L), NEW i \in 1..Len(E), NEW p \in Names,
         Dooms(F, E, i, p)
  PROVE  \E w \in F : /\ w.fname \in Names /\ Dooms({w}, E, i, p)
                      /\ IsPrefix(w.fname, p) /\ IsPrefix(w.fname, parent(p))
  <1>1. E[i].mask \in Gone /\ E[i].mask \notin Left /\ p # Root
    BY DoomIs DEF Dooms, Gone, Left
  <1>2. PICK w \in F : w.wd = E[i].wd /\ IsPrefix(PathOf(w, E[i]), p)
    BY DEF Dooms
  <1>3. Dooms({w}, E, i, p)
    BY <1>1, <1>2 DEF Dooms
  <1> DEFINE x == PathOf(w, E[i])
  <1>4. x \in Names /\ x # Root /\ parent(x) = w.fname /\ w.fname \in Names /\ IsPrefix(x, p)
    BY <1>1, <1>2, EntryOf
  <1> HIDE DEF x
  <1>5. IsPrefix(w.fname, x)
    BY <1>4, AboveIs
  <1>6. IsPrefix(w.fname, p)
    BY <1>4, <1>5, PathOrder
  <1>7. w.fname # p
    BY <1>4, <1>5, PathOrder, AboveIs
  <1>8. IsPrefix(w.fname, parent(p))
    BY <1>1, <1>4, <1>6, <1>7, AboveIs
  <1> QED
    BY <1>3, <1>4, <1>6, <1>8

(* What is doomed takes with it what is below.                             *)
LEMMA DoomedBelow ==
  ASSUME NEW C, NEW F, NEW E, NEW L, Shapes(C, F, E, L), NEW p \in Names, Doomed(F, E, p)
  PROVE  p # Root /\ \A q \in Names : IsPrefix(p, q) => Doomed(F, E, q)
  <1>1. PICK i \in 1..Len(E) : Dooms(F, E, i, p)
    BY DEF Doomed
  <1> QED
    BY <1>1, DoomIs DEF Doomed

(* A command that is sent is the last one.                                 *)
LEMMA CommandSent ==
  ASSUME NEW C \in Seq(PaneCommands), NEW c \in PaneCommands, NEW D, D = Append(C, c)
  PROVE  /\ D \in Seq(PaneCommands) /\ Len(C) \in Nat /\ Len(D) = Len(C) + 1
         /\ \A i \in 1..Len(C) : i \in 1..Len(D) /\ D[i] = C[i]
         /\ Len(D) \in 1..Len(D) /\ D[Len(D)] = c
         /\ \A i \in 1..Len(D) : i \in 1..Len(C) \/ i = Len(D)
  <1>1. /\ D \in Seq(PaneCommands) /\ Len(D) = Len(C) + 1
        /\ \A i \in 1..Len(C) : D[i] = C[i]
        /\ D[Len(C) + 1] = c
    BY AppendProperties
  <1>2. Len(C) \in Nat
    BY LenProperties
  <1> QED
    BY <1>1, <1>2

LEMMA CommandTypes2 ==
  ASSUME NEW C \in Seq(PaneCommands), NEW i \in 1..Len(C)
  PROVE  C[i] \in PaneCommands /\ C[i].fname \in Names /\ C[i].op \in {"add", "remove", "heartbeat"}
  <1>1. C[i] \in PaneCommands
    BY ElementOfSeq
  <1> QED
    BY <1>1 DEF PaneCommands, Names

(* What is on its way stays, with one more command.                        *)
LEMMA SentKeeps ==
  ASSUME NEW C \in Seq(PaneCommands), NEW c \in PaneCommands, NEW D, D = Append(C, c)
  PROVE  /\ \A n, p : Removing(C, n, p) => Removing(D, n, p)
         /\ \A p : Adding(C, p) => Adding(D, p)
         /\ \A i \in 1..Len(D) : \A p : Adds(D, i, p) => (i \in 1..Len(C) /\ Adds(C, i, p)) \/ (i = Len(D) /\ c.op = "add" /\ c.fname = p)
         /\ \A i \in 1..Len(C) : \A p : Adds(C, i, p) => Adds(D, i, p)
  <1>1. /\ Len(C) \in Nat /\ Len(D) = Len(C) + 1
        /\ \A i \in 1..Len(C) : i \in 1..Len(D) /\ D[i] = C[i]
        /\ Len(D) \in 1..Len(D) /\ D[Len(D)] = c
        /\ \A i \in 1..Len(D) : i \in 1..Len(C) \/ i = Len(D)
    BY CommandSent
  <1>2. \A n, p : Removing(C, n, p) => Removing(D, n, p)
    BY <1>1 DEF Removing, Removes
  <1>3. \A p : Adding(C, p) => Adding(D, p)
    BY <1>1 DEF Adding, Adds
  <1>4. \A i \in 1..Len(D) : \A p : Adds(D, i, p) => (i \in 1..Len(C) /\ Adds(C, i, p)) \/ (i = Len(D) /\ c.op = "add" /\ c.fname = p)
    BY <1>1 DEF Adds
  <1>5. \A i \in 1..Len(C) : \A p : Adds(C, i, p) => Adds(D, i, p)
    BY <1>1 DEF Adds
  <1> QED
    BY <1>2, <1>3, <1>4, <1>5

-----------------------------------------------------------------------------
(* The pane handles a message *)

(* removeItem: what is shown below p goes, and the helper is told.         *)
LEMMA ClosedAgrees ==
  ASSUME NEW V, NEW O, NEW R, NEW C, NEW F, NEW K, NEW E, NEW L, NEW G, NEW n, NEW rdy, NEW lns,
         Shapes(C, F, E, L), Agreed(V, O, R, C, F, K, E, L, G, n, rdy, lns),
         NEW p \in Names, p # Root,
         p \in Paths /\ parent(p) \in Open(O) /\ G[p] # "none" =>
           Doomed(F, E, p) \/ \E i \in 1..Len(E) : Tells(F, E, i, Came, p),
         NEW V2, V2 = [x \in Paths |-> IF IsPrefix(p, x) THEN "none" ELSE V[x]],
         NEW O2, O2 = {g \in O : ~ IsPrefix(p, g)},
         NEW D, D = Append(C, remove(p))
  PROVE  Agreed(V2, O2, R, D, F, K, E, L, G, n, rdy, lns)
  <1>0. C \in Seq(PaneCommands) /\ remove(p) \in PaneCommands /\ L \subseteq Names
        /\ \A w \in F : w.fname \in Names
    BY DEF Shapes, remove, PaneCommands, Names
  <1>1. /\ D \in Seq(PaneCommands) /\ Len(C) \in Nat /\ Len(D) = Len(C) + 1
        /\ \A i \in 1..Len(C) : i \in 1..Len(D) /\ D[i] = C[i]
        /\ Len(D) \in 1..Len(D) /\ D[Len(D)] = remove(p)
        /\ \A i \in 1..Len(D) : i \in 1..Len(C) \/ i = Len(D)
    BY <1>0, CommandSent
  <1>2. /\ \A m, f : Removing(C, m, f) => Removing(D, m, f)
        /\ \A f : Adding(C, f) => Adding(D, f)
    BY <1>0, SentKeeps
  <1>3. /\ D[Len(D)].op = "remove" /\ D[Len(D)].fname = p
        /\ \A i \in 1..Len(D) : D[i].op = "add" => i \in 1..Len(C) /\ D[i] = C[i]
    BY <1>1 DEF remove
  <1>4. \A f, i : IsPrefix(p, f) /\ i \in 1..Len(C) \union {0} => Removing(D, i, f)
    BY <1>1, <1>3 DEF Removing, Removes
  <1>5. TreeKept(V, O, R) /\ O \subseteq Paths
    BY DEF Agreed, TreeKept
  <1>6. O2 \subseteq O /\ Open(O2) \subseteq Open(O) /\ \A g \in O2 : ~ IsPrefix(p, g)
    BY DEF Open
  <1>7. \A g \in Open(O2) : g \in Names /\ ~ IsPrefix(p, g)
    BY <1>5, <1>6, PathsAbove, PathOrder DEF Open
  <1>8. \A x \in Paths : V2[x] = IF IsPrefix(p, x) THEN "none" ELSE V[x]
    OBVIOUS
  <1>9. \A x \in Paths : parent(x) \in Open(O2) /\ x # p => ~ IsPrefix(p, x) /\ V2[x] = V[x]
    <2> SUFFICES ASSUME NEW x \in Paths, parent(x) \in Open(O2), x # p, IsPrefix(p, x) PROVE FALSE
      BY <1>8
    <2>1. IsPrefix(p, parent(x))
      BY PathsAbove, AboveIs
    <2> QED
      BY <1>7, <2>1
  <1>10. ASSUME NEW f \in Names, f \in Open(O) PROVE f \in Open(O2) \/ IsPrefix(p, f)
    BY <1>10 DEF Open
  <1>11. TreeKept(V2, O2, R)
    <2>1. V2 \in [Paths -> EntryKinds \union {"unknown"}]
      BY <1>5 DEF TreeKept, EntryKinds
    <2>2. ASSUME NEW x \in Paths, V2[x] # "none" PROVE parent(x) = Root \/ V2[parent(x)] = "dir"
      <3>1. ~ IsPrefix(p, x) /\ V[x] # "none"
        BY <1>8, <2>2
      <3>2. parent(x) = Root \/ V[parent(x)] = "dir"
        BY <1>5, <3>1 DEF TreeKept
      <3>3. x \in Names /\ x # Root /\ parent(x) \in Open(Paths)
        BY PathsAbove
      <3>4. ~ IsPrefix(p, parent(x))
        BY <3>1, <3>3, AboveIs
      <3> QED
        BY <1>8, <3>2, <3>3, <3>4 DEF Open
    <2>3. O2 \subseteq Paths /\ \A g \in O2 : V2[g] = "dir"
      BY <1>5, <1>6, <1>8 DEF TreeKept
    <2>4. ASSUME NEW g \in O2, NEW d \in Paths, IsPrefix(d, g) PROVE d \in O2
      <3>1. d \in O
        BY <1>5, <1>6, <2>4 DEF TreeKept
      <3>2. ~ IsPrefix(p, d)
        BY <1>5, <1>6, <2>4, PathsAbove, PathOrder
      <3> QED
        BY <3>1, <3>2
    <2>5. R \subseteq Paths /\ \A x \in R : V2[x] = "none"
      BY <1>5, <1>8 DEF TreeKept
    <2> QED
      BY <2>1, <2>2, <2>3, <2>4, <2>5 DEF TreeKept
  <1>12. Forgotten(R, F, D, L)
    BY <1>3 DEF Agreed, Forgotten
  <1>13. AddedLast(O2, F, D, L)
    <2> SUFFICES ASSUME NEW i \in 1..Len(D), D[i].op = "remove"
                 PROVE  /\ D[i].fname # Root
                        /\ \A h \in O2 : IsPrefix(D[i].fname, h) =>
                             /\ D[i].fname = h /\ ~ Watched(F, h) /\ h \notin L
                             /\ \A j \in 1..Len(D) : Adds(D, j, h) => j > i
      BY DEF AddedLast
    <2>1. CASE i = Len(D)
      BY <1>3, <1>6, <2>1
    <2>2. CASE i \in 1..Len(C)
      <3>1. C[i].op = "remove" /\ D[i] = C[i]
        BY <1>1, <2>2
      <3>2. /\ C[i].fname # Root
            /\ \A h \in O : IsPrefix(C[i].fname, h) =>
                 /\ C[i].fname = h /\ ~ Watched(F, h) /\ h \notin L
                 /\ \A j \in 1..Len(C) : Adds(C, j, h) => j > i
        BY <2>2, <3>1 DEF Agreed, AddedLast
      <3> QED
        BY <1>3, <1>6, <3>1, <3>2 DEF Adds
    <2> QED
      BY <1>1, <2>1, <2>2
  <1>14. AddedAgain(F, D)
    <2> SUFFICES ASSUME NEW i \in 1..Len(D), NEW j \in 1..Len(D), i < j, D[j].op = "add", Removes(D, i, D[j].fname)
                 PROVE  /\ D[i].fname = D[j].fname /\ ~ Watched(F, D[j].fname)
                        /\ \A k \in 1..Len(D) : Adds(D, k, D[j].fname) => k > i
      BY DEF AddedAgain
    <2>1. j \in 1..Len(C) /\ D[j] = C[j]
      BY <1>3
    <2>2. i \in 1..Len(C)
      BY <1>1, <2>1
    <2>3. D[i] = C[i]
      BY <1>1, <2>2
    <2>4. /\ C[i].fname = C[j].fname /\ ~ Watched(F, C[j].fname)
          /\ \A k \in 1..Len(C) : Adds(C, k, C[j].fname) => k > i
      BY <2>1, <2>2, <2>3 DEF Agreed, AddedAgain, Removes
    <2> QED
      BY <1>3, <2>1, <2>3, <2>4 DEF Adds
  <1>15. ListedBefore(O2, F, D, L)
    <2> SUFFICES ASSUME NEW g \in O2
                 PROVE  /\ parent(g) \in L => ~ Watched(F, g) /\ g \notin L
                        /\ \A i \in 1..Len(D) : Adds(D, i, parent(g)) =>
                             ~ Watched(F, g) /\ g \notin L /\ \A j \in 1..Len(D) : Adds(D, j, g) => j > i
      BY DEF ListedBefore
    <2>1. /\ parent(g) \in L => ~ Watched(F, g) /\ g \notin L
          /\ \A i \in 1..Len(C) : Adds(C, i, parent(g)) =>
               ~ Watched(F, g) /\ g \notin L /\ \A j \in 1..Len(C) : Adds(C, j, g) => j > i
      BY <1>6 DEF Agreed, ListedBefore
    <2> QED
      BY <1>3, <2>1 DEF Adds
  <1>16. CreatedBefore(O2, F, E, L, n, rdy, lns)
    BY <1>6 DEF Agreed, CreatedBefore
  <1>17. WatchedOpen(O2, F, D, E)
    <2> SUFFICES ASSUME NEW w \in F
                 PROVE  w.fname \in Open(O2) \/ Removing(D, 0, w.fname) \/ Doomed(F, E, w.fname)
      BY DEF WatchedOpen
    <2>1. w.fname \in Open(O) \/ Removing(C, 0, w.fname) \/ Doomed(F, E, w.fname)
      BY DEF Agreed, WatchedOpen
    <2> QED
      BY <1>0, <1>2, <1>4, <1>10, <2>1
  <1>18. AddedOpen(O2, F, D, E)
    <2> SUFFICES ASSUME NEW i \in 1..Len(D), D[i].op = "add"
                 PROVE  D[i].fname \in Open(O2) \/ Removing(D, i, D[i].fname) \/ Doomed(F, E, D[i].fname)
      BY DEF AddedOpen
    <2>1. i \in 1..Len(C) /\ D[i] = C[i]
      BY <1>3
    <2>2. C[i].fname \in Open(O) \/ Removing(C, i, C[i].fname) \/ Doomed(F, E, C[i].fname)
      BY <2>1 DEF Agreed, AddedOpen
    <2>3. C[i].fname \in Names
      BY <1>0, <2>1, CommandTypes2
    <2> QED
      BY <1>2, <1>4, <1>10, <2>1, <2>2, <2>3
  <1>19. OpenWatched(O2, F, D, E)
    BY <1>2, <1>6 DEF Agreed, OpenWatched
  <1>20. StaleDoomed(F, K, D, E)
    BY <1>2 DEF Agreed, StaleDoomed
  <1>21. StaleLeft(O2, F, K, E) /\ LeftCreated(O2, F, E, G) /\ TwinsDoomed(O2, F, E)
    BY <1>6 DEF Agreed, StaleLeft, LeftCreated, TwinsDoomed
  <1>22. ShownThere(V2, O2, F, E, G)
    <2> SUFFICES ASSUME NEW x \in Paths, parent(x) \in Open(O2), V2[x] # "none"
                 PROVE  \/ V2[x] = G[x]
                        \/ Doomed(F, E, x)
                        \/ /\ V2[x] \in Plain /\ G[x] \in Plain
                           /\ \E i \in 1..Len(E) : Tells(F, E, i, Came \union {"ATTRIB"}, x)
      BY DEF ShownThere
    <2>1. V2[x] = V[x] /\ parent(x) \in Open(O)
      BY <1>6, <1>8
    <2> QED
      BY <2>1 DEF Agreed, ShownThere
  <1>23. ThereShown(V2, O2, F, D, E, L, G)
    <2> SUFFICES ASSUME NEW x \in Paths, parent(x) \in Open(O2), G[x] # "none"
                 PROVE  \/ V2[x] # "none"
                        \/ \E i \in 1..Len(E) : Tells(F, E, i, Came, x)
                        \/ Adding(D, parent(x)) \/ parent(x) \in L \/ Doomed(F, E, x)
      BY DEF ThereShown
    <2>1. CASE x = p
      BY <1>6, <2>1
    <2>2. CASE x # p
      <3>1. V2[x] = V[x] /\ parent(x) \in Open(O)
        BY <1>6, <1>9, <2>2
      <3> QED
        BY <1>2, <3>1 DEF Agreed, ThereShown
    <2> QED
      BY <2>1, <2>2
  <1>24. ItemsWatched(V2, O2, F)
    BY <1>6, <1>8 DEF Agreed, ItemsWatched
  <1>25. WatchedAbove(O2, F, D)
    BY <1>3, <1>6 DEF Agreed, WatchedAbove
  <1> QED
    BY <1>11, <1>12, <1>13, <1>14, <1>15, <1>16, <1>17, <1>18, <1>19, <1>20, <1>21, <1>22, <1>23,
       <1>24, <1>25 DEF Agreed

(* Below a folder, the entry of it that leads to a path.                   *)
LEMMA ChildTowards ==
  ASSUME NEW p \in Names, NEW g \in Names, IsPrefix(p, g), p # g
  PROVE  \E c \in Names : c # Root /\ parent(c) = p /\ IsPrefix(c, g)
  <1> DEFINE T == {Len(c) : c \in {y \in Names : IsPrefix(p, y) /\ y # p /\ IsPrefix(y, g)}}
  <1>1. Len(g) \in T /\ T \subseteq Nat
    BY PathOrder, LenProperties DEF Names
  <1>2. PICK n \in T : \A m \in T : n <= m
    BY <1>1, HasLeast
  <1>3. PICK c \in Names : IsPrefix(p, c) /\ c # p /\ IsPrefix(c, g) /\ n = Len(c)
    BY <1>2
  <1>4. \A y \in Names : IsPrefix(p, y) /\ y # p /\ IsPrefix(y, g) => Len(c) <= Len(y)
    BY <1>2, <1>3
  <1> HIDE DEF T
  <1>5. c # Root
    BY <1>3, PathOrder
  <1>6. parent(c) \in Names /\ IsPrefix(p, parent(c)) /\ IsPrefix(parent(c), c)
    BY <1>3, <1>5, AboveIs
  <1>7. IsPrefix(parent(c), g)
    BY <1>3, <1>6, PathOrder
  <1>8. Len(c) \in Nat \ {0} /\ Len(parent(c)) = Len(c) - 1
    BY <1>5, ParentIs DEF Names, Root
  <1>9. ~ (Len(c) <= Len(parent(c)))
    BY <1>8
  <1> QED
    BY <1>3, <1>4, <1>5, <1>6, <1>7, <1>9

(* The item p may be put into the pane: what is told of it is true or will *)
(* be taken back, and it is not open unless it is yet to be watched.       *)
CanPlace(O, R, C, F, E, L, G, n, rdy, lns, p, k) ==
  /\ p \in Paths /\ k \in EntryKinds \union {"unknown"} /\ k # "none"
  /\ Watched(F, parent(p))
  /\ parent(p) \in Open(O) => k = G[p] \/ Doomed(F, E, p)
  /\ p \in O => ~ Watched(F, p) /\ p \notin L
  /\ parent(p) \in Open(O) /\ p \in R => \A i \in 1..Len(E) : Tells(F, E, i, Came, p) =>
       (i > n => ~ rdy) \/ \E j \in 1..Len(E) : j < i /\ Dooms(F, E, j, p)
  /\ \A j \in 1..Len(lns) : j \in 1..Len(C) /\ lns[j] = C[j]

(* What addItem makes of the pane.                                         *)
Placed(V, O, R, C, p, k, B, placed, opened, V2, O2, R2, D) ==
  /\ B = R \union (IF V[p] # "none" THEN {g \in O : IsPrefix(p, g)} ELSE {})
  /\ placed <=> parent(p) = Root \/ V[parent(p)] = "dir"
  /\ opened <=> placed /\ p \in B /\ k = "dir"
  /\ opened => parent(p) \in Open(O)
  /\ V2 = [x \in Paths |-> IF x = p THEN IF placed THEN k ELSE "none"
                            ELSE IF IsPrefix(p, x) THEN "none" ELSE V[x]]
  /\ O2 = {g \in O : ~ IsPrefix(p, g)} \union (IF opened THEN {p} ELSE {})
  /\ R2 = (IF placed THEN B \ {p} ELSE B)
  /\ D = (IF opened THEN Append(C, add(p)) ELSE C)

(* addItem: the item replaces what was shown; a folder that was open, here *)
(* or in the connection before, is opened again.                           *)
LEMMA PlacedAgrees ==
  ASSUME NEW V, NEW O, NEW R, NEW C, NEW F, NEW K, NEW E, NEW L, NEW G, NEW n, NEW rdy, NEW lns,
         Shapes(C, F, E, L), Agreed(V, O, R, C, F, K, E, L, G, n, rdy, lns),
         NEW p, NEW k, CanPlace(O, R, C, F, E, L, G, n, rdy, lns, p, k),
         NEW B, NEW placed, NEW opened, NEW V2, NEW O2, NEW R2, NEW D,
         Placed(V, O, R, C, p, k, B, placed, opened, V2, O2, R2, D)
  PROVE  Agreed(V2, O2, R2, D, F, K, E, L, G, n, rdy, lns)
  <1> USE DEF CanPlace, Placed
  <1>0. /\ C \in Seq(PaneCommands) /\ add(p) \in PaneCommands /\ L \subseteq Names
        /\ \A w \in F : w.fname \in Names
        /\ p \in Names /\ p # Root /\ parent(p) \in Names /\ IsPrefix(p, p)
    BY PathsAbove, PathOrder, AboveIs DEF Shapes, add, PaneCommands, Names
  <1>1. TreeKept(V, O, R) /\ O \subseteq Paths
    BY DEF Agreed, TreeKept
  <1>2. Len(C) \in Nat /\ \A i \in 1..Len(C) : C[i].fname \in Names
    BY <1>0, LenProperties, CommandTypes2
  <1>3. /\ \A i \in 1..Len(C) : i \in 1..Len(D) /\ D[i] = C[i]
        /\ \A i \in 1..Len(D) :
             \/ i \in 1..Len(C)
             \/ i = Len(D) /\ i > Len(C) /\ opened /\ D[i].op = "add" /\ D[i].fname = p
        /\ opened => Len(D) \in 1..Len(D) /\ D[Len(D)].op = "add" /\ D[Len(D)].fname = p
    <2>1. CASE opened
      <3>1. /\ Len(D) = Len(C) + 1
            /\ \A i \in 1..Len(C) : i \in 1..Len(D) /\ D[i] = C[i]
            /\ Len(D) \in 1..Len(D) /\ D[Len(D)] = add(p)
            /\ \A i \in 1..Len(D) : i \in 1..Len(C) \/ i = Len(D)
        BY <1>0, <2>1, CommandSent
      <3> QED
        BY <1>2, <2>1, <3>1 DEF add
    <2>2. CASE ~ opened
      BY <2>2
    <2> QED
      BY <2>1, <2>2
  <1>4. \A m, f : Removing(C, m, f) => Removing(D, m, f)
    BY <1>3 DEF Removing, Removes
  <1>5. \A f : Adding(C, f) => Adding(D, f)
    BY <1>3 DEF Adding, Adds
  <1>6. p \in O => V[p] = "dir" /\ placed
    BY <1>1 DEF TreeKept
  <1>7. ASSUME NEW g \in O, IsPrefix(p, g) PROVE g = p
    <2> SUFFICES ASSUME g # p PROVE FALSE
      OBVIOUS
    <2>1. g \in Names /\ p \in O /\ ~ Watched(F, p)
      BY <1>1, <1>7, PathsAbove DEF TreeKept
    <2>2. PICK c \in Names : c # Root /\ parent(c) = p /\ IsPrefix(c, g)
      BY <1>0, <1>7, <2>1, ChildTowards
    <2>3. c \in Paths /\ c \in O
      BY <1>1, <2>2, PathsAbove DEF TreeKept
    <2>4. V[c] # "none"
      BY <1>1, <2>3 DEF TreeKept
    <2> QED
      BY <2>1, <2>2, <2>3, <2>4 DEF Agreed, ItemsWatched, Open
  <1>8. O2 = IF opened THEN O \union {p} ELSE O \ {p}
    BY <1>0, <1>7
  <1>9. R2 \subseteq R /\ (p \in R2 => ~ placed) /\ (opened => p \in R \/ p \in O)
    BY <1>0, <1>6, <1>7
  <1>10. \A x \in Paths : V2[x] = IF x = p THEN IF placed THEN k ELSE "none"
                                  ELSE IF IsPrefix(p, x) THEN "none" ELSE V[x]
    OBVIOUS
  <1>11. ASSUME p \in O, ~ opened PROVE Doomed(F, E, p)
    <2>1. k # "dir" /\ parent(p) \in Open(O)
      <3>1. p \in B /\ placed
        BY <1>0, <1>6, <1>11
      <3>2. k # "dir"
        BY <1>11, <3>1
      <3>3. parent(p) \in Open(Paths)
        BY PathsAbove
      <3>4. parent(p) \in O \/ parent(p) = Root
        BY <1>0, <1>1, <1>11, <3>3, AboveIs DEF TreeKept, Open
      <3> QED
        BY <3>2, <3>4 DEF Open
    <2>2. V[p] = "dir" /\ V[p] # "none" /\ V[p] \notin Plain
      BY <1>6, <1>11 DEF Plain
    <2>3. V[p] = G[p] \/ Doomed(F, E, p)
      BY <2>1, <2>2 DEF Agreed, ShownThere
    <2> QED
      BY <2>1, <2>2, <2>3
  <1>12. ASSUME opened
         PROVE  /\ \A w \in F : ~ IsPrefix(p, w.fname)
                /\ \A i \in 1..Len(C) : C[i].op = "add" /\ IsPrefix(p, C[i].fname) => C[i].fname = p /\ p \in O
                /\ p \notin L /\ parent(p) \in Open(O) /\ placed
    <2>1. CASE p \in R
      BY <1>0, <1>12, <2>1 DEF Agreed, Forgotten
    <2>2. CASE p \in O
      BY <1>12, <2>2 DEF Agreed, WatchedAbove, Open
    <2> QED
      BY <1>9, <1>12, <2>1, <2>2
  <1>13. ASSUME opened, NEW i \in 1..Len(C), Removes(C, i, p), C[i].op = "remove"
         PROVE  C[i].fname = p /\ \A j \in 1..Len(C) : Adds(C, j, p) => j > i
    <2>1. CASE p \in O
      BY <1>13, <2>1 DEF Agreed, AddedLast, Removes
    <2>2. CASE p \in R /\ p \notin O
      <3>1. \A j \in 1..Len(C) : ~ Adds(C, j, p)
        BY <1>0, <1>12, <1>13, <2>2 DEF Adds
      <3>2. C[i].fname # Root /\ C[i].fname \in Names /\ IsPrefix(C[i].fname, p)
        BY <1>2, <1>13 DEF Agreed, AddedLast, Removes
      <3>3. ASSUME C[i].fname # p PROVE FALSE
        <4>1. IsPrefix(C[i].fname, parent(p))
          BY <1>0, <3>2, <3>3, AboveIs
        <4>2. parent(p) # Root
          BY <3>2, <4>1, PathOrder
        <4>3. parent(p) \in O
          BY <1>12, <1>13, <4>2 DEF Open
        <4> QED
          BY <1>13, <4>1, <4>3 DEF Agreed, AddedLast
      <3> QED
        BY <3>1, <3>3
    <2> QED
      BY <1>9, <1>13, <2>1, <2>2
  <1> USE <1>0
  <1>20. TreeKept(V2, O2, R2)
    <2>1. V2 \in [Paths -> EntryKinds \union {"unknown"}]
      BY <1>1 DEF TreeKept, EntryKinds
    <2>2. ASSUME NEW x \in Paths, V2[x] # "none" PROVE parent(x) = Root \/ V2[parent(x)] = "dir"
      <3>1. x \in Names /\ x # Root /\ parent(x) \in Open(Paths) /\ parent(x) \in Names
        BY PathsAbove, AboveIs
      <3>2. CASE x = p
        <4>1. placed
          BY <1>10, <2>2, <3>2
        <4>2. parent(x) # p /\ ~ IsPrefix(p, parent(x))
          BY <3>1, <3>2, AboveIs
        <4> QED
          BY <1>10, <3>1, <3>2, <4>1, <4>2 DEF Open
      <3>3. CASE x # p
        <4>1. ~ IsPrefix(p, x) /\ V[x] # "none"
          BY <1>10, <2>2, <3>3
        <4>2. parent(x) = Root \/ V[parent(x)] = "dir"
          BY <1>1, <4>1 DEF TreeKept
        <4>3. ~ IsPrefix(p, parent(x)) /\ parent(x) # p
          BY <3>1, <4>1, AboveIs
        <4> QED
          BY <1>10, <3>1, <4>2, <4>3 DEF Open
      <3> QED
        BY <3>2, <3>3
    <2>3. O2 \subseteq Paths
      BY <1>1, <1>8
    <2>4. ASSUME NEW g \in O2 PROVE V2[g] = "dir"
      <3>1. CASE g = p
        <4>1. opened
          BY <1>8, <2>4, <3>1
        <4> QED
          BY <1>10, <1>12, <3>1, <4>1
      <3>2. CASE g # p
        <4>1. g \in O /\ g \in Paths /\ ~ IsPrefix(p, g)
          BY <1>1, <1>7, <1>8, <2>4, <3>2
        <4> QED
          BY <1>1, <1>10, <3>2, <4>1 DEF TreeKept
      <3> QED
        BY <3>1, <3>2
    <2>5. ASSUME NEW g \in O2, NEW d \in Paths, IsPrefix(d, g) PROVE d \in O2
      <3>1. d \in Names
        BY PathsAbove
      <3>2. CASE g = p
        <4>1. opened
          BY <1>8, <2>5, <3>2
        <4>2. CASE d = p
          BY <1>8, <4>1, <4>2
        <4>3. CASE d # p
          <5>1. IsPrefix(d, parent(p)) /\ d # Root
            BY <2>5, <3>1, <3>2, <4>3, AboveIs, PathsAbove
          <5>2. parent(p) # Root
            BY <3>1, <5>1, PathOrder
          <5>3. parent(p) \in O
            BY <1>12, <4>1, <5>2 DEF Open
          <5>4. d \in O
            BY <1>1, <5>1, <5>3 DEF TreeKept
          <5> QED
            BY <1>8, <4>1, <5>4
        <4> QED
          BY <4>2, <4>3
      <3>3. CASE g # p
        <4>1. g \in O /\ g \in Names /\ ~ IsPrefix(p, g)
          BY <1>1, <1>7, <1>8, <2>5, <3>3, PathsAbove
        <4>2. d \in O /\ d # p
          BY <1>1, <2>5, <4>1 DEF TreeKept
        <4> QED
          BY <1>8, <4>2
      <3> QED
        BY <3>2, <3>3
    <2>6. ASSUME NEW x \in R2 PROVE x \in Paths /\ V2[x] = "none"
      <3>1. x \in Paths /\ V[x] = "none"
        BY <1>1, <1>9, <2>6 DEF TreeKept
      <3> QED
        BY <1>9, <1>10, <2>6, <3>1
    <2> QED
      BY <2>1, <2>2, <2>3, <2>4, <2>5, <2>6 DEF TreeKept
  <1>21. Forgotten(R2, F, D, L)
    <2> SUFFICES ASSUME NEW x \in R2
                 PROVE  /\ \A w \in F : ~ IsPrefix(x, w.fname)
                        /\ \A i \in 1..Len(D) : D[i].op = "add" => ~ IsPrefix(x, D[i].fname)
                        /\ \A d \in L : ~ IsPrefix(x, d)
      BY DEF Forgotten
    <2>1. /\ x \in R /\ x \in Names
          /\ \A w \in F : ~ IsPrefix(x, w.fname)
          /\ \A i \in 1..Len(C) : C[i].op = "add" => ~ IsPrefix(x, C[i].fname)
          /\ \A d \in L : ~ IsPrefix(x, d)
      BY <1>1, <1>9, PathsAbove DEF Agreed, Forgotten, TreeKept
    <2>2. ASSUME opened PROVE ~ IsPrefix(x, p)
      <3>1. x # p
        BY <1>9, <1>12, <2>2
      <3>2. ~ IsPrefix(x, parent(p))
        BY <2>1 DEF Watched
      <3> QED
        BY <2>1, <3>1, <3>2, AboveIs
    <2> QED
      BY <1>3, <2>1, <2>2
  <1>22. AddedLast(O2, F, D, L)
    <2> SUFFICES ASSUME NEW i \in 1..Len(D), D[i].op = "remove"
                 PROVE  /\ D[i].fname # Root
                        /\ \A h \in O2 : IsPrefix(D[i].fname, h) =>
                             /\ D[i].fname = h /\ ~ Watched(F, h) /\ h \notin L
                             /\ \A j \in 1..Len(D) : Adds(D, j, h) => j > i
      BY DEF AddedLast
    <2>1. i \in 1..Len(C) /\ D[i] = C[i] /\ C[i].op = "remove"
      BY <1>3
    <2>2. /\ C[i].fname # Root
          /\ \A h \in O : IsPrefix(C[i].fname, h) =>
               /\ C[i].fname = h /\ ~ Watched(F, h) /\ h \notin L
               /\ \A j \in 1..Len(C) : Adds(C, j, h) => j > i
      BY <2>1 DEF Agreed, AddedLast
    <2>3. \A j \in 1..Len(D) : \A h : Adds(D, j, h) => (j \in 1..Len(C) /\ Adds(C, j, h)) \/ j > i
      BY <1>2, <1>3, <2>1 DEF Adds
    <2>4. ASSUME NEW h \in O2, IsPrefix(C[i].fname, h)
          PROVE  /\ C[i].fname = h /\ ~ Watched(F, h) /\ h \notin L
                 /\ \A j \in 1..Len(C) : Adds(C, j, h) => j > i
      <3>1. CASE h \in O
        BY <2>2, <2>4, <3>1
      <3>2. CASE h = p /\ opened
        <4>1. C[i].fname = p /\ \A j \in 1..Len(C) : Adds(C, j, p) => j > i
          BY <1>13, <2>1, <2>4, <3>2 DEF Removes
        <4> QED
          BY <1>12, <3>2, <4>1 DEF Watched
      <3> QED
        BY <1>8, <2>4, <3>1, <3>2
    <2> QED
      BY <2>1, <2>2, <2>3, <2>4
  <1>23. AddedAgain(F, D)
    <2> SUFFICES ASSUME NEW i \in 1..Len(D), NEW j \in 1..Len(D), i < j, D[j].op = "add", Removes(D, i, D[j].fname)
                 PROVE  /\ D[i].fname = D[j].fname /\ ~ Watched(F, D[j].fname)
                        /\ \A m \in 1..Len(D) : Adds(D, m, D[j].fname) => m > i
      BY DEF AddedAgain
    <2>1. i \in 1..Len(C) /\ D[i] = C[i] /\ C[i].op = "remove"
      BY <1>3 DEF Removes
    <2>2. \A m \in 1..Len(D) : \A h : Adds(D, m, h) => (m \in 1..Len(C) /\ Adds(C, m, h)) \/ m > i
      BY <1>2, <1>3, <2>1 DEF Adds
    <2>3. CASE j \in 1..Len(C)
      <3>1. D[j] = C[j] /\ Removes(C, i, C[j].fname)
        BY <1>3, <2>1, <2>3 DEF Removes
      <3>2. /\ C[i].fname = C[j].fname /\ ~ Watched(F, C[j].fname)
            /\ \A m \in 1..Len(C) : Adds(C, m, C[j].fname) => m > i
        BY <2>1, <2>3, <3>1 DEF Agreed, AddedAgain
      <3> QED
        BY <2>1, <2>2, <3>1, <3>2
    <2>4. CASE opened /\ D[j].fname = p
      <3>1. Removes(C, i, p)
        BY <2>1, <2>4 DEF Removes
      <3>2. C[i].fname = p /\ \A m \in 1..Len(C) : Adds(C, m, p) => m > i
        BY <1>13, <2>1, <2>4, <3>1
      <3> QED
        BY <1>12, <2>1, <2>2, <2>4, <3>2 DEF Watched
    <2> QED
      BY <1>3, <2>3, <2>4
  <1>24. ListedBefore(O2, F, D, L)
    <2> SUFFICES ASSUME NEW g \in O2
                 PROVE  /\ parent(g) \in L => ~ Watched(F, g) /\ g \notin L
                        /\ \A i \in 1..Len(D) : Adds(D, i, parent(g)) =>
                             ~ Watched(F, g) /\ g \notin L /\ \A j \in 1..Len(D) : Adds(D, j, g) => j > i
      BY DEF ListedBefore
    <2>1. g \in Names /\ g # Root /\ parent(g) # g /\ IsPrefix(parent(g), g)
      BY <1>1, <1>8, PathsAbove, AboveIs
    <2>2. parent(g) # p
      <3> SUFFICES ASSUME parent(g) = p PROVE FALSE
        OBVIOUS
      <3> QED
        BY <1>7, <1>8, <2>1
    <2>3. CASE g = p /\ opened
      <3>1. ~ Watched(F, g) /\ g \notin L
        BY <1>12, <2>3 DEF Watched
      <3>2. CASE p \in O
        <4>1. \A i \in 1..Len(C) : Adds(C, i, parent(g)) => \A j \in 1..Len(C) : Adds(C, j, g) => j > i
          BY <2>3, <3>2 DEF Agreed, ListedBefore
        <4> QED
          BY <1>2, <1>3, <2>2, <3>1, <4>1 DEF Adds
      <3>3. CASE p \notin O
        <4>1. \A j \in 1..Len(C) : ~ Adds(C, j, g)
          BY <1>12, <2>3, <3>3 DEF Adds
        <4> QED
          BY <1>2, <1>3, <2>2, <3>1, <4>1 DEF Adds
      <3> QED
        BY <3>2, <3>3
    <2>4. CASE g # p
      <3>1. /\ parent(g) \in L => ~ Watched(F, g) /\ g \notin L
            /\ \A i \in 1..Len(C) : Adds(C, i, parent(g)) =>
                 ~ Watched(F, g) /\ g \notin L /\ \A j \in 1..Len(C) : Adds(C, j, g) => j > i
        BY <1>8, <2>4 DEF Agreed, ListedBefore
      <3> QED
        BY <1>3, <2>2, <2>4, <3>1 DEF Adds
    <2> QED
      BY <1>8, <2>3, <2>4
  <1>25. CreatedBefore(O2, F, E, L, n, rdy, lns)
    <2> SUFFICES ASSUME NEW g \in O2, NEW i \in 1..Len(E), Tells(F, E, i, Came, g)
                 PROVE  \/ \E j \in 1..Len(E) : j < i /\ Dooms(F, E, j, g)
                        \/ /\ ~ Watched(F, g) /\ g \notin L
                           /\ \A j \in 1..Len(lns) : ~ Adds(lns, j, g)
                           /\ i > n => ~ rdy
      BY DEF CreatedBefore
    <2>1. CASE g \in O
      BY <2>1 DEF Agreed, CreatedBefore
    <2>2. CASE g = p /\ p \in R /\ opened /\ p \notin O
      <3>1. ~ Watched(F, g) /\ g \notin L
        BY <1>12, <2>2 DEF Watched
      <3>2. \A j \in 1..Len(lns) : ~ Adds(lns, j, g)
        BY <1>12, <2>2 DEF Adds
      <3>3. parent(p) \in Open(O)
        BY <1>12, <2>2
      <3> QED
        BY <2>2, <3>1, <3>2, <3>3
    <2> QED
      BY <1>8, <1>9, <2>1, <2>2
  <1>26. WatchedOpen(O2, F, D, E)
    <2> SUFFICES ASSUME NEW w \in F
                 PROVE  w.fname \in Open(O2) \/ Removing(D, 0, w.fname) \/ Doomed(F, E, w.fname)
      BY DEF WatchedOpen
    <2>1. w.fname \in Open(O) \/ Removing(D, 0, w.fname) \/ Doomed(F, E, w.fname)
      BY <1>4 DEF Agreed, WatchedOpen
    <2>2. w.fname = p /\ p \in O => FALSE
      BY DEF Watched
    <2> QED
      BY <1>8, <2>1, <2>2 DEF Open
  <1>27. AddedOpen(O2, F, D, E)
    <2> SUFFICES ASSUME NEW i \in 1..Len(D), D[i].op = "add"
                 PROVE  D[i].fname \in Open(O2) \/ Removing(D, i, D[i].fname) \/ Doomed(F, E, D[i].fname)
      BY DEF AddedOpen
    <2>1. CASE i \in 1..Len(C)
      <3>1. D[i] = C[i]
        BY <1>3, <2>1
      <3>2. C[i].fname \in Open(O) \/ Removing(C, i, C[i].fname) \/ Doomed(F, E, C[i].fname)
        BY <2>1, <3>1 DEF Agreed, AddedOpen
      <3> QED
        BY <1>4, <1>8, <1>11, <3>1, <3>2 DEF Open
    <2>2. CASE opened /\ D[i].fname = p
      BY <1>8, <2>2 DEF Open
    <2> QED
      BY <1>3, <2>1, <2>2
  <1>28. OpenWatched(O2, F, D, E)
    <2> SUFFICES ASSUME NEW h \in Open(O2) PROVE Watched(F, h) \/ Adding(D, h) \/ Doomed(F, E, h)
      BY DEF OpenWatched
    <2>1. CASE h \in Open(O)
      BY <1>5, <2>1 DEF Agreed, OpenWatched
    <2>2. CASE h = p /\ opened
      BY <1>3, <2>2 DEF Adding, Adds
    <2> QED
      BY <1>8, <2>1, <2>2 DEF Open
  <1>29. StaleDoomed(F, K, D, E)
    BY <1>4 DEF Agreed, StaleDoomed
  <1>30. ASSUME NEW w \in F, w.fname # Root, parent(w.fname) \in Open(O2) PROVE parent(w.fname) \in Open(O)
    <2> SUFFICES ASSUME parent(w.fname) = p, opened PROVE FALSE
      BY <1>8, <1>30 DEF Open
    <2>1. IsPrefix(p, w.fname)
      BY <1>30, AboveIs
    <2> QED
      BY <1>12, <2>1
  <1>31. StaleLeft(O2, F, K, E)
    BY <1>30 DEF Agreed, StaleLeft
  <1>32. LeftCreated(O2, F, E, G)
    BY <1>30, PathsAbove DEF Agreed, LeftCreated
  <1>33. TwinsDoomed(O2, F, E)
    <2> SUFFICES ASSUME NEW v \in F, NEW w \in F, v # w, v.fname = w.fname, v.fname \in Open(O2)
                 PROVE  v.fname \in Open(O)
      BY DEF Agreed, TwinsDoomed
    <2> QED
      BY <1>8, <1>12 DEF Open
  <1>34. \A x \in Paths : parent(x) \in Open(O2) /\ V2[x] # "none" /\ x # p => V[x] = V2[x] /\ parent(x) \in Open(O)
    <2> SUFFICES ASSUME NEW x \in Paths, parent(x) \in Open(O2), V2[x] # "none", x # p
                 PROVE  V[x] = V2[x] /\ parent(x) \in Open(O)
      OBVIOUS
    <2>1. V[x] = V2[x] /\ ~ IsPrefix(p, x)
      BY <1>10
    <2>2. parent(x) # p
      BY <2>1, PathsAbove, AboveIs
    <2> QED
      BY <1>8, <2>1, <2>2 DEF Open
  <1>35. parent(p) \in Open(O2) => parent(p) \in Open(O)
    BY <1>8, AboveIs DEF Open
  <1>36. ShownThere(V2, O2, F, E, G)
    <2> SUFFICES ASSUME NEW x \in Paths, parent(x) \in Open(O2), V2[x] # "none"
                 PROVE  \/ V2[x] = G[x]
                        \/ Doomed(F, E, x)
                        \/ /\ V2[x] \in Plain /\ G[x] \in Plain
                           /\ \E i \in 1..Len(E) : Tells(F, E, i, Came \union {"ATTRIB"}, x)
      BY DEF ShownThere
    <2>1. CASE x = p
      BY <1>10, <1>35, <2>1
    <2>2. CASE x # p
      BY <1>34, <2>2 DEF Agreed, ShownThere
    <2> QED
      BY <2>1, <2>2
  <1>37. ThereShown(V2, O2, F, D, E, L, G)
    <2> SUFFICES ASSUME NEW x \in Paths, parent(x) \in Open(O2), G[x] # "none", V2[x] = "none"
                 PROVE  \/ \E i \in 1..Len(E) : Tells(F, E, i, Came, x)
                        \/ Adding(D, parent(x)) \/ parent(x) \in L \/ Doomed(F, E, x)
      BY DEF ThereShown
    <2>1. CASE parent(x) = p /\ opened
      BY <1>3, <2>1 DEF Adding, Adds
    <2>2. CASE ~ (parent(x) = p /\ opened)
      <3>1. parent(x) \in Open(O) /\ parent(x) # p
        <4>1. p \notin O2 \/ opened
          BY <1>8
        <4>2. parent(x) # p
          BY <2>2, <4>1 DEF Open
        <4> QED
          BY <1>8, <4>2 DEF Open
      <3>2. x # p
        <4> SUFFICES ASSUME x = p PROVE FALSE
          OBVIOUS
        <4>1. placed
          BY <1>1, <3>1 DEF TreeKept, Open
        <4> QED
          BY <1>10, <4>1
      <3>3. V[x] = "none"
        <4>1. ASSUME IsPrefix(p, x) PROVE FALSE
          <5>1. IsPrefix(p, parent(x)) /\ parent(x) \in Names
            BY <3>2, <4>1, PathsAbove, AboveIs
          <5>2. parent(x) # Root
            BY <5>1, PathOrder
          <5> QED
            BY <1>7, <3>1, <5>1, <5>2 DEF Open
        <4> QED
          BY <1>10, <3>2, <4>1
      <3> QED
        BY <1>5, <3>1, <3>3 DEF Agreed, ThereShown
    <2> QED
      BY <2>1, <2>2
  <1>38. ItemsWatched(V2, O2, F)
    <2> SUFFICES ASSUME NEW x \in Paths, parent(x) \in Open(O2), V2[x] # "none" PROVE Watched(F, parent(x))
      BY DEF ItemsWatched
    <2>1. CASE x = p
      BY <2>1
    <2>2. CASE x # p
      BY <1>34, <2>2 DEF Agreed, ItemsWatched
    <2> QED
      BY <2>1, <2>2
  <1>39. WatchedAbove(O2, F, D)
    <2> SUFFICES ASSUME NEW h \in Open(O2), ~ Watched(F, h)
                 PROVE  /\ \A w \in F : ~ IsPrefix(h, w.fname)
                        /\ \A i \in 1..Len(D) : D[i].op = "add" /\ IsPrefix(h, D[i].fname) => D[i].fname = h
      BY DEF WatchedAbove
    <2>1. CASE h = p /\ opened
      BY <1>3, <1>12, <2>1
    <2>2. CASE h \in Open(O)
      <3>1. /\ \A w \in F : ~ IsPrefix(h, w.fname)
            /\ \A i \in 1..Len(C) : C[i].op = "add" /\ IsPrefix(h, C[i].fname) => C[i].fname = h
        BY <2>2 DEF Agreed, WatchedAbove
      <3>2. h \in Names
        BY <1>1, <2>2, PathsAbove, PathOrder DEF Open
      <3>3. IsPrefix(h, p) => h = p
        BY <3>1, <3>2, AboveIs DEF Watched
      <3> QED
        BY <1>3, <3>1, <3>3
    <2> QED
      BY <1>8, <2>1, <2>2 DEF Open
  <1> QED
    BY <1>20, <1>21, <1>22, <1>23, <1>24, <1>25, <1>26, <1>27, <1>28, <1>29, <1>31, <1>32, <1>33,
       <1>36, <1>37, <1>38, <1>39 DEF Agreed

(* updateItem: only a file's mode, and the event that tells it is the next. *)
LEMMA ModeAgrees ==
  ASSUME NEW V, NEW O, NEW R, NEW C, NEW F, NEW K, NEW E, NEW L, NEW G, NEW n, NEW rdy, NEW lns,
         Shapes(C, F, E, L), Agreed(V, O, R, C, F, K, E, L, G, n, rdy, lns),
         NEW p \in Paths, V[p] \in Plain, NEW k \in Plain,
         NEW i \in 1..Len(E), Tells(F, E, i, {"ATTRIB"}, p),
         NEW V2, V2 = [V EXCEPT ![p] = k]
  PROVE  Agreed(V2, O, R, C, F, K, E, L, G, n, rdy, lns)
  <1>1. TreeKept(V, O, R) /\ V \in [Paths -> EntryKinds \union {"unknown"}]
    BY DEF Agreed, TreeKept
  <1>2. /\ \A x \in Paths : V2[x] = IF x = p THEN k ELSE V[x]
        /\ V2 \in [Paths -> EntryKinds \union {"unknown"}]
    BY <1>1 DEF EntryKinds, Plain
  <1>3. \A x \in Paths : /\ V2[x] = "none" <=> V[x] = "none"
                         /\ V2[x] = "dir" <=> V[x] = "dir"
    BY <1>2 DEF Plain
  <1>4. TreeKept(V2, O, R)
    <2>1. ASSUME NEW x \in Paths, V2[x] # "none" PROVE parent(x) = Root \/ V2[parent(x)] = "dir"
      BY <1>1, <1>3, <2>1, PathsAbove DEF TreeKept, Open
    <2>2. (\A g \in O : V2[g] = "dir") /\ \A x \in R : V2[x] = "none"
      BY <1>1, <1>3 DEF TreeKept
    <2> QED
      BY <1>1, <1>2, <2>1, <2>2 DEF TreeKept
  <1>5. ShownThere(V2, O, F, E, G)
    <2> SUFFICES ASSUME NEW x \in Paths, parent(x) \in Open(O), V2[x] # "none"
                 PROVE  \/ V2[x] = G[x]
                        \/ Doomed(F, E, x)
                        \/ /\ V2[x] \in Plain /\ G[x] \in Plain
                           /\ \E j \in 1..Len(E) : Tells(F, E, j, Came \union {"ATTRIB"}, x)
      BY DEF ShownThere
    <2>1. \/ V[x] = G[x]
          \/ Doomed(F, E, x)
          \/ /\ V[x] \in Plain /\ G[x] \in Plain
             /\ \E j \in 1..Len(E) : Tells(F, E, j, Came \union {"ATTRIB"}, x)
      BY <1>3 DEF Agreed, ShownThere
    <2>2. CASE x = p
      <3>1. V2[x] \in Plain /\ V[x] \in Plain
        BY <1>2, <2>2
      <3>2. Tells(F, E, i, Came \union {"ATTRIB"}, x)
        BY <2>2 DEF Tells
      <3> QED
        BY <2>1, <3>1, <3>2
    <2>3. CASE x # p
      BY <1>2, <2>1, <2>3
    <2> QED
      BY <2>2, <2>3
  <1>6. ThereShown(V2, O, F, C, E, L, G)
    BY <1>3 DEF Agreed, ThereShown
  <1>7. ItemsWatched(V2, O, F)
    BY <1>3 DEF Agreed, ItemsWatched
  <1> QED
    BY <1>4, <1>5, <1>6, <1>7 DEF Agreed

(* A tree of files: what is there is in a directory.                       *)
TreeOf(G) == \A x \in Paths : G[x] # "none" => parent(x) = Root \/ G[parent(x)] = "dir"

(* A folder that is open and not a directory any more will be removed.     *)
LEMMA OpenDoomed ==
  ASSUME NEW V, NEW O, NEW R, NEW C, NEW F, NEW K, NEW E, NEW L, NEW G, NEW n, NEW rdy, NEW lns,
         Shapes(C, F, E, L), Agreed(V, O, R, C, F, K, E, L, G, n, rdy, lns),
         NEW d \in Paths, G[d] # "dir", NEW g \in O, IsPrefix(d, g)
  PROVE  d \in O /\ V[d] = "dir" /\ Doomed(F, E, d) /\ Doomed(F, E, g)
  <1>1. TreeKept(V, O, R) /\ O \subseteq Paths
    BY DEF Agreed, TreeKept
  <1>2. d \in O /\ V[d] = "dir"
    BY <1>1 DEF TreeKept
  <1>3. d \in Names /\ d # Root /\ g \in Names
    BY <1>1, PathsAbove
  <1>4. parent(d) \in Open(O)
    <2>1. parent(d) \in Open(Paths) /\ parent(d) \in Names /\ IsPrefix(parent(d), d)
      BY <1>3, PathsAbove, AboveIs
    <2> QED
      BY <1>1, <1>2, <2>1 DEF TreeKept, Open
  <1>5. Doomed(F, E, d)
    BY <1>2, <1>4 DEF Agreed, ShownThere, Plain
  <1> QED
    BY <1>2, <1>3, <1>5, DoomedBelow

(* handleError: the folder's items make way for the error.                 *)
LEMMA ErrorAgrees ==
  ASSUME NEW V, NEW O, NEW R, NEW C, NEW F, NEW K, NEW E, NEW L, NEW G, NEW n, NEW rdy, NEW lns,
         Shapes(C, F, E, L), Agreed(V, O, R, C, F, K, E, L, G, n, rdy, lns), TreeOf(G),
         NEW d \in Paths, G[d] # "dir",
         NEW V2, V2 = [x \in Paths |-> IF IsPrefix(d, x) /\ x # d THEN "none" ELSE V[x]],
         NEW O2, O2 = {g \in O : ~ (IsPrefix(d, g) /\ g # d)}
  PROVE  Agreed(V2, O2, R, C, F, K, E, L, G, n, rdy, lns)
  <1>1. TreeKept(V, O, R) /\ O \subseteq Paths
    BY DEF Agreed, TreeKept
  <1>2. \A x \in Paths : V2[x] = IF IsPrefix(d, x) /\ x # d THEN "none" ELSE V[x]
    OBVIOUS
  <1>3. O2 \subseteq O /\ Open(O2) \subseteq Open(O)
    BY DEF Open
  <1>4. \A g \in Open(O) : g \in Open(O2) \/ Doomed(F, E, g)
    BY OpenDoomed DEF Open
  <1>5. TreeKept(V2, O2, R)
    <2>1. V2 \in [Paths -> EntryKinds \union {"unknown"}]
      BY <1>1 DEF TreeKept, EntryKinds
    <2>2. ASSUME NEW x \in Paths, V2[x] # "none" PROVE parent(x) = Root \/ V2[parent(x)] = "dir"
      <3>1. V[x] # "none" /\ (parent(x) = Root \/ V[parent(x)] = "dir")
        BY <1>1, <1>2, <2>2 DEF TreeKept
      <3>2. x \in Names /\ x # Root /\ d \in Names /\ parent(x) \in Open(Paths)
        BY PathsAbove
      <3>3. ~ (IsPrefix(d, parent(x)) /\ parent(x) # d)
        BY <1>2, <2>2, <3>2, AboveIs
      <3> QED
        BY <1>2, <3>1, <3>2, <3>3 DEF Open
    <2>3. O2 \subseteq Paths /\ \A g \in O2 : V2[g] = "dir"
      BY <1>1, <1>2, <1>3 DEF TreeKept
    <2>4. ASSUME NEW g \in O2, NEW x \in Paths, IsPrefix(x, g) PROVE x \in O2
      <3>1. x \in O
        BY <1>1, <1>3, <2>4 DEF TreeKept
      <3>2. ASSUME IsPrefix(d, x), x # d PROVE FALSE
        BY <1>1, <1>3, <2>4, <3>2, PathsAbove, PathOrder
      <3> QED
        BY <3>1, <3>2
    <2>5. R \subseteq Paths /\ \A x \in R : V2[x] = "none"
      BY <1>1, <1>2 DEF TreeKept
    <2> QED
      BY <2>1, <2>2, <2>3, <2>4, <2>5 DEF TreeKept
  <1>6. AddedLast(O2, F, C, L) /\ ListedBefore(O2, F, C, L) /\ CreatedBefore(O2, F, E, L, n, rdy, lns)
    BY <1>3 DEF Agreed, AddedLast, ListedBefore, CreatedBefore
  <1>7. WatchedOpen(O2, F, C, E) /\ AddedOpen(O2, F, C, E) /\ OpenWatched(O2, F, C, E)
    BY <1>3, <1>4 DEF Agreed, WatchedOpen, AddedOpen, OpenWatched
  <1>8. StaleLeft(O2, F, K, E) /\ LeftCreated(O2, F, E, G) /\ TwinsDoomed(O2, F, E)
    BY <1>3 DEF Agreed, StaleLeft, LeftCreated, TwinsDoomed
  <1>9. ShownThere(V2, O2, F, E, G)
    <2> SUFFICES ASSUME NEW x \in Paths, parent(x) \in Open(O2), V2[x] # "none"
                 PROVE  V2[x] = V[x] /\ parent(x) \in Open(O)
      BY DEF Agreed, ShownThere
    <2> QED
      BY <1>2, <1>3
  <1>10. ThereShown(V2, O2, F, C, E, L, G)
    <2> SUFFICES ASSUME NEW x \in Paths, parent(x) \in Open(O2), G[x] # "none"
                 PROVE  V2[x] = V[x] /\ parent(x) \in Open(O)
      BY DEF Agreed, ThereShown
    <2> SUFFICES ASSUME IsPrefix(d, x), x # d PROVE FALSE
      BY <1>2, <1>3
    <2>1. x \in Names /\ x # Root /\ d \in Names /\ d # Root
      BY PathsAbove
    <2>2. IsPrefix(d, parent(x)) /\ parent(x) \in Names
      BY <2>1, AboveIs
    <2>3. parent(x) # Root
      BY <2>1, <2>2, PathOrder
    <2>4. parent(x) = d
      BY <2>2, <2>3 DEF Open
    <2> QED
      BY <2>3, <2>4 DEF TreeOf
  <1>11. ItemsWatched(V2, O2, F) /\ WatchedAbove(O2, F, C)
    BY <1>2, <1>3 DEF Agreed, ItemsWatched, WatchedAbove
  <1> QED
    BY <1>5, <1>6, <1>7, <1>8, <1>9, <1>10, <1>11 DEF Agreed

-----------------------------------------------------------------------------
(* The helper handles a command *)

LEMMA TailIs ==
  ASSUME NEW T, NEW S \in Seq(T), S # <<>>, NEW D, D = Tail(S)
  PROVE  /\ D \in Seq(T) /\ Len(S) \in Nat \ {0} /\ Len(D) = Len(S) - 1 /\ 1 \in 1..Len(S)
         /\ S[1] = Head(S) /\ Head(S) \in T
         /\ \A i \in 1..Len(D) : i + 1 \in 1..Len(S) /\ D[i] = S[i + 1]
         /\ \A i \in 1..Len(S) : i # 1 => i - 1 \in 1..Len(D) /\ D[i - 1] = S[i]
  <1>1. /\ D \in Seq(T) /\ Len(D) = Len(S) - 1 /\ \A i \in 1..Len(D) : D[i] = S[i + 1]
        /\ Head(S) \in T
    BY HeadTailProperties
  <1>2. Len(S) \in Nat \ {0}
    BY LenProperties, EmptySeq
  <1>3. S[1] = Head(S)
    BY <1>2
  <1>4. ASSUME NEW i \in 1..Len(S), i # 1 PROVE i - 1 \in 1..Len(D) /\ D[i - 1] = S[i]
    <2>1. i - 1 \in 1..Len(D) /\ (i - 1) + 1 = i
      BY <1>1, <1>2, <1>4
    <2> QED
      BY <1>1, <2>1
  <1> QED
    BY <1>1, <1>2, <1>3, <1>4

(* The command that was read first has been done.                          *)
LEMMA DoneAgrees ==
  ASSUME NEW V, NEW O, NEW R, NEW C, NEW F, NEW K, NEW E, NEW L, NEW G, NEW n, NEW rdy, NEW lns,
         Shapes(C, F, E, L), Agreed(V, O, R, C, F, K, E, L, G, n, rdy, lns),
         C # <<>>, lns \in Seq(PaneCommands), lns # <<>>,
         \A d \in Names : Adds(C, 1, d) =>
           /\ d \in Open(O) => Watched(F, d) \/ Doomed(F, E, d)
           /\ \A x \in Paths : parent(x) = d /\ d \in Open(O) /\ G[x] # "none" => d \in L,
         C[1].op = "remove" => \A w \in F : ~ IsPrefix(C[1].fname, w.fname),
         NEW D, D = Tail(C), NEW ls, ls = Tail(lns)
  PROVE  Agreed(V, O, R, D, F, K, E, L, G, n, rdy, ls)
  <1>0. C \in Seq(PaneCommands)
    BY DEF Shapes
  <1>1. /\ Len(C) \in Nat \ {0} /\ Len(D) = Len(C) - 1 /\ 1 \in 1..Len(C)
        /\ \A i \in 1..Len(D) : i + 1 \in 1..Len(C) /\ D[i] = C[i + 1]
        /\ \A i \in 1..Len(C) : i # 1 => i - 1 \in 1..Len(D) /\ D[i - 1] = C[i]
    BY <1>0, TailIs
  <1>2. \A i \in 1..Len(ls) : i + 1 \in 1..Len(lns) /\ ls[i] = lns[i + 1]
    BY TailIs
  <1>3. C[1].fname \in Names
    BY <1>0, <1>1, CommandTypes2
  <1>4. \A i \in 1..Len(D) : \A p : Adds(D, i, p) => Adds(C, i + 1, p) /\ i + 1 \in 1..Len(C)
    BY <1>1 DEF Adds
  <1>5. \A i \in 1..Len(D) : \A p : Removes(D, i, p) => Removes(C, i + 1, p) /\ i + 1 \in 1..Len(C)
    BY <1>1 DEF Removes
  <1>6. \A p : Adding(C, p) => Adding(D, p) \/ Adds(C, 1, p)
    BY <1>1 DEF Adding, Adds
  <1>7. ASSUME NEW m \in Nat, NEW p, Removing(C, m + 1, p) PROVE Removing(D, m, p)
    <2>1. PICK i \in 1..Len(C) : i > m + 1 /\ Removes(C, i, p)
      BY <1>7 DEF Removing
    <2>2. i # 1 /\ i - 1 > m
      BY <1>7, <2>1
    <2> QED
      BY <1>1, <2>1, <2>2 DEF Removing, Removes
  <1>8. ASSUME NEW w \in F, Removing(C, 0, w.fname) PROVE Removing(D, 0, w.fname)
    <2>1. PICK i \in 1..Len(C) : Removes(C, i, w.fname)
      BY <1>8 DEF Removing
    <2>2. i # 1
      BY <2>1 DEF Removes
    <2>3. Removing(C, 0 + 1, w.fname)
      BY <1>1, <2>1, <2>2 DEF Removing
    <2> QED
      BY <1>7, <2>3
  <1>9. Forgotten(R, F, D, L)
    BY <1>1 DEF Agreed, Forgotten
  <1>10. AddedLast(O, F, D, L)
    <2> SUFFICES ASSUME NEW i \in 1..Len(D), D[i].op = "remove"
                 PROVE  /\ D[i].fname # Root
                        /\ \A h \in O : IsPrefix(D[i].fname, h) =>
                             /\ D[i].fname = h /\ ~ Watched(F, h) /\ h \notin L
                             /\ \A j \in 1..Len(D) : Adds(D, j, h) => j > i
      BY DEF AddedLast
    <2>1. /\ C[i + 1].fname # Root /\ D[i] = C[i + 1]
          /\ \A h \in O : IsPrefix(C[i + 1].fname, h) =>
               /\ C[i + 1].fname = h /\ ~ Watched(F, h) /\ h \notin L
               /\ \A j \in 1..Len(C) : Adds(C, j, h) => j > i + 1
      BY <1>1 DEF Agreed, AddedLast
    <2>2. ASSUME NEW h, \A j \in 1..Len(C) : Adds(C, j, h) => j > i + 1
          PROVE  \A j \in 1..Len(D) : Adds(D, j, h) => j > i
      BY <1>4, <2>2
    <2> QED
      BY <2>1, <2>2
  <1>11. AddedAgain(F, D)
    <2> SUFFICES ASSUME NEW i \in 1..Len(D), NEW j \in 1..Len(D), i < j, D[j].op = "add", Removes(D, i, D[j].fname)
                 PROVE  /\ D[i].fname = D[j].fname /\ ~ Watched(F, D[j].fname)
                        /\ \A k \in 1..Len(D) : Adds(D, k, D[j].fname) => k > i
      BY DEF AddedAgain
    <2>1. /\ D[i] = C[i + 1] /\ D[j] = C[j + 1] /\ i + 1 \in 1..Len(C) /\ j + 1 \in 1..Len(C)
          /\ i + 1 < j + 1
      BY <1>1
    <2>2. Removes(C, i + 1, C[j + 1].fname)
      BY <2>1 DEF Removes
    <2>3. /\ C[i + 1].fname = C[j + 1].fname /\ ~ Watched(F, C[j + 1].fname)
          /\ \A k \in 1..Len(C) : Adds(C, k, C[j + 1].fname) => k > i + 1
      BY <2>1, <2>2 DEF Agreed, AddedAgain
    <2>4. \A k \in 1..Len(D) : Adds(D, k, D[j].fname) => k > i
      BY <1>4, <2>1, <2>3
    <2> QED
      BY <2>1, <2>3, <2>4
  <1>12. ListedBefore(O, F, D, L)
    <2> SUFFICES ASSUME NEW g \in O
                 PROVE  /\ parent(g) \in L => ~ Watched(F, g) /\ g \notin L
                        /\ \A i \in 1..Len(D) : Adds(D, i, parent(g)) =>
                             ~ Watched(F, g) /\ g \notin L /\ \A j \in 1..Len(D) : Adds(D, j, g) => j > i
      BY DEF ListedBefore
    <2>1. parent(g) \in L => ~ Watched(F, g) /\ g \notin L
      BY DEF Agreed, ListedBefore
    <2>2. ASSUME NEW i \in 1..Len(D), Adds(D, i, parent(g))
          PROVE  ~ Watched(F, g) /\ g \notin L /\ \A j \in 1..Len(D) : Adds(D, j, g) => j > i
      <3>1. Adds(C, i + 1, parent(g)) /\ i + 1 \in 1..Len(C)
        BY <1>4, <2>2
      <3>2. ~ Watched(F, g) /\ g \notin L /\ \A j \in 1..Len(C) : Adds(C, j, g) => j > i + 1
        BY <3>1 DEF Agreed, ListedBefore
      <3> QED
        BY <1>4, <3>2
    <2> QED
      BY <2>1, <2>2
  <1>13. CreatedBefore(O, F, E, L, n, rdy, ls)
    BY <1>2 DEF Agreed, CreatedBefore, Adds
  <1>14. WatchedOpen(O, F, D, E) /\ StaleDoomed(F, K, D, E)
    BY <1>8 DEF Agreed, WatchedOpen, StaleDoomed
  <1>15. AddedOpen(O, F, D, E)
    BY <1>1, <1>7 DEF Agreed, AddedOpen
  <1>16. OpenWatched(O, F, D, E)
    BY <1>3, <1>6 DEF Agreed, OpenWatched, Adds
  <1>17. ThereShown(V, O, F, D, E, L, G)
    BY <1>3, <1>6 DEF Agreed, ThereShown, Adds
  <1>18. WatchedAbove(O, F, D)
    BY <1>1 DEF Agreed, WatchedAbove
  <1> QED
    BY <1>9, <1>10, <1>11, <1>12, <1>13, <1>14, <1>15, <1>16, <1>17, <1>18 DEF Agreed

(* remove_watch_and_subwatches: a folder and all that is below it.         *)
LEMMA ForgottenAgrees ==
  ASSUME NEW V, NEW O, NEW R, NEW C, NEW F, NEW K, NEW E, NEW L, NEW G, NEW n, NEW rdy, NEW lns,
         Shapes(C, F, E, L), Agreed(V, O, R, C, F, K, E, L, G, n, rdy, lns),
         NEW d \in Names, d # Root,
         \A h \in O : IsPrefix(d, h) => h = d /\ ~ Watched(F, d),
         \A i \in 1..Len(C) : C[i].op = "add" /\ IsPrefix(d, C[i].fname) =>
           C[i].fname = d \/ Removing(C, i, C[i].fname),
         NEW F2, F2 = {w \in F : ~ IsPrefix(d, w.fname)},
         NEW K2, K2 \subseteq K,
         \A k \in K : k \in K2 \/ \E w \in F : w.wd = k.wd /\ IsPrefix(d, w.fname)
  PROVE  Agreed(V, O, R, C, F2, K2, E, L, G, n, rdy, lns)
  <1>0. C \in Seq(PaneCommands) /\ (\A w \in F : w.fname \in Names) /\ F2 \subseteq F
        /\ \A v, w \in F : v.wd = w.wd => v = w
    BY DEF Shapes
  <1>1. TreeKept(V, O, R) /\ O \subseteq Paths
    BY DEF Agreed, TreeKept
  <1>2. \A g \in Open(O) : g \in Names /\ (IsPrefix(d, g) => g = d /\ ~ Watched(F, d))
    BY <1>1, PathsAbove, PathOrder DEF Open
  <1>3. \A f : Watched(F2, f) => Watched(F, f)
    BY <1>0 DEF Watched
  <1>4. \A i, p : Dooms(F2, E, i, p) => Dooms(F, E, i, p)
    BY <1>0 DEF Dooms
  <1>5. \A i, p, M : Tells(F2, E, i, M, p) => Tells(F, E, i, M, p)
    BY <1>0 DEF Tells
  (* A path is told of no more only when it is below d.                     *)
  <1>6. ASSUME NEW i \in 1..Len(E), NEW p \in Names, Dooms(F, E, i, p),
               ~ IsPrefix(d, p) \/ p = d \/ (~ Watched(F, d) /\ parent(p) = d)
        PROVE  Dooms(F2, E, i, p)
    <2>0. Dooms(F, E, i, p)
      BY <1>6
    <2>1. PICK w \in F : /\ w.fname \in Names /\ Dooms({w}, E, i, p)
                         /\ IsPrefix(w.fname, p) /\ IsPrefix(w.fname, parent(p))
      BY <2>0, DoomedBy
    <2>2. p # Root
      BY <2>0, DoomIs
    <2>3. ~ IsPrefix(d, w.fname)
      <3> SUFFICES ASSUME IsPrefix(d, w.fname) PROVE FALSE
        OBVIOUS
      <3>1. IsPrefix(d, p) /\ IsPrefix(d, parent(p)) /\ parent(p) \in Names
        BY <2>1, <2>2, AboveIs, PathOrder
      <3>2. p # d
        BY <2>2, <3>1, AboveIs
      <3>3. parent(p) = d /\ ~ Watched(F, d)
        BY <1>6, <3>1, <3>2
      <3>4. w.fname = d
        BY <2>1, <3>3, PathOrder
      <3> QED
        BY <3>3, <3>4 DEF Watched
    <2>4. w \in F2
      BY <2>3
    <2> QED
      BY <2>1, <2>4 DEF Dooms
  <1>7. ASSUME NEW p \in Names, Doomed(F, E, p),
               ~ IsPrefix(d, p) \/ p = d \/ (~ Watched(F, d) /\ parent(p) = d)
        PROVE  Doomed(F2, E, p)
    BY <1>6, <1>7 DEF Doomed
  <1>8. ASSUME NEW i \in 1..Len(E), E[i].mask \notin Left, NEW M, NEW p, Tells(F, E, i, M, p),
               ~ IsPrefix(d, parent(p)) \/ (~ Watched(F, d) /\ parent(p) = d)
        PROVE  Tells(F2, E, i, M, p)
    <2>1. PICK w \in F : w.wd = E[i].wd /\ p = PathOf(w, E[i])
      BY <1>8 DEF Tells
    <2>2. parent(p) = w.fname
      BY <1>8, <2>1, EntryOf
    <2>3. w \in F2
      BY <1>8, <2>2 DEF Watched
    <2> QED
      BY <1>8, <2>1, <2>3 DEF Tells
  <1>9. \A M : M \in {Came, Came \union {"ATTRIB"}} => M \intersect Left = {}
    BY DEF Came, Left
  <1>10. \A i \in 1..Len(E) : \A M, p : M \in {Came, Came \union {"ATTRIB"}} /\ Tells(F, E, i, M, p)
            => E[i].mask \notin Left
    BY <1>9 DEF Tells
  <1>11. \A w \in F2 : Live(K, w) => Live(K2, w)
    BY <1>0 DEF Live
  <1>12. \A w \in F2 : w.fname \in Names /\ ~ IsPrefix(d, w.fname)
                       /\ (w.fname # Root => parent(w.fname) \in Names /\ ~ IsPrefix(d, parent(w.fname)))
    BY <1>0, AboveIs
  (* Of an open folder that shows something, or may, all stays told.        *)
  <1>13. ASSUME NEW x \in Paths, parent(x) \in Open(O)
         PROVE  ~ IsPrefix(d, parent(x)) \/ (~ Watched(F, d) /\ parent(x) = d)
    BY <1>2, <1>13
  <1>14. ASSUME NEW x \in Paths, parent(x) \in Open(O), Doomed(F, E, x) PROVE Doomed(F2, E, x)
    <2>1. x \in Names /\ x # Root
      BY PathsAbove
    <2>2. ~ IsPrefix(d, x) \/ x = d \/ (~ Watched(F, d) /\ parent(x) = d)
      BY <1>13, <1>14, <2>1, AboveIs
    <2> QED
      BY <1>7, <1>14, <2>1, <2>2
  <1>15. Forgotten(R, F2, C, L) /\ AddedLast(O, F2, C, L) /\ AddedAgain(F2, C) /\ ListedBefore(O, F2, C, L)
    BY <1>0, <1>3 DEF Agreed, Forgotten, AddedLast, AddedAgain, ListedBefore
  <1>16. CreatedBefore(O, F2, E, L, n, rdy, lns)
    <2> SUFFICES ASSUME NEW g \in O, NEW i \in 1..Len(E), Tells(F2, E, i, Came, g)
                 PROVE  \/ \E j \in 1..Len(E) : j < i /\ Dooms(F2, E, j, g)
                        \/ /\ ~ Watched(F2, g) /\ g \notin L
                           /\ \A j \in 1..Len(lns) : ~ Adds(lns, j, g)
                           /\ i > n => ~ rdy
      BY DEF CreatedBefore
    <2>1. \/ \E j \in 1..Len(E) : j < i /\ Dooms(F, E, j, g)
          \/ /\ ~ Watched(F, g) /\ g \notin L
             /\ \A j \in 1..Len(lns) : ~ Adds(lns, j, g)
             /\ i > n => ~ rdy
      BY <1>5 DEF Agreed, CreatedBefore
    <2>2. ASSUME NEW j \in 1..Len(E), Dooms(F, E, j, g) PROVE Dooms(F2, E, j, g)
      BY <1>2, <1>6, <2>2 DEF Open
    <2> QED
      BY <1>3, <2>1, <2>2
  <1>17. WatchedOpen(O, F2, C, E) /\ StaleDoomed(F2, K2, C, E)
    BY <1>0, <1>7, <1>11, <1>12 DEF Agreed, WatchedOpen, StaleDoomed
  <1>18. AddedOpen(O, F2, C, E)
    <2> SUFFICES ASSUME NEW i \in 1..Len(C), C[i].op = "add", Doomed(F, E, C[i].fname),
                        ~ Removing(C, i, C[i].fname)
                 PROVE  Doomed(F2, E, C[i].fname)
      BY DEF Agreed, AddedOpen
    <2>1. C[i].fname \in Names
      BY <1>0, CommandTypes2
    <2> QED
      BY <1>7, <2>1
  <1>19. OpenWatched(O, F2, C, E)
    <2> SUFFICES ASSUME NEW h \in Open(O) PROVE Watched(F2, h) \/ Adding(C, h) \/ Doomed(F2, E, h)
      BY DEF OpenWatched
    <2>1. Watched(F, h) \/ Adding(C, h) \/ Doomed(F, E, h)
      BY DEF Agreed, OpenWatched
    <2>2. ASSUME Watched(F, h) PROVE Watched(F2, h)
      BY <1>2, <2>2 DEF Watched
    <2> QED
      BY <1>2, <1>7, <2>1, <2>2
  <1>20. StaleLeft(O, F2, K2, E)
    <2> SUFFICES ASSUME NEW w \in F2, w.fname # Root, parent(w.fname) \in Open(O), ~ Live(K2, w)
                 PROVE  \/ \E i \in 1..Len(E) : E[i].wd = w.wd /\ E[i].mask \in Left
                        \/ Doomed(F2, E, parent(w.fname))
      BY DEF StaleLeft
    <2>1. \/ \E i \in 1..Len(E) : E[i].wd = w.wd /\ E[i].mask \in Left
          \/ Doomed(F, E, parent(w.fname))
      BY <1>0, <1>11 DEF Agreed, StaleLeft
    <2> QED
      BY <1>7, <1>12, <2>1
  <1>21. LeftCreated(O, F2, E, G)
    <2> SUFFICES ASSUME NEW w \in F2, w.fname \in Paths, parent(w.fname) \in Open(O), G[w.fname] # "none",
                        NEW i \in 1..Len(E), E[i].wd = w.wd, E[i].mask \in Left,
                        \A j \in 1..Len(E) : j < i => ~ (E[j].wd = w.wd /\ E[j].mask \in Left)
                 PROVE  \/ Doomed(F2, E, parent(w.fname))
                        \/ \E j \in 1..Len(E) : j > i /\ Tells(F2, E, j, Came, w.fname)
      BY DEF LeftCreated
    <2>1. \/ Doomed(F, E, parent(w.fname))
          \/ \E j \in 1..Len(E) : j > i /\ Tells(F, E, j, Came, w.fname)
      BY <1>0 DEF Agreed, LeftCreated
    <2>2. ASSUME NEW j \in 1..Len(E), Tells(F, E, j, Came, w.fname) PROVE Tells(F2, E, j, Came, w.fname)
      BY <1>8, <1>10, <1>13, <2>2
    <2>3. w.fname # Root
      BY PathsAbove
    <2> QED
      BY <1>7, <1>12, <2>1, <2>2, <2>3
  <1>22. ShownThere(V, O, F2, E, G)
    <2> SUFFICES ASSUME NEW x \in Paths, parent(x) \in Open(O), V[x] # "none"
                 PROVE  \/ V[x] = G[x]
                        \/ Doomed(F2, E, x)
                        \/ /\ V[x] \in Plain /\ G[x] \in Plain
                           /\ \E i \in 1..Len(E) : Tells(F2, E, i, Came \union {"ATTRIB"}, x)
      BY DEF ShownThere
    <2>1. \/ V[x] = G[x]
          \/ Doomed(F, E, x)
          \/ /\ V[x] \in Plain /\ G[x] \in Plain
             /\ \E i \in 1..Len(E) : Tells(F, E, i, Came \union {"ATTRIB"}, x)
      BY DEF Agreed, ShownThere
    <2>2. ASSUME NEW j \in 1..Len(E), Tells(F, E, j, Came \union {"ATTRIB"}, x)
          PROVE  Tells(F2, E, j, Came \union {"ATTRIB"}, x)
      BY <1>8, <1>10, <1>13, <2>2
    <2> QED
      BY <1>14, <2>1, <2>2
  <1>23. ThereShown(V, O, F2, C, E, L, G)
    <2> SUFFICES ASSUME NEW x \in Paths, parent(x) \in Open(O), G[x] # "none"
                 PROVE  \/ V[x] # "none"
                        \/ \E i \in 1..Len(E) : Tells(F2, E, i, Came, x)
                        \/ Adding(C, parent(x)) \/ parent(x) \in L \/ Doomed(F2, E, x)
      BY DEF ThereShown
    <2>1. \/ V[x] # "none"
          \/ \E i \in 1..Len(E) : Tells(F, E, i, Came, x)
          \/ Adding(C, parent(x)) \/ parent(x) \in L \/ Doomed(F, E, x)
      BY DEF Agreed, ThereShown
    <2>2. ASSUME NEW j \in 1..Len(E), Tells(F, E, j, Came, x) PROVE Tells(F2, E, j, Came, x)
      BY <1>8, <1>10, <1>13, <2>2
    <2> QED
      BY <1>14, <2>1, <2>2
  <1>24. ItemsWatched(V, O, F2)
    <2> SUFFICES ASSUME NEW x \in Paths, parent(x) \in Open(O), V[x] # "none" PROVE Watched(F2, parent(x))
      BY DEF ItemsWatched
    <2>1. Watched(F, parent(x))
      BY DEF Agreed, ItemsWatched
    <2> QED
      BY <1>13, <2>1 DEF Watched
  <1>25. WatchedAbove(O, F2, C)
    <2> SUFFICES ASSUME NEW h \in Open(O), ~ Watched(F2, h) PROVE ~ Watched(F, h)
      BY <1>0 DEF Agreed, WatchedAbove
    <2> QED
      BY <1>2 DEF Watched
  <1>26. TwinsDoomed(O, F2, E)
    <2> SUFFICES ASSUME NEW v \in F2, NEW w \in F2, v # w, v.fname = w.fname, v.fname \in Open(O)
                 PROVE  \E j \in 1..Len(E) :
                          /\ Dooms(F2, E, j, v.fname)
                          /\ \/ \A i \in 1..Len(E) : E[i].wd = v.wd => j < i
                             \/ \A i \in 1..Len(E) : E[i].wd = w.wd => j < i
      BY DEF TwinsDoomed
    <2>1. PICK j \in 1..Len(E) :
            /\ Dooms(F, E, j, v.fname)
            /\ \/ \A i \in 1..Len(E) : E[i].wd = v.wd => j < i
               \/ \A i \in 1..Len(E) : E[i].wd = w.wd => j < i
      BY <1>0 DEF Agreed, TwinsDoomed
    <2>2. Dooms(F2, E, j, v.fname)
      BY <1>6, <1>12, <2>1
    <2> QED
      BY <2>1, <2>2
  <1> QED
    BY <1>15, <1>16, <1>17, <1>18, <1>19, <1>20, <1>21, <1>22, <1>23, <1>24, <1>25, <1>26 DEF Agreed

(* The pane has heard of the first event: what it removes is closed and    *)
(* not shown, what it creates or changes is shown as what is there.        *)
Heard(V, O, C, F, E, G) ==
  /\ Len(E) > 0
  /\ \A p \in Names : Dooms(F, E, 1, p) =>
       /\ p \notin O
       /\ Len(C) > 0 /\ C[Len(C)].op = "remove" /\ IsPrefix(C[Len(C)].fname, p)
       /\ p \in Paths => V[p] = "none"
  /\ \A p \in Paths : Dooms(F, E, 1, p) /\ parent(p) \in Open(O) /\ G[p] # "none" =>
       \E j \in 1..Len(E) : j > 1 /\ (Dooms(F, E, j, p) \/ Tells(F, E, j, Came, p))
  /\ \A p \in Paths : Tells(F, E, 1, Came \union {"ATTRIB"}, p) /\ parent(p) \in Open(O) =>
       (V[p] \in Plain /\ G[p] \in Plain => V[p] = G[p])
  /\ \A p \in Paths : Tells(F, E, 1, Came, p) /\ parent(p) \in Open(O) => V[p] # "none"
  /\ E[1].mask \in Left => \A w \in F : w.wd # E[1].wd

(* D is E without its first.                                               *)
Follows(D, E) == Len(D) = Len(E) - 1 /\ \A i \in 1..Len(D) : D[i] = E[i + 1]

(* The event that was read first has been handled.                         *)
LEMMA HandledAgrees ==
  ASSUME NEW V, NEW O, NEW R, NEW C, NEW F, NEW K, NEW E, NEW L, NEW G, NEW n \in Int, NEW rdy, NEW lns,
         Shapes(C, F, E, L), Agreed(V, O, R, C, F, K, E, L, G, n, rdy, lns), Heard(V, O, C, F, E, G),
         NEW D, Follows(D, E), NEW m, m = n - 1
  PROVE  Agreed(V, O, R, C, F, K, D, L, G, m, rdy, lns)
  <1> USE DEF Heard, Follows
  <1>0. /\ C \in Seq(PaneCommands) /\ Len(C) \in Nat /\ Len(E) \in Nat /\ Len(D) \in Nat /\ 1 \in 1..Len(E)
        /\ \A w \in F : w.fname \in Names
    BY LenProperties DEF Shapes
  <1>1. TreeKept(V, O, R) /\ O \subseteq Paths
    BY DEF Agreed, TreeKept
  <1>2. /\ \A i \in 1..Len(D) : i + 1 \in 1..Len(E) /\ D[i] = E[i + 1]
        /\ \A i \in 1..Len(E) : i # 1 => i - 1 \in 1..Len(D) /\ D[i - 1] = E[i]
    <2>1. ASSUME NEW i \in 1..Len(E), i # 1 PROVE i - 1 \in 1..Len(D) /\ D[i - 1] = E[i]
      <3>1. i - 1 \in 1..Len(D) /\ (i - 1) + 1 = i
        BY <1>0, <2>1
      <3> QED
        BY <3>1
    <2> QED
      BY <1>0, <2>1
  <1>3. \A i \in 1..Len(D) : \A M, p : Tells(F, D, i, M, p) <=> Tells(F, E, i + 1, M, p)
    BY <1>2 DEF Tells, PathOf
  <1>4. \A i \in 1..Len(D) : \A p : Dooms(F, D, i, p) <=> Dooms(F, E, i + 1, p)
    BY <1>2 DEF Dooms, PathOf
  <1>5. ASSUME NEW i \in 1..Len(E), i # 1 PROVE /\ i - 1 \in 1..Len(D) /\ (i - 1) + 1 = i
                                                /\ \A p : Dooms(F, E, i, p) => Dooms(F, D, i - 1, p)
                                                /\ \A M, p : Tells(F, E, i, M, p) => Tells(F, D, i - 1, M, p)
    <2>1. i - 1 \in 1..Len(D) /\ (i - 1) + 1 = i
      BY <1>2, <1>5
    <2> QED
      BY <1>3, <1>4, <2>1
  <1>6. \A p : Doomed(F, E, p) => Doomed(F, D, p) \/ Dooms(F, E, 1, p)
    BY <1>5 DEF Doomed
  <1>7. \A g \in Open(O) : g \in Names /\ ~ Dooms(F, E, 1, g)
    <2>1. \A g \in O : g \in Names /\ ~ Dooms(F, E, 1, g)
      BY <1>1, PathsAbove
    <2>2. Root \in Names /\ ~ Dooms(F, E, 1, Root)
      BY <1>0, PathOrder, DoomIs
    <2> QED
      BY <2>1, <2>2 DEF Open
  <1>8. \A g \in Open(O) : Doomed(F, E, g) => Doomed(F, D, g)
    BY <1>6, <1>7
  <1>9. ASSUME NEW f \in Names, Dooms(F, E, 1, f)
        PROVE  /\ Removing(C, 0, f)
               /\ \A i \in 1..Len(C) : C[i].op = "add" => Removing(C, i, f)
    <2>1. Len(C) \in 1..Len(C) /\ Removes(C, Len(C), f)
      BY <1>0, <1>9 DEF Removes
    <2>2. \A i \in 1..Len(C) : C[i].op = "add" => i # Len(C) /\ Len(C) > i
      BY <1>0, <1>9
    <2> QED
      BY <1>0, <2>1, <2>2 DEF Removing
  <1>10. CreatedBefore(O, F, D, L, m, rdy, lns)
    <2> SUFFICES ASSUME NEW g \in O, NEW i \in 1..Len(D), Tells(F, D, i, Came, g)
                 PROVE  \/ \E j \in 1..Len(D) : j < i /\ Dooms(F, D, j, g)
                        \/ /\ ~ Watched(F, g) /\ g \notin L
                           /\ \A j \in 1..Len(lns) : ~ Adds(lns, j, g)
                           /\ i > m => ~ rdy
      BY DEF CreatedBefore
    <2>1. i + 1 \in 1..Len(E) /\ Tells(F, E, i + 1, Came, g)
      BY <1>2, <1>3
    <2>2. \/ \E j \in 1..Len(E) : j < i + 1 /\ Dooms(F, E, j, g)
          \/ /\ ~ Watched(F, g) /\ g \notin L
             /\ \A j \in 1..Len(lns) : ~ Adds(lns, j, g)
             /\ i + 1 > n => ~ rdy
      BY <2>1 DEF Agreed, CreatedBefore
    <2>3. ASSUME NEW j \in 1..Len(E), j < i + 1, Dooms(F, E, j, g)
          PROVE  \E l \in 1..Len(D) : l < i /\ Dooms(F, D, l, g)
      <3>1. j # 1
        BY <1>7, <2>3 DEF Open
      <3>2. j - 1 < i
        BY <2>3
      <3> QED
        BY <1>5, <2>3, <3>1, <3>2
    <2>4. i > m => i + 1 > n
      OBVIOUS
    <2> QED
      BY <2>2, <2>3, <2>4
  <1>11. WatchedOpen(O, F, C, D) /\ StaleDoomed(F, K, C, D)
    BY <1>0, <1>6, <1>9 DEF Agreed, WatchedOpen, StaleDoomed
  <1>12. AddedOpen(O, F, C, D)
    <2> SUFFICES ASSUME NEW i \in 1..Len(C), C[i].op = "add", Doomed(F, E, C[i].fname)
                 PROVE  Removing(C, i, C[i].fname) \/ Doomed(F, D, C[i].fname)
      BY DEF Agreed, AddedOpen
    <2>1. C[i].fname \in Names
      BY <1>0, CommandTypes2
    <2> QED
      BY <1>6, <1>9, <2>1
  <1>13. OpenWatched(O, F, C, D)
    BY <1>8 DEF Agreed, OpenWatched
  <1>14. StaleLeft(O, F, K, D)
    <2> SUFFICES ASSUME NEW w \in F, w.fname # Root, parent(w.fname) \in Open(O), ~ Live(K, w)
                 PROVE  \/ \E i \in 1..Len(D) : D[i].wd = w.wd /\ D[i].mask \in Left
                        \/ Doomed(F, D, parent(w.fname))
      BY DEF StaleLeft
    <2>1. \/ \E i \in 1..Len(E) : E[i].wd = w.wd /\ E[i].mask \in Left
          \/ Doomed(F, E, parent(w.fname))
      BY DEF Agreed, StaleLeft
    <2>2. ASSUME NEW i \in 1..Len(E), E[i].wd = w.wd, E[i].mask \in Left
          PROVE  \E l \in 1..Len(D) : D[l].wd = w.wd /\ D[l].mask \in Left
      <3>1. i # 1
        BY <2>2
      <3> QED
        BY <1>2, <2>2, <3>1
    <2> QED
      BY <1>8, <2>1, <2>2
  <1>15. LeftCreated(O, F, D, G)
    <2> SUFFICES ASSUME NEW w \in F, w.fname \in Paths, parent(w.fname) \in Open(O), G[w.fname] # "none",
                        NEW i \in 1..Len(D), D[i].wd = w.wd, D[i].mask \in Left,
                        \A j \in 1..Len(D) : j < i => ~ (D[j].wd = w.wd /\ D[j].mask \in Left)
                 PROVE  \/ Doomed(F, D, parent(w.fname))
                        \/ \E j \in 1..Len(D) : j > i /\ Tells(F, D, j, Came, w.fname)
      BY DEF LeftCreated
    <2>1. i + 1 \in 1..Len(E) /\ E[i + 1].wd = w.wd /\ E[i + 1].mask \in Left
      BY <1>2
    <2>2. ASSUME NEW j \in 1..Len(E), j < i + 1 PROVE ~ (E[j].wd = w.wd /\ E[j].mask \in Left)
      <3>1. CASE j = 1
        BY <3>1
      <3>2. CASE j # 1
        <4>1. j - 1 \in 1..Len(D) /\ D[j - 1] = E[j] /\ j - 1 < i
          BY <1>2, <2>2, <3>2
        <4> QED
          BY <4>1
      <3> QED
        BY <3>1, <3>2
    <2>3. \/ Doomed(F, E, parent(w.fname))
          \/ \E j \in 1..Len(E) : j > i + 1 /\ Tells(F, E, j, Came, w.fname)
      BY <2>1, <2>2 DEF Agreed, LeftCreated
    <2>4. ASSUME NEW j \in 1..Len(E), j > i + 1, Tells(F, E, j, Came, w.fname)
          PROVE  \E l \in 1..Len(D) : l > i /\ Tells(F, D, l, Came, w.fname)
      <3>1. j # 1 /\ j - 1 > i
        BY <2>4
      <3> QED
        BY <1>5, <2>4, <3>1
    <2> QED
      BY <1>8, <2>3, <2>4
  <1>16. ASSUME NEW x \in Paths, parent(x) \in Open(O), Doomed(F, E, x), V[x] # "none" PROVE Doomed(F, D, x)
    BY <1>6, <1>16, PathsAbove
  <1>17. ShownThere(V, O, F, D, G)
    <2> SUFFICES ASSUME NEW x \in Paths, parent(x) \in Open(O), V[x] # "none"
                 PROVE  \/ V[x] = G[x]
                        \/ Doomed(F, D, x)
                        \/ /\ V[x] \in Plain /\ G[x] \in Plain
                           /\ \E i \in 1..Len(D) : Tells(F, D, i, Came \union {"ATTRIB"}, x)
      BY DEF ShownThere
    <2>1. \/ V[x] = G[x]
          \/ Doomed(F, E, x)
          \/ /\ V[x] \in Plain /\ G[x] \in Plain
             /\ \E i \in 1..Len(E) : Tells(F, E, i, Came \union {"ATTRIB"}, x)
      BY DEF Agreed, ShownThere
    <2>2. ASSUME NEW i \in 1..Len(E), i # 1, Tells(F, E, i, Came \union {"ATTRIB"}, x)
          PROVE  \E l \in 1..Len(D) : Tells(F, D, l, Came \union {"ATTRIB"}, x)
      BY <1>5, <2>2
    <2> QED
      BY <1>16, <2>1, <2>2
  <1>18. ThereShown(V, O, F, C, D, L, G)
    <2> SUFFICES ASSUME NEW x \in Paths, parent(x) \in Open(O), G[x] # "none", V[x] = "none"
                 PROVE  \/ \E i \in 1..Len(D) : Tells(F, D, i, Came, x)
                        \/ Adding(C, parent(x)) \/ parent(x) \in L \/ Doomed(F, D, x)
      BY DEF ThereShown
    <2>1. \/ \E i \in 1..Len(E) : Tells(F, E, i, Came, x)
          \/ Adding(C, parent(x)) \/ parent(x) \in L \/ Doomed(F, E, x)
      BY DEF Agreed, ThereShown
    <2>2. ASSUME NEW i \in 1..Len(E), Tells(F, E, i, Came, x)
          PROVE  \E l \in 1..Len(D) : Tells(F, D, l, Came, x)
      <3>1. i # 1
        BY <2>2
      <3> QED
        BY <1>5, <2>2, <3>1
    <2>3. ASSUME Dooms(F, E, 1, x)
          PROVE  Doomed(F, D, x) \/ \E l \in 1..Len(D) : Tells(F, D, l, Came, x)
      <3>1. PICK j \in 1..Len(E) : j > 1 /\ (Dooms(F, E, j, x) \/ Tells(F, E, j, Came, x))
        BY <2>3
      <3>2. j # 1
        BY <3>1
      <3> QED
        BY <1>5, <2>2, <3>1, <3>2 DEF Doomed
    <2> QED
      BY <1>6, <2>1, <2>2, <2>3
  <1>19. TwinsDoomed(O, F, D)
    <2> SUFFICES ASSUME NEW v \in F, NEW w \in F, v # w, v.fname = w.fname, v.fname \in Open(O)
                 PROVE  \E j \in 1..Len(D) :
                          /\ Dooms(F, D, j, v.fname)
                          /\ \/ \A i \in 1..Len(D) : D[i].wd = v.wd => j < i
                             \/ \A i \in 1..Len(D) : D[i].wd = w.wd => j < i
      BY DEF TwinsDoomed
    <2>1. PICK j \in 1..Len(E) :
            /\ Dooms(F, E, j, v.fname)
            /\ \/ \A i \in 1..Len(E) : E[i].wd = v.wd => j < i
               \/ \A i \in 1..Len(E) : E[i].wd = w.wd => j < i
      BY DEF Agreed, TwinsDoomed
    <2>2. j # 1
      BY <1>7, <2>1
    <2>3. j - 1 \in 1..Len(D) /\ Dooms(F, D, j - 1, v.fname)
      BY <1>5, <2>1, <2>2
    <2>4. ASSUME NEW u, \A i \in 1..Len(E) : E[i].wd = u => j < i, NEW i \in 1..Len(D), D[i].wd = u
          PROVE  j - 1 < i
      <3>1. j < i + 1
        BY <1>2, <2>4
      <3> QED
        BY <3>1
    <2> QED
      BY <2>1, <2>3, <2>4
  <1> QED
    BY <1>10, <1>11, <1>12, <1>13, <1>14, <1>15, <1>17, <1>18, <1>19 DEF Agreed

(* A watch of an open folder is live, or what removes the folder is told.  *)
LEMMA LiveOrDoomed ==
  ASSUME NEW V, NEW O, NEW R, NEW C, NEW F, NEW K, NEW E, NEW L, NEW G, NEW n, NEW rdy, NEW lns,
         Shapes(C, F, E, L), Agreed(V, O, R, C, F, K, E, L, G, n, rdy, lns),
         NEW w \in F, w.fname \in Open(O)
  PROVE  Live(K, w) \/ Doomed(F, E, w.fname)
  <1> SUFFICES ASSUME Removing(C, 0, w.fname) PROVE FALSE
    BY DEF Agreed, StaleDoomed
  <1>1. PICK i \in 1..Len(C) : Removes(C, i, w.fname)
    BY DEF Removing
  <1>2. C[i].op = "remove" /\ IsPrefix(C[i].fname, w.fname)
    BY <1>1 DEF Removes
  <1>3. C[i].fname # Root /\ C[i].fname \in Names
    BY <1>2, CommandTypes2 DEF Agreed, AddedLast, Shapes
  <1>4. CASE w.fname \in O
    <2>1. ~ Watched(F, w.fname)
      BY <1>2, <1>4 DEF Agreed, AddedLast
    <2> QED
      BY <2>1 DEF Watched
  <1>5. CASE w.fname = Root
    BY <1>2, <1>3, <1>5, PathOrder
  <1> QED
    BY <1>4, <1>5 DEF Open

(* add_watch: the watch that is new has no events yet.                     *)
LEMMA WatchAgrees ==
  ASSUME NEW V, NEW O, NEW R, NEW C, NEW F, NEW K, NEW E, NEW L, NEW G, NEW n, NEW rdy, NEW lns,
         Shapes(C, F, E, {}), Agreed(V, O, R, C, F, K, E, {}, G, n, rdy, lns),
         NEW d \in Names, C # <<>>, C[1] = add(d), 1 \in 1..Len(lns), lns[1] = C[1],
         NEW u, u.fname = d, NEW k, k.at = d, k.wd = u.wd,
         \/ u \in F /\ k \in K
         \/ /\ \A x \in K : x.at # d
            /\ \A i \in 1..Len(E) : E[i].wd # u.wd,
         NEW F2, F2 = F \union {u}, NEW K2, K2 = K \union {k}
  PROVE  Agreed(V, O, R, C, F2, K2, E, {d}, G, n, rdy, lns)
  <1>0. /\ C \in Seq(PaneCommands) /\ \A w \in F : w.fname \in Names
        /\ F \subseteq F2 /\ K \subseteq K2 /\ u \in F2 /\ k \in K2
        /\ \A w \in F2 : w \in F \/ w = u
    BY DEF Shapes
  <1>1. Adds(C, 1, d) /\ Adds(lns, 1, d) /\ 1 \in 1..Len(C) /\ C[1].op = "add" /\ C[1].fname = d
    <2>1. 1 \in 1..Len(C)
      BY <1>0, LenProperties, EmptySeq
    <2> QED
      BY <2>1 DEF Adds, add
  <1>2. TreeKept(V, O, R) /\ O \subseteq Paths
    BY DEF Agreed, TreeKept
  <1>3. \A f : f # d /\ ~ Watched(F, f) => ~ Watched(F2, f)
    BY <1>0 DEF Watched
  <1>4. \A f : Watched(F, f) => Watched(F2, f)
    BY <1>0 DEF Watched
  <1>5. Live(K2, u) /\ \A w : Live(K, w) => Live(K2, w)
    BY <1>0 DEF Live
  <1>6. /\ \A i, p : Dooms(F, E, i, p) => Dooms(F2, E, i, p)
        /\ \A i, M, p : Tells(F, E, i, M, p) => Tells(F2, E, i, M, p)
        /\ \A p : Doomed(F, E, p) => Doomed(F2, E, p)
    <2>1. \A i, p : Dooms(F, E, i, p) => Dooms(F2, E, i, p)
      BY <1>0 DEF Dooms
    <2>2. \A i, M, p : Tells(F, E, i, M, p) => Tells(F2, E, i, M, p)
      BY <1>0 DEF Tells
    <2> QED
      BY <2>1, <2>2 DEF Doomed
  <1>7. \A i \in 1..Len(E) : \A M, p : Tells(F2, E, i, M, p) => Tells(F, E, i, M, p)
    BY <1>0 DEF Tells
  <1>8. \A i \in 1..Len(E) : E[i].wd = u.wd => u \in F
    OBVIOUS
  <1>9. \A g \in O : g \in Names /\ g # Root /\ parent(g) # g
    BY <1>2, PathsAbove, AboveIs
  <1>10. Forgotten(R, F2, C, {d})
    BY <1>0, <1>1 DEF Agreed, Forgotten
  <1>11. AddedLast(O, F2, C, {d})
    <2> SUFFICES ASSUME NEW i \in 1..Len(C), C[i].op = "remove"
                 PROVE  /\ C[i].fname # Root
                        /\ \A h \in O : IsPrefix(C[i].fname, h) =>
                             /\ C[i].fname = h /\ ~ Watched(F2, h) /\ h \notin {d}
                             /\ \A j \in 1..Len(C) : Adds(C, j, h) => j > i
      BY DEF AddedLast
    <2>1. /\ C[i].fname # Root
          /\ \A h \in O : IsPrefix(C[i].fname, h) =>
               /\ C[i].fname = h /\ ~ Watched(F, h)
               /\ \A j \in 1..Len(C) : Adds(C, j, h) => j > i
      BY DEF Agreed, AddedLast
    <2>2. \A h \in O : IsPrefix(C[i].fname, h) => h # d
      BY <1>1, <2>1
    <2> QED
      BY <1>3, <2>1, <2>2
  <1>12. AddedAgain(F2, C)
    <2> SUFFICES ASSUME NEW i \in 1..Len(C), NEW j \in 1..Len(C), i < j, C[j].op = "add", Removes(C, i, C[j].fname)
                 PROVE  /\ C[i].fname = C[j].fname /\ ~ Watched(F2, C[j].fname)
                        /\ \A m \in 1..Len(C) : Adds(C, m, C[j].fname) => m > i
      BY DEF AddedAgain
    <2>1. /\ C[i].fname = C[j].fname /\ ~ Watched(F, C[j].fname)
          /\ \A m \in 1..Len(C) : Adds(C, m, C[j].fname) => m > i
      BY DEF Agreed, AddedAgain
    <2>2. C[j].fname # d
      BY <1>1, <2>1
    <2> QED
      BY <1>3, <2>1, <2>2
  <1>13. ListedBefore(O, F2, C, {d})
    <2> SUFFICES ASSUME NEW g \in O
                 PROVE  /\ parent(g) \in {d} => ~ Watched(F2, g) /\ g \notin {d}
                        /\ \A i \in 1..Len(C) : Adds(C, i, parent(g)) =>
                             ~ Watched(F2, g) /\ g \notin {d} /\ \A j \in 1..Len(C) : Adds(C, j, g) => j > i
      BY DEF ListedBefore
    <2>1. \A i \in 1..Len(C) : Adds(C, i, parent(g)) =>
            ~ Watched(F, g) /\ \A j \in 1..Len(C) : Adds(C, j, g) => j > i
      BY DEF Agreed, ListedBefore
    <2>2. \A i \in 1..Len(C) : Adds(C, i, parent(g)) => g # d
      BY <1>1, <2>1
    <2> QED
      BY <1>1, <1>3, <1>9, <2>1, <2>2
  <1>14. CreatedBefore(O, F2, E, {d}, n, rdy, lns)
    <2> SUFFICES ASSUME NEW g \in O, NEW i \in 1..Len(E), Tells(F2, E, i, Came, g)
                 PROVE  \/ \E j \in 1..Len(E) : j < i /\ Dooms(F2, E, j, g)
                        \/ /\ ~ Watched(F2, g) /\ g \notin {d}
                           /\ \A j \in 1..Len(lns) : ~ Adds(lns, j, g)
                           /\ i > n => ~ rdy
      BY DEF CreatedBefore
    <2>1. \/ \E j \in 1..Len(E) : j < i /\ Dooms(F, E, j, g)
          \/ /\ ~ Watched(F, g)
             /\ \A j \in 1..Len(lns) : ~ Adds(lns, j, g)
             /\ i > n => ~ rdy
      BY <1>7 DEF Agreed, CreatedBefore
    <2> QED
      BY <1>1, <1>3, <1>6, <2>1
  <1>15. WatchedOpen(O, F2, C, E)
    <2> SUFFICES ASSUME NEW w \in F2
                 PROVE  w.fname \in Open(O) \/ Removing(C, 0, w.fname) \/ Doomed(F2, E, w.fname)
      BY DEF WatchedOpen
    <2>1. CASE w \in F
      BY <1>6, <2>1 DEF Agreed, WatchedOpen
    <2>2. CASE w = u
      <3>1. d \in Open(O) \/ Removing(C, 1, d) \/ Doomed(F, E, d)
        BY <1>1 DEF Agreed, AddedOpen
      <3>2. Removing(C, 1, d) => Removing(C, 0, d)
        BY DEF Removing
      <3> QED
        BY <1>6, <2>2, <3>1, <3>2
    <2> QED
      BY <1>0, <2>1, <2>2
  <1>16. AddedOpen(O, F2, C, E) /\ OpenWatched(O, F2, C, E)
    BY <1>4, <1>6 DEF Agreed, AddedOpen, OpenWatched
  <1>17. StaleDoomed(F2, K2, C, E)
    BY <1>0, <1>5, <1>6 DEF Agreed, StaleDoomed
  <1>18. StaleLeft(O, F2, K2, E)
    BY <1>0, <1>5, <1>6 DEF Agreed, StaleLeft
  <1>19. LeftCreated(O, F2, E, G)
    <2> SUFFICES ASSUME NEW w \in F2, w.fname \in Paths, parent(w.fname) \in Open(O), G[w.fname] # "none",
                        NEW i \in 1..Len(E), E[i].wd = w.wd, E[i].mask \in Left,
                        \A j \in 1..Len(E) : j < i => ~ (E[j].wd = w.wd /\ E[j].mask \in Left)
                 PROVE  \/ Doomed(F2, E, parent(w.fname))
                        \/ \E j \in 1..Len(E) : j > i /\ Tells(F2, E, j, Came, w.fname)
      BY DEF LeftCreated
    <2>1. w \in F
      BY <1>0, <1>8
    <2>2. \/ Doomed(F, E, parent(w.fname))
          \/ \E j \in 1..Len(E) : j > i /\ Tells(F, E, j, Came, w.fname)
      BY <2>1 DEF Agreed, LeftCreated
    <2> QED
      BY <1>6, <2>2
  <1>20. ShownThere(V, O, F2, E, G)
    BY <1>6 DEF Agreed, ShownThere
  <1>21. ThereShown(V, O, F2, C, E, {d}, G)
    BY <1>6 DEF Agreed, ThereShown
  <1>22. ItemsWatched(V, O, F2)
    BY <1>4 DEF Agreed, ItemsWatched
  <1>23. WatchedAbove(O, F2, C)
    <2> SUFFICES ASSUME NEW h \in Open(O), ~ Watched(F2, h)
                 PROVE  ~ Watched(F, h) /\ ~ IsPrefix(h, d)
      BY <1>0 DEF Agreed, WatchedAbove
    <2>1. ~ Watched(F, h) /\ h # d
      BY <1>0, <1>4 DEF Watched
    <2> QED
      BY <1>1, <2>1 DEF Agreed, WatchedAbove
  <1>24. TwinsDoomed(O, F2, E)
    <2> SUFFICES ASSUME NEW v \in F2, NEW w \in F2, v # w, v.fname = w.fname, v.fname \in Open(O)
                 PROVE  \E j \in 1..Len(E) :
                          /\ Dooms(F2, E, j, v.fname)
                          /\ \/ \A i \in 1..Len(E) : E[i].wd = v.wd => j < i
                             \/ \A i \in 1..Len(E) : E[i].wd = w.wd => j < i
      BY DEF TwinsDoomed
    <2>1. CASE v \in F /\ w \in F
      <3>1. PICK j \in 1..Len(E) :
              /\ Dooms(F, E, j, v.fname)
              /\ \/ \A i \in 1..Len(E) : E[i].wd = v.wd => j < i
                 \/ \A i \in 1..Len(E) : E[i].wd = w.wd => j < i
        BY <2>1 DEF Agreed, TwinsDoomed
      <3> QED
        BY <1>6, <3>1
    <2>2. ASSUME NEW x \in F, x.fname = d, d \in Open(O), u \notin F
          PROVE  \E j \in 1..Len(E) : Dooms(F2, E, j, d) /\ \A i \in 1..Len(E) : E[i].wd # u.wd
      <3>1. ~ Live(K, x)
        BY <2>2 DEF Live
      <3>2. Doomed(F, E, d)
        BY <2>2, <3>1, LiveOrDoomed
      <3> QED
        BY <1>6, <2>2, <3>2 DEF Doomed
    <2>3. CASE v \notin F
      <3>1. v = u /\ w \in F /\ w.fname = d
        BY <1>0, <2>3
      <3> QED
        BY <2>2, <2>3, <3>1
    <2>4. CASE w \notin F
      <3>1. w = u /\ v \in F /\ v.fname = d
        BY <1>0, <2>4
      <3> QED
        BY <2>2, <2>4, <3>1
    <2> QED
      BY <2>1, <2>3, <2>4
  <1> QED
    BY <1>10, <1>11, <1>12, <1>13, <1>14, <1>15, <1>16, <1>17, <1>18, <1>19, <1>20, <1>21, <1>22,
       <1>23, <1>24 DEF Agreed

(* The listing is done when all that is there is shown.                    *)
LEMMA ListedAgrees ==
  ASSUME NEW V, NEW O, NEW R, NEW C, NEW F, NEW K, NEW E, NEW L, NEW G, NEW n, NEW rdy, NEW lns,
         Agreed(V, O, R, C, F, K, E, L, G, n, rdy, lns),
         \A x \in Paths : parent(x) \in L /\ parent(x) \in Open(O) /\ G[x] # "none" => V[x] # "none"
  PROVE  Agreed(V, O, R, C, F, K, E, {}, G, n, rdy, lns)
  <1>1. Forgotten(R, F, C, {}) /\ AddedLast(O, F, C, {}) /\ ListedBefore(O, F, C, {})
        /\ CreatedBefore(O, F, E, {}, n, rdy, lns)
    BY DEF Agreed, Forgotten, AddedLast, ListedBefore, CreatedBefore
  <1>2. ThereShown(V, O, F, C, E, {}, G)
    BY DEF Agreed, ThereShown
  <1> QED
    BY <1>1, <1>2 DEF Agreed

(* select() and readline(): the commands wait until the events are handled. *)
LEMMA ReadAgrees ==
  ASSUME NEW V, NEW O, NEW R, NEW C, NEW F, NEW K, NEW E, NEW L, NEW G, NEW n \in Nat, NEW rdy, NEW lns,
         Len(E) \in Nat,
         Agreed(V, O, R, C, F, K, E, L, G, n, rdy, lns)
  PROVE  /\ \A ready2 : lns = <<>> => Agreed(V, O, R, C, F, K, E, L, G, Len(E), ready2, <<>>)
         /\ \A lines2 : n = 0 /\ rdy => Agreed(V, O, R, C, F, K, E, L, G, n, FALSE, lines2)
  <1>1. ASSUME NEW ready2, lns = <<>> PROVE CreatedBefore(O, F, E, L, Len(E), ready2, <<>>)
    BY <1>1 DEF Agreed, CreatedBefore
  <1>2. ASSUME NEW lines2, n = 0, rdy PROVE CreatedBefore(O, F, E, L, n, FALSE, lines2)
    <2> SUFFICES ASSUME NEW g \in O, NEW i \in 1..Len(E), Tells(F, E, i, Came, g)
                 PROVE  \E j \in 1..Len(E) : j < i /\ Dooms(F, E, j, g)
      BY DEF CreatedBefore
    <2>1. i > n
      BY <1>2
    <2> QED
      BY <1>2, <2>1 DEF Agreed, CreatedBefore
  <1> QED
    BY <1>1, <1>2 DEF Agreed

-----------------------------------------------------------------------------
(* The files change *)

(* Of the events after the first a, one tells who watches that x changed.  *)
Told(K, E, a, x, M) ==
  \A k \in K : k.at = parent(x) =>
    \E i \in 1..Len(E) : i > a /\ E[i].mask \in M /\ E[i].wd = k.wd /\ E[i].name = <<x[Len(x)]>>

(* The files change from G to G2: P went, with all below them, and Q came, *)
(* where nothing was; the modes of T changed.  The kernel had told E and   *)
(* now D, and the directories it watches are those of K2, not of K.        *)
Changes(K, E, G, P, Q, T, K2, D, G2) ==
  /\ P \subseteq Paths /\ Q \subseteq Paths /\ T \subseteq Paths
  /\ Len(E) \in Nat /\ Len(D) \in Nat /\ Len(E) <= Len(D)
  /\ \A i \in 1..Len(E) : D[i] = E[i]
  /\ \A i \in 1..Len(E) : E[i].mask \in Gone \union Came => E[i].name \in Names /\ Len(E[i].name) = 1
  /\ \A k \in K : k.at \in Names
  /\ \A k, x \in K : k.wd = x.wd => k = x
  /\ \A p \in P : Told(K, D, Len(E), p, Gone)
  /\ \A q \in Q : G[q] = "none" /\ Told(K, D, Len(E), q, Came)
  /\ \A t \in T : Told(K, D, Len(E), t, {"ATTRIB"})
  /\ \A x \in Paths : \/ G2[x] = G[x]
                      \/ G2[x] = "none" /\ \E p \in P : IsPrefix(p, x)
                      \/ \E q \in Q : IsPrefix(q, x)
                      \/ x \in T /\ G[x] \in Plain /\ G2[x] \in Plain
  /\ \A i \in 1..Len(D) : i > Len(E) /\ D[i].mask \in Came =>
       /\ \E k \in K : k.wd = D[i].wd /\ At(k, D[i]) \in Paths /\ G[At(k, D[i])] = "none"
       /\ \A j \in 1..Len(D) : j > Len(E) /\ D[j].mask \in Came => i = j
  /\ \A i \in 1..Len(D) : i > Len(E) /\ D[i].mask \in Left =>
       \E k \in K : k.wd = D[i].wd /\ (k.at \in Paths => G2[k.at] = "none")
  /\ \A i \in 1..Len(D) : i > Len(E) => \A v \in K2 : v.wd = D[i].wd =>
       /\ D[i].mask \in Gone => ~ There(G2, At(v, D[i]))
       /\ D[i].mask \in Came => There(G2, At(v, D[i]))
  /\ \A k \in K : \/ k \in K2
                  \/ \E p \in P : /\ IsPrefix(p, k.at)
                                  /\ k.at = p => \E i \in 1..Len(D) : D[i].wd = k.wd /\ D[i].mask \in Left
  /\ \A v \in K2 : \E k \in K : k.wd = v.wd /\ \A i \in 1..Len(E) : E[i].mask \in Gone \union Came =>
       \/ There(G2, At(v, E[i])) <=> There(G, At(k, E[i]))
       \/ At(k, E[i]) \in P /\ ~ There(G2, At(v, E[i]))
       \/ At(k, E[i]) \in Q /\ There(G2, At(v, E[i]))

(* What is told of an open folder reaches the pane, unless the folder will *)
(* be removed.                                                             *)
LEMMA ToldIsHeard ==
  ASSUME NEW V, NEW O, NEW R, NEW C, NEW F, NEW K, NEW E, NEW L, NEW G, NEW n, NEW rdy, NEW lns,
         Shapes(C, F, E, L), Agreed(V, O, R, C, F, K, E, L, G, n, rdy, lns),
         NEW x \in Paths, parent(x) \in Open(O), Watched(F, parent(x)),
         NEW D, NEW a, NEW M, Told(K, D, a, x, M)
  PROVE  Doomed(F, E, parent(x)) \/ \E i \in 1..Len(D) : i > a /\ Tells(F, D, i, M, x)
  <1>1. PICK w \in F : w.fname = parent(x)
    BY DEF Watched
  <1>2. CASE Live(K, w)
    <2>1. PICK k \in K : k.wd = w.wd /\ k.at = parent(x)
      BY <1>1, <1>2 DEF Live
    <2>2. PICK i \in 1..Len(D) : i > a /\ D[i].mask \in M /\ D[i].wd = w.wd /\ D[i].name = <<x[Len(x)]>>
      BY <2>1 DEF Told
    <2>3. PathOf(w, D[i]) = x
      BY <1>1, <2>2, LastName DEF PathOf
    <2> QED
      BY <2>2, <2>3 DEF Tells
  <1>3. CASE Doomed(F, E, w.fname)
    BY <1>1, <1>3
  <1> QED
    BY <1>1, <1>2, <1>3, LiveOrDoomed

(* A change of the files with the events that tell it keeps the agreement. *)
LEMMA ChangeAgrees ==
  ASSUME NEW V, NEW O, NEW R, NEW C, NEW F, NEW K, NEW E, NEW L, NEW G, NEW n, NEW rdy, NEW lns,
         Shapes(C, F, E, L), Agreed(V, O, R, C, F, K, E, L, G, n, rdy, lns),
         NEW P, NEW Q, NEW T, NEW K2, NEW D, NEW G2,
         Shapes(C, F, D, L), Changes(K, E, G, P, Q, T, K2, D, G2)
  PROVE  Agreed(V, O, R, C, F, K2, D, L, G2, n, rdy, lns)
  <1> USE DEF Changes
  <1>0. /\ Len(E) \in Nat /\ Len(D) \in Nat /\ \A w \in F : w.fname \in Names
        /\ \A i \in 1..Len(E) : i \in 1..Len(D) /\ D[i] = E[i]
        /\ \A i \in 1..Len(D) : i \in 1..Len(E) \/ i > Len(E)
    BY DEF Shapes
  <1>1. TreeKept(V, O, R) /\ O \subseteq Paths
    BY DEF Agreed, TreeKept
  <1>2. \A i \in 1..Len(E) : /\ \A p : Dooms(F, D, i, p) <=> Dooms(F, E, i, p)
                             /\ \A M, p : Tells(F, D, i, M, p) <=> Tells(F, E, i, M, p)
    BY <1>0 DEF Dooms, Tells, PathOf
  <1>3. \A p : Doomed(F, E, p) => Doomed(F, D, p)
    BY <1>0, <1>2 DEF Doomed
  <1>4. \A p \in Paths : p \in Names /\ p # Root /\ parent(p) \in Names /\ IsPrefix(parent(p), p)
    BY PathsAbove, AboveIs
  <1>5. ASSUME NEW g \in O, NEW p \in Paths, IsPrefix(p, g)
        PROVE  p \in O /\ parent(p) \in Open(O) /\ V[p] = "dir" /\ Watched(F, parent(p))
    <2>1. p \in O /\ V[p] = "dir"
      BY <1>1, <1>5 DEF TreeKept
    <2>2. parent(p) \in Open(O)
      BY <1>1, <1>4, <2>1, PathsAbove DEF TreeKept, Open
    <2>3. Watched(F, parent(p))
      BY <2>1, <2>2 DEF Agreed, ItemsWatched
    <2> QED
      BY <2>1, <2>2, <2>3
  <1>6. ASSUME NEW p \in Paths, Doomed(F, D, p), NEW x \in Names, IsPrefix(p, x) PROVE Doomed(F, D, x)
    BY <1>4, <1>6, DoomedBelow
  (* A folder of an open one that goes will be removed.                     *)
  <1>7. ASSUME NEW p \in P, parent(p) \in Open(O), Watched(F, parent(p)) PROVE Doomed(F, D, p)
    <2>0. p \in Paths
      OBVIOUS
    <2>1. \/ Doomed(F, E, parent(p))
          \/ \E i \in 1..Len(D) : i > Len(E) /\ Tells(F, D, i, Gone, p)
      BY <1>7, <2>0, ToldIsHeard
    <2>2. CASE Doomed(F, E, parent(p))
      BY <1>3, <1>4, <2>0, <2>2, DoomedBelow
    <2>3. ASSUME NEW i \in 1..Len(D), Tells(F, D, i, Gone, p) PROVE Doomed(F, D, p)
      <3>1. IsPrefix(p, p)
        BY <1>4, <2>0, PathOrder
      <3> QED
        BY <2>3, <3>1 DEF Tells, Doomed, Dooms
    <2> QED
      BY <2>1, <2>2, <2>3
  <1>8. ASSUME NEW p \in P, NEW g \in Open(O), g \in Names, IsPrefix(p, g) PROVE Doomed(F, D, g)
    <2>1. g \in O
      BY <1>4, <1>8, PathOrder DEF Open
    <2>2. Doomed(F, D, p)
      BY <1>5, <1>7, <1>8, <2>1
    <2> QED
      BY <1>6, <1>8, <2>2
  (* An open folder below what came was removed before.                     *)
  <1>9. ASSUME NEW q \in Q, NEW g \in Open(O), IsPrefix(q, g) PROVE Doomed(F, E, g)
    <2>1. g \in O
      BY <1>4, <1>9, PathOrder DEF Open
    <2>2. G[q] # "dir" /\ q \in Paths
      OBVIOUS
    <2> QED
      BY <1>9, <2>1, <2>2, OpenDoomed
  <1>10. ASSUME NEW x \in Paths, NEW q \in Names, IsPrefix(q, x), q # x PROVE IsPrefix(q, parent(x))
    BY <1>4, <1>10, AboveIs
  <1>11. \A g \in Open(O) : g \in Names
    BY <1>1, PathsAbove, PathOrder DEF Open
  <1>12. CreatedBefore(O, F, D, L, n, rdy, lns)
    <2> SUFFICES ASSUME NEW g \in O, NEW i \in 1..Len(D), Tells(F, D, i, Came, g)
                 PROVE  \/ \E j \in 1..Len(D) : j < i /\ Dooms(F, D, j, g)
                        \/ /\ ~ Watched(F, g) /\ g \notin L
                           /\ \A j \in 1..Len(lns) : ~ Adds(lns, j, g)
                           /\ i > n => ~ rdy
      BY DEF CreatedBefore
    <2>1. CASE i \in 1..Len(E)
      <3>1. \/ \E j \in 1..Len(E) : j < i /\ Dooms(F, E, j, g)
            \/ /\ ~ Watched(F, g) /\ g \notin L
               /\ \A j \in 1..Len(lns) : ~ Adds(lns, j, g)
               /\ i > n => ~ rdy
        BY <1>2, <2>1 DEF Agreed, CreatedBefore
      <3> QED
        BY <1>0, <1>2, <3>1
    <2>2. CASE i > Len(E)
      <3>1. D[i].mask \in Came /\ D[i].mask \notin Left
        BY DEF Tells, Came, Left
      <3>2. PICK w \in F : w.wd = D[i].wd /\ g = PathOf(w, D[i])
        BY DEF Tells
      <3>3. PICK k \in K : k.wd = D[i].wd /\ At(k, D[i]) \in Paths /\ G[At(k, D[i])] = "none"
        BY <2>2, <3>1
      <3>4. parent(g) = w.fname /\ g \in Paths
        BY <1>1, <3>1, <3>2, EntryOf
      <3>5. g \in Names /\ IsPrefix(g, g) /\ w.fname \in Open(O)
        BY <1>4, <1>5, <3>4, PathOrder
      <3>6. Doomed(F, E, g)
        <4>1. CASE Live(K, w)
          <5>1. k.at = w.fname
            BY <3>2, <3>3, <4>1 DEF Live
          <5>2. At(k, D[i]) = g
            BY <3>2, <5>1 DEF At, PathOf
          <5> QED
            BY <3>3, <3>4, <3>5, <5>2, OpenDoomed
        <4>2. CASE Doomed(F, E, w.fname)
          BY <1>4, <3>4, <4>2, DoomedBelow
        <4> QED
          BY <3>5, <4>1, <4>2, LiveOrDoomed
      <3>7. PICK j \in 1..Len(E) : Dooms(F, E, j, g)
        BY <3>6 DEF Doomed
      <3>8. j < i
        BY <1>0, <2>2, <3>7
      <3> QED
        BY <1>0, <1>2, <3>7, <3>8
    <2> QED
      BY <1>0, <2>1, <2>2
  <1>13. WatchedOpen(O, F, C, D) /\ AddedOpen(O, F, C, D) /\ OpenWatched(O, F, C, D)
    BY <1>3 DEF Agreed, WatchedOpen, AddedOpen, OpenWatched
  <1>14. ASSUME NEW w \in F, ~ Live(K2, w), NEW k \in K, k.wd = w.wd, k.at = w.fname
         PROVE  \E p \in P : /\ IsPrefix(p, w.fname)
                             /\ w.fname = p => \E i \in 1..Len(D) : D[i].wd = w.wd /\ D[i].mask \in Left
    BY <1>14 DEF Live
  <1>15. StaleDoomed(F, K2, C, D)
    <2> SUFFICES ASSUME NEW w \in F, ~ Live(K2, w)
                 PROVE  Removing(C, 0, w.fname) \/ Doomed(F, D, w.fname)
      BY DEF StaleDoomed
    <2>1. CASE Live(K, w)
      <3>1. PICK p \in P : IsPrefix(p, w.fname)
        BY <1>14, <2>1 DEF Live
      <3>2. w.fname \in Open(O) => Doomed(F, D, w.fname)
        BY <1>0, <1>8, <3>1
      <3> QED
        BY <1>3, <3>2 DEF Agreed, WatchedOpen
    <2>2. CASE ~ Live(K, w)
      BY <1>3, <2>2 DEF Agreed, StaleDoomed
    <2> QED
      BY <2>1, <2>2
  <1>16. StaleLeft(O, F, K2, D)
    <2> SUFFICES ASSUME NEW w \in F, w.fname # Root, parent(w.fname) \in Open(O), ~ Live(K2, w)
                 PROVE  \/ \E i \in 1..Len(D) : D[i].wd = w.wd /\ D[i].mask \in Left
                        \/ Doomed(F, D, parent(w.fname))
      BY DEF StaleLeft
    <2>1. CASE Live(K, w)
      <3>1. PICK p \in P : /\ IsPrefix(p, w.fname)
                           /\ w.fname = p => \E i \in 1..Len(D) : D[i].wd = w.wd /\ D[i].mask \in Left
        BY <1>14, <2>1 DEF Live
      <3>2. CASE w.fname # p
        <4>1. IsPrefix(p, parent(w.fname))
          BY <1>0, <1>4, <3>1, <3>2, AboveIs
        <4> QED
          BY <1>8, <1>11, <4>1
      <3> QED
        BY <3>1, <3>2
    <2>2. CASE ~ Live(K, w)
      <3>1. \/ \E i \in 1..Len(E) : E[i].wd = w.wd /\ E[i].mask \in Left
            \/ Doomed(F, E, parent(w.fname))
        BY <2>2 DEF Agreed, StaleLeft
      <3> QED
        BY <1>0, <1>3, <3>1
    <2> QED
      BY <2>1, <2>2
  <1>17. LeftCreated(O, F, D, G2)
    <2> SUFFICES ASSUME NEW w \in F, w.fname \in Paths, parent(w.fname) \in Open(O), G2[w.fname] # "none",
                        NEW i \in 1..Len(D), D[i].wd = w.wd, D[i].mask \in Left,
                        \A j \in 1..Len(D) : j < i => ~ (D[j].wd = w.wd /\ D[j].mask \in Left)
                 PROVE  \/ Doomed(F, D, parent(w.fname))
                        \/ \E j \in 1..Len(D) : j > i /\ Tells(F, D, j, Came, w.fname)
      BY DEF LeftCreated
    <2>1. CASE i > Len(E)
      <3>1. \A j \in 1..Len(E) : ~ (E[j].wd = w.wd /\ E[j].mask \in Left)
        BY <1>0, <2>1
      <3>2. PICK k \in K : k.wd = D[i].wd /\ (k.at \in Paths => G2[k.at] = "none")
        BY <2>1
      <3>3. ~ Live(K, w)
        BY <3>2 DEF Live
      <3>4. Doomed(F, E, parent(w.fname))
        BY <1>4, <3>1, <3>3 DEF Agreed, StaleLeft
      <3> QED
        BY <1>3, <3>4
    <2>2. CASE i \in 1..Len(E) /\ G[w.fname] # "none"
      <3>1. /\ E[i].wd = w.wd /\ E[i].mask \in Left
            /\ \A j \in 1..Len(E) : j < i => ~ (E[j].wd = w.wd /\ E[j].mask \in Left)
        BY <1>0, <2>2
      <3>2. \/ Doomed(F, E, parent(w.fname))
            \/ \E j \in 1..Len(E) : j > i /\ Tells(F, E, j, Came, w.fname)
        BY <2>2, <3>1 DEF Agreed, LeftCreated
      <3> QED
        BY <1>0, <1>2, <1>3, <3>2
    <2>3. CASE i \in 1..Len(E) /\ G[w.fname] = "none"
      <3>1. PICK q \in Q : IsPrefix(q, w.fname)
        BY <2>3 DEF Plain
      <3>2. CASE q = w.fname
        <4>1. Watched(F, parent(w.fname))
          BY <1>4 DEF Agreed, WatchedAbove
        <4>2. \/ Doomed(F, E, parent(w.fname))
              \/ \E j \in 1..Len(D) : j > Len(E) /\ Tells(F, D, j, Came, w.fname)
          BY <3>2, <4>1, ToldIsHeard
        <4>3. \A j \in 1..Len(D) : j > Len(E) => j > i
          BY <1>0, <2>3
        <4> QED
          BY <1>3, <4>2, <4>3
      <3>3. CASE q # w.fname
        BY <1>3, <1>4, <1>9, <1>10, <3>1, <3>3
      <3> QED
        BY <3>2, <3>3
    <2> QED
      BY <1>0, <2>1, <2>2, <2>3
  <1>18. ShownThere(V, O, F, D, G2)
    <2> SUFFICES ASSUME NEW x \in Paths, parent(x) \in Open(O), V[x] # "none"
                 PROVE  \/ V[x] = G2[x]
                        \/ Doomed(F, D, x)
                        \/ /\ V[x] \in Plain /\ G2[x] \in Plain
                           /\ \E i \in 1..Len(D) : Tells(F, D, i, Came \union {"ATTRIB"}, x)
      BY DEF ShownThere
    <2>1. \/ V[x] = G[x]
          \/ Doomed(F, D, x)
          \/ /\ V[x] \in Plain /\ G[x] \in Plain
             /\ \E i \in 1..Len(D) : Tells(F, D, i, Came \union {"ATTRIB"}, x)
      <3>1. \/ V[x] = G[x]
            \/ Doomed(F, E, x)
            \/ /\ V[x] \in Plain /\ G[x] \in Plain
               /\ \E i \in 1..Len(E) : Tells(F, E, i, Came \union {"ATTRIB"}, x)
        BY DEF Agreed, ShownThere
      <3> QED
        BY <1>0, <1>2, <1>3, <3>1
    <2>2. Watched(F, parent(x)) /\ x \in Names /\ IsPrefix(parent(x), x)
      BY <1>4 DEF Agreed, ItemsWatched
    <2>3. Doomed(F, E, parent(x)) => Doomed(F, D, x)
      BY <1>3, <1>11, <2>2, DoomedBelow
    <2>4. ASSUME NEW p \in P, IsPrefix(p, x) PROVE Doomed(F, D, x)
      <3>1. CASE p = x
        BY <1>7, <2>2, <3>1
      <3>2. CASE p # x
        <4>1. Doomed(F, D, parent(x))
          BY <1>4, <1>8, <1>10, <1>11, <2>4, <3>2
        <4>2. Shapes(C, F, D, L) /\ parent(x) \in Names
          BY <1>4
        <4> QED
          BY <2>2, <4>1, <4>2, DoomedBelow
      <3> QED
        BY <3>1, <3>2
    <2>5. ASSUME NEW q \in Q, IsPrefix(q, x) PROVE Doomed(F, D, x)
      <3>1. CASE q = x
        <4>1. Doomed(F, E, x)
          BY <3>1 DEF Agreed, ShownThere, Plain
        <4> QED
          BY <1>3, <4>1
      <3>2. CASE q # x
        BY <1>4, <1>9, <1>10, <2>3, <2>5, <3>2
      <3> QED
        BY <3>1, <3>2
    <2>6. CASE x \in T /\ G[x] \in Plain /\ G2[x] \in Plain
      <3>1. \/ Doomed(F, E, parent(x))
            \/ \E i \in 1..Len(D) : i > Len(E) /\ Tells(F, D, i, {"ATTRIB"}, x)
        BY <2>2, <2>6, ToldIsHeard
      <3>2. \A i : Tells(F, D, i, {"ATTRIB"}, x) => Tells(F, D, i, Came \union {"ATTRIB"}, x)
        BY DEF Tells
      <3> QED
        BY <2>1, <2>3, <2>6, <3>1, <3>2
    <2> QED
      BY <2>1, <2>4, <2>5, <2>6
  <1>19. ThereShown(V, O, F, C, D, L, G2)
    <2> SUFFICES ASSUME NEW x \in Paths, parent(x) \in Open(O), G2[x] # "none", V[x] = "none"
                 PROVE  \/ \E i \in 1..Len(D) : Tells(F, D, i, Came, x)
                        \/ Adding(C, parent(x)) \/ parent(x) \in L \/ Doomed(F, D, x)
      BY DEF ThereShown
    <2>1. CASE G[x] # "none"
      <3>1. \/ \E i \in 1..Len(E) : Tells(F, E, i, Came, x)
            \/ Adding(C, parent(x)) \/ parent(x) \in L \/ Doomed(F, E, x)
        BY <2>1 DEF Agreed, ThereShown
      <3> QED
        BY <1>0, <1>2, <1>3, <3>1
    <2>2. ASSUME NEW q \in Q, IsPrefix(q, x), G[x] = "none"
          PROVE  \/ \E i \in 1..Len(D) : Tells(F, D, i, Came, x)
                 \/ Adding(C, parent(x)) \/ Doomed(F, D, x)
      <3>1. x \in Names /\ parent(x) \in Names /\ IsPrefix(parent(x), x)
        BY <1>4
      <3>2. Doomed(F, E, parent(x)) => Doomed(F, D, x)
        BY <1>3, <3>1, DoomedBelow
      <3>3. CASE q = x
        <4>1. Watched(F, parent(x)) \/ Adding(C, parent(x)) \/ Doomed(F, E, parent(x))
          BY DEF Agreed, OpenWatched
        <4>2. CASE Watched(F, parent(x))
          <5>1. \/ Doomed(F, E, parent(x))
                \/ \E i \in 1..Len(D) : i > Len(E) /\ Tells(F, D, i, Came, x)
            BY <3>3, <4>2, ToldIsHeard
          <5> QED
            BY <3>2, <5>1
        <4> QED
          BY <3>2, <4>1, <4>2
      <3>4. CASE q # x
        BY <1>4, <1>9, <1>10, <2>2, <3>2, <3>4
      <3> QED
        BY <3>3, <3>4
    <2>3. G[x] = "none" => \E q \in Q : IsPrefix(q, x)
      BY DEF Plain
    <2> QED
      BY <2>1, <2>2, <2>3
  <1>20. TwinsDoomed(O, F, D)
    <2> SUFFICES ASSUME NEW v \in F, NEW w \in F, v # w, v.fname = w.fname, v.fname \in Open(O)
                 PROVE  \E j \in 1..Len(D) :
                          /\ Dooms(F, D, j, v.fname)
                          /\ \/ \A i \in 1..Len(D) : D[i].wd = v.wd => j < i
                             \/ \A i \in 1..Len(D) : D[i].wd = w.wd => j < i
      BY DEF TwinsDoomed
    <2>1. PICK j \in 1..Len(E) :
            /\ Dooms(F, E, j, v.fname)
            /\ \/ \A i \in 1..Len(E) : E[i].wd = v.wd => j < i
               \/ \A i \in 1..Len(E) : E[i].wd = w.wd => j < i
      BY DEF Agreed, TwinsDoomed
    <2>2. \A i \in 1..Len(D) : i > Len(E) => j < i
      BY <1>0
    <2>3. ASSUME NEW u, \A i \in 1..Len(E) : E[i].wd = u => j < i
          PROVE  \A i \in 1..Len(D) : D[i].wd = u => j < i
      BY <1>0, <2>2, <2>3
    <2>4. j \in 1..Len(D) /\ Dooms(F, D, j, v.fname)
      BY <1>0, <1>2, <2>1
    <2> QED
      BY <2>1, <2>3, <2>4
  <1> QED
    BY <1>12, <1>13, <1>15, <1>16, <1>17, <1>18, <1>19, <1>20 DEF Agreed

-----------------------------------------------------------------------------
(* All is quiet *)

(* Nothing is on its way: the pane, the helper and the files agree.        *)
LEMMA QuietAgrees ==
  ASSUME NEW V, NEW O, NEW R, NEW C, NEW F, NEW K, NEW E, NEW G, NEW n, NEW rdy, NEW lns,
         Agreed(V, O, R, C, F, K, E, {}, G, n, rdy, lns), Len(C) = 0, Len(E) = 0
  PROVE  /\ \A w \in F : w.fname \in Open(O) /\ Live(K, w)
         /\ \A h \in Open(O) : Watched(F, h)
         /\ \A x \in Paths : parent(x) \in Open(O) =>
              /\ V[x] # "none" => V[x] = G[x]
              /\ G[x] # "none" => V[x] # "none"
         /\ \A v, w \in F : v.fname = w.fname => v = w
  <1>1. \A p : ~ Doomed(F, E, p) /\ ~ Adding(C, p) /\ ~ Removing(C, 0, p)
    BY DEF Doomed, Adding, Removing
  <1>2. \A x, M : ~ \E i \in 1..Len(E) : Tells(F, E, i, M, x)
    OBVIOUS
  <1>3. \A w \in F : w.fname \in Open(O) /\ Live(K, w)
    BY <1>1 DEF Agreed, WatchedOpen, StaleDoomed
  <1>4. \A h \in Open(O) : Watched(F, h)
    BY <1>1 DEF Agreed, OpenWatched
  <1>5. \A x \in Paths : parent(x) \in Open(O) /\ V[x] # "none" => V[x] = G[x]
    BY <1>1, <1>2 DEF Agreed, ShownThere
  <1>6. \A x \in Paths : parent(x) \in Open(O) /\ G[x] # "none" => V[x] # "none"
    BY <1>1, <1>2 DEF Agreed, ThereShown
  <1>7. \A v, w \in F : v.fname = w.fname => v = w
    BY <1>3 DEF Agreed, TwinsDoomed
  <1> QED
    BY <1>3, <1>4, <1>5, <1>6, <1>7

(* A folder is closed when nothing is on its way.                          *)
LEMMA ToggledShut ==
  ASSUME NEW V, NEW O, NEW R, NEW F, NEW K, NEW E, NEW G, NEW n, NEW rdy, NEW lns, NEW C,
         Agreed(V, O, R, C, F, K, E, {}, G, n, rdy, lns), Len(C) = 0, Len(E) = 0,
         \A w \in F : w.fname \in Names,
         NEW p \in Paths, p \in O,
         NEW V2, V2 = [x \in Paths |-> IF IsPrefix(p, x) /\ x # p THEN "none" ELSE V[x]],
         NEW O2, O2 = {g \in O : ~ IsPrefix(p, g)},
         NEW D, Len(D) = 1, D[1] = remove(p), NEW ls, Len(ls) = 0
  PROVE  Agreed(V2, O2, R, D, F, K, E, {}, G, n, rdy, ls)
  <1>1. /\ \A w \in F : w.fname \in Open(O) /\ Live(K, w)
        /\ \A h \in Open(O) : Watched(F, h)
        /\ \A x \in Paths : parent(x) \in Open(O) =>
              /\ V[x] # "none" => V[x] = G[x]
              /\ G[x] # "none" => V[x] # "none"
        /\ \A v, w \in F : v.fname = w.fname => v = w
    BY QuietAgrees
  <1>2. /\ p \in Names /\ p # Root /\ parent(p) \in Names /\ IsPrefix(p, p)
        /\ \A x \in Paths : x \in Names
    BY PathsAbove, PathOrder, AboveIs
  <1>3. /\ \A x \in Paths : V2[x] = IF IsPrefix(p, x) /\ x # p THEN "none" ELSE V[x]
        /\ TreeKept(V, O, R) /\ O2 \subseteq O
    BY DEF Agreed
  <1>4. \A i \in 1..Len(D) : i = 1 /\ D[i].op = "remove" /\ D[i].fname = p
    BY DEF remove
  <1>5. ASSUME NEW x \in Paths, parent(x) \in Open(O2) PROVE V2[x] = V[x] /\ parent(x) \in Open(O)
    <2>1. ~ IsPrefix(p, parent(x))
      BY <1>2, <1>5, PathOrder DEF Open
    <2>2. x # p => ~ IsPrefix(p, x)
      BY <1>2, <2>1, AboveIs, PathsAbove
    <2> QED
      BY <1>3, <1>5, <2>2 DEF Open
  <1>6. TreeKept(V2, O2, R)
    <2>1. V2 \in [Paths -> EntryKinds \union {"unknown"}]
      BY <1>3 DEF TreeKept, EntryKinds
    <2>2. ASSUME NEW x \in Paths, V2[x] # "none" PROVE parent(x) = Root \/ V2[parent(x)] = "dir"
      <3>1. parent(x) = Root \/ V[parent(x)] = "dir"
        BY <1>3, <2>2 DEF TreeKept
      <3>2. ASSUME parent(x) # Root PROVE ~ (IsPrefix(p, parent(x)) /\ parent(x) # p)
        <4>1. ~ (IsPrefix(p, x) /\ x # p)
          BY <1>3, <2>2
        <4> QED
          BY <1>2, <4>1, AboveIs, PathsAbove
      <3>3. parent(x) \in Paths \union {Root}
        BY PathsAbove DEF Open
      <3> QED
        BY <1>3, <3>1, <3>2, <3>3
    <2>3. O2 \subseteq Paths /\ \A g \in O2 : V2[g] = "dir"
      BY <1>3 DEF TreeKept
    <2>4. \A g \in O2 : \A d \in Paths : IsPrefix(d, g) => d \in O2
      <3> SUFFICES ASSUME NEW g \in O2, NEW d \in Paths, IsPrefix(d, g) PROVE d \in O2
        OBVIOUS
      <3>1. d \in O /\ g \in Names /\ d \in Names
        BY <1>2, <1>3, <2>3 DEF TreeKept
      <3>2. ~ IsPrefix(p, d)
        BY <1>2, <3>1, PathOrder
      <3> QED
        BY <3>1, <3>2
    <2>5. R \subseteq Paths /\ \A x \in R : V2[x] = "none"
      BY <1>3 DEF TreeKept
    <2> QED
      BY <2>1, <2>2, <2>3, <2>4, <2>5 DEF TreeKept
  <1>7. Forgotten(R, F, D, {}) /\ AddedAgain(F, D) /\ ListedBefore(O2, F, D, {}) /\ AddedOpen(O2, F, D, E)
    BY <1>4 DEF Agreed, Forgotten, AddedAgain, ListedBefore, AddedOpen, Adds
  <1>8. AddedLast(O2, F, D, {})
    BY <1>2, <1>4 DEF AddedLast
  <1>9. CreatedBefore(O2, F, E, {}, n, rdy, ls) /\ LeftCreated(O2, F, E, G)
    BY DEF CreatedBefore, LeftCreated
  <1>10. WatchedOpen(O2, F, D, E)
    <2> SUFFICES ASSUME NEW w \in F PROVE w.fname \in Open(O2) \/ Removing(D, 0, w.fname)
      BY DEF WatchedOpen
    <2>1. w.fname \in Open(O)
      BY <1>1
    <2>2. 1 \in 1..Len(D) /\ 1 > 0
      OBVIOUS
    <2>3. IsPrefix(p, w.fname) => Removing(D, 0, w.fname)
      BY <1>4, <2>2 DEF Removing, Removes
    <2> QED
      BY <2>1, <2>3 DEF Open
  <1>11. OpenWatched(O2, F, D, E) /\ WatchedAbove(O2, F, D)
    BY <1>1 DEF OpenWatched, WatchedAbove, Open
  <1>12. StaleDoomed(F, K, D, E) /\ StaleLeft(O2, F, K, E)
    BY <1>1 DEF StaleDoomed, StaleLeft
  <1>13. ShownThere(V2, O2, F, E, G) /\ ThereShown(V2, O2, F, D, E, {}, G)
    BY <1>1, <1>5 DEF ShownThere, ThereShown
  <1>14. ItemsWatched(V2, O2, F) /\ TwinsDoomed(O2, F, E)
    BY <1>1, <1>5 DEF ItemsWatched, TwinsDoomed
  <1> QED
    BY <1>6, <1>7, <1>8, <1>9, <1>10, <1>11, <1>12, <1>13, <1>14 DEF Agreed

(* A folder is opened when nothing is on its way.                          *)
LEMMA ToggledOpen ==
  ASSUME NEW V, NEW O, NEW R, NEW F, NEW K, NEW E, NEW G, NEW n, NEW rdy, NEW lns, NEW C,
         Agreed(V, O, R, C, F, K, E, {}, G, n, rdy, lns), Len(C) = 0, Len(E) = 0,
         \A w \in F : w.fname \in Names,
         NEW p \in Paths, p \notin O, V[p] = "dir", parent(p) \in Open(O),
         NEW V2, V2 = [x \in Paths |-> IF IsPrefix(p, x) /\ x # p THEN "none" ELSE V[x]],
         NEW O2, O2 = {g \in O : ~ (IsPrefix(p, g) /\ g # p)} \union {p},
         NEW D, Len(D) = 1, D[1] = add(p), NEW ls, Len(ls) = 0
  PROVE  Agreed(V2, O2, R, D, F, K, E, {}, G, n, rdy, ls)
  <1>1. /\ \A w \in F : w.fname \in Open(O) /\ Live(K, w)
        /\ \A h \in Open(O) : Watched(F, h)
        /\ \A x \in Paths : parent(x) \in Open(O) =>
              /\ V[x] # "none" => V[x] = G[x]
              /\ G[x] # "none" => V[x] # "none"
        /\ \A v, w \in F : v.fname = w.fname => v = w
    BY QuietAgrees
  <1>2. /\ p \in Names /\ p # Root /\ parent(p) \in Names /\ IsPrefix(p, p) /\ parent(p) # p
        /\ \A x \in Paths : x \in Names
    BY PathsAbove, PathOrder, AboveIs
  <1>3. /\ \A x \in Paths : V2[x] = IF IsPrefix(p, x) /\ x # p THEN "none" ELSE V[x]
        /\ TreeKept(V, O, R)
    BY DEF Agreed
  <1>4. \A i \in 1..Len(D) : i = 1 /\ D[i].op = "add" /\ D[i].fname = p
    BY DEF add
  <1>5. \A g \in Open(O) : ~ IsPrefix(p, g)
    BY <1>2, <1>3, PathOrder DEF TreeKept, Open
  <1>6. O2 = O \union {p} /\ \A x : x \in Open(O2) => x \in Open(O) \/ x = p
    BY <1>5 DEF Open
  <1>7. ASSUME NEW x \in Paths, parent(x) \in Open(O2)
        PROVE  IF parent(x) = p THEN V2[x] = "none" ELSE V2[x] = V[x] /\ parent(x) \in Open(O)
    <2>1. CASE parent(x) = p
      BY <1>2, <1>3, <2>1, AboveIs, PathsAbove
    <2>2. CASE parent(x) # p
      <3>1. parent(x) \in Open(O) /\ ~ IsPrefix(p, parent(x))
        BY <1>5, <1>6, <1>7, <2>2
      <3>2. x # p => ~ IsPrefix(p, x)
        BY <1>2, <3>1, AboveIs, PathsAbove
      <3> QED
        BY <1>3, <2>2, <3>1, <3>2
    <2> QED
      BY <2>1, <2>2
  <1>8. TreeKept(V2, O2, R)
    <2>1. V2 \in [Paths -> EntryKinds \union {"unknown"}]
      BY <1>3 DEF TreeKept, EntryKinds
    <2>2. ASSUME NEW x \in Paths, V2[x] # "none" PROVE parent(x) = Root \/ V2[parent(x)] = "dir"
      <3>1. parent(x) = Root \/ V[parent(x)] = "dir"
        BY <1>3, <2>2 DEF TreeKept
      <3>2. ASSUME parent(x) # Root PROVE ~ (IsPrefix(p, parent(x)) /\ parent(x) # p)
        <4>1. ~ (IsPrefix(p, x) /\ x # p)
          BY <1>3, <2>2
        <4> QED
          BY <1>2, <4>1, AboveIs, PathsAbove
      <3>3. parent(x) \in Paths \union {Root}
        BY PathsAbove DEF Open
      <3> QED
        BY <1>3, <3>1, <3>2, <3>3
    <2>3. O2 \subseteq Paths /\ \A g \in O2 : V2[g] = "dir"
      BY <1>3, <1>5, <1>6 DEF TreeKept, Open
    <2>4. \A g \in O2 : \A d \in Paths : IsPrefix(d, g) => d \in O2
      <3> SUFFICES ASSUME NEW g \in O2, NEW d \in Paths, IsPrefix(d, g) PROVE d \in O2
        OBVIOUS
      <3>1. CASE g \in O
        BY <1>3, <1>6, <3>1 DEF TreeKept
      <3>2. CASE g = p /\ d # p
        <4>1. IsPrefix(d, parent(p)) /\ d \in Names /\ d # Root
          BY <1>2, <3>2, AboveIs, PathsAbove
        <4>2. parent(p) # Root
          BY <1>2, <4>1, PathOrder
        <4> QED
          BY <1>3, <1>6, <4>1, <4>2 DEF TreeKept, Open
      <3> QED
        BY <1>6, <3>1, <3>2
    <2>5. R \subseteq Paths /\ \A x \in R : V2[x] = "none"
      BY <1>3 DEF TreeKept
    <2> QED
      BY <2>1, <2>2, <2>3, <2>4, <2>5 DEF TreeKept
  <1>9. Forgotten(R, F, D, {})
    <2> SUFFICES ASSUME NEW r \in R PROVE ~ IsPrefix(r, p)
      BY <1>4 DEF Agreed, Forgotten
    <2> SUFFICES ASSUME IsPrefix(r, p) PROVE FALSE
      OBVIOUS
    <2>1. p \in O2 /\ r \in Paths /\ V2[r] = "none"
      BY <1>6, <1>8 DEF TreeKept
    <2>2. r \in O2
      BY <1>8, <2>1 DEF TreeKept
    <2> QED
      BY <1>8, <2>1, <2>2 DEF TreeKept
  <1>10. AddedLast(O2, F, D, {}) /\ AddedAgain(F, D) /\ AddedOpen(O2, F, D, E)
    BY <1>4, <1>6 DEF AddedLast, AddedAgain, AddedOpen, Open
  <1>11. ListedBefore(O2, F, D, {})
    <2> SUFFICES ASSUME NEW g \in O2, parent(g) = p PROVE FALSE
      BY <1>4 DEF ListedBefore, Adds
    <2>1. g \in O
      BY <1>2, <1>6
    <2>2. IsPrefix(p, g)
      BY <1>2, <1>3, <2>1, AboveIs, PathsAbove DEF TreeKept
    <2> QED
      BY <1>5, <2>1, <2>2 DEF Open
  <1>12. CreatedBefore(O2, F, E, {}, n, rdy, ls) /\ LeftCreated(O2, F, E, G)
    BY DEF CreatedBefore, LeftCreated
  <1>13. WatchedOpen(O2, F, D, E)
    BY <1>1, <1>6 DEF WatchedOpen, Open
  <1>14. OpenWatched(O2, F, D, E)
    <2>1. 1 \in 1..Len(D)
      OBVIOUS
    <2>2. Adding(D, p)
      BY <1>4, <2>1 DEF Adding, Adds
    <2> QED
      BY <1>1, <1>6, <2>2 DEF OpenWatched
  <1>15. WatchedAbove(O2, F, D)
    BY <1>1, <1>4, <1>5, <1>6 DEF WatchedAbove
  <1>16. StaleDoomed(F, K, D, E) /\ StaleLeft(O2, F, K, E)
    BY <1>1 DEF StaleDoomed, StaleLeft
  <1>17. ShownThere(V2, O2, F, E, G) /\ ItemsWatched(V2, O2, F)
    BY <1>1, <1>7 DEF ShownThere, ItemsWatched
  <1>18. ThereShown(V2, O2, F, D, E, {}, G)
    <2>1. 1 \in 1..Len(D)
      OBVIOUS
    <2>2. Adding(D, p)
      BY <1>4, <2>1 DEF Adding, Adds
    <2> QED
      BY <1>1, <1>7, <2>2 DEF ThereShown
  <1>19. TwinsDoomed(O2, F, E)
    BY <1>1 DEF TwinsDoomed
  <1> QED
    BY <1>8, <1>9, <1>10, <1>11, <1>12, <1>13, <1>14, <1>15, <1>16, <1>17, <1>18, <1>19 DEF Agreed

(* A connection begins.                                                    *)
LEMMA FreshAgrees ==
  ASSUME NEW R, R \subseteq Paths, NEW G, NEW n, NEW rdy, NEW E, Len(E) = 0, NEW ls, Len(ls) = 0
  PROVE  Agreed(Empty, {}, R, wsOpened, {}, {}, E, {}, G, n, rdy, ls)
  <1>1. /\ Len(wsOpened) = 2 /\ wsOpened[1] = add(Root) /\ wsOpened[2] = Heartbeat
        /\ 1 \in 1..Len(wsOpened)
    BY DEF wsOpened
  <1>2. \A i \in 1..Len(wsOpened) : /\ wsOpened[i].op = "add" => wsOpened[i].fname = Root
                                    /\ wsOpened[i].op # "remove"
    BY <1>1 DEF add, Heartbeat
  <1>3. Adding(wsOpened, Root)
    BY <1>1 DEF Adding, Adds, add
  <1>4. \A p \in Paths : Empty[p] = "none" /\ ~ IsPrefix(p, Root)
    BY PathsAbove, PathOrder DEF Empty
  <1>5. TreeKept(Empty, {}, R)
    BY <1>4 DEF TreeKept, Empty, EntryKinds
  <1>6. Forgotten(R, {}, wsOpened, {}) /\ AddedLast({}, {}, wsOpened, {}) /\ AddedAgain({}, wsOpened)
    BY <1>2, <1>4 DEF Forgotten, AddedLast, AddedAgain, Removes
  <1>7. /\ ListedBefore({}, {}, wsOpened, {}) /\ CreatedBefore({}, {}, E, {}, n, rdy, ls)
        /\ WatchedOpen({}, {}, wsOpened, E) /\ AddedOpen({}, {}, wsOpened, E)
        /\ OpenWatched({}, {}, wsOpened, E)
    BY <1>2, <1>3 DEF ListedBefore, CreatedBefore, WatchedOpen, AddedOpen, OpenWatched, Open
  <1>8. /\ StaleDoomed({}, {}, wsOpened, E) /\ StaleLeft({}, {}, {}, E) /\ LeftCreated({}, {}, E, G)
        /\ TwinsDoomed({}, {}, E)
    BY DEF StaleDoomed, StaleLeft, LeftCreated, TwinsDoomed
  <1>9. ShownThere(Empty, {}, {}, E, G) /\ ThereShown(Empty, {}, {}, wsOpened, E, {}, G)
    BY <1>3, <1>4 DEF ShownThere, ThereShown, Open
  <1>10. ItemsWatched(Empty, {}, {}) /\ WatchedAbove({}, {}, wsOpened)
    BY <1>2, <1>4 DEF ItemsWatched, WatchedAbove, Open
  <1> QED
    BY <1>5, <1>6, <1>7, <1>8, <1>9, <1>10 DEF Agreed

-----------------------------------------------------------------------------
(* The messages on their way *)

HelperMessages ==
  [event : {"create", "delete", "update", "error", "heartbeat"}, fname : Seq(STRING),
   kind : EntryKinds \union {"unknown"}]

(* What a pane shows and has open, is to open again, and has sent; and     *)
(* what it will be after a message, as in Message.                         *)
PaneStates ==
  [items : [Paths -> EntryKinds \union {"unknown"}], open : SUBSET Paths, prev : SUBSET Paths,
   sent : Seq(PaneCommands), stray : BOOLEAN]

Cleared(s, ps) == [x \in Paths |-> IF x \in ps THEN "none" ELSE s.items[x]]
ItemOf(s, p) == IF p \in Paths THEN s.items[p] ELSE "none"
WithItem(s, p, k) ==
  LET before == s.prev \union (IF ItemOf(s, p) # "none" THEN s.open \intersect Under(p) ELSE {})
      placed == p \in Paths /\ (parent(p) = Root \/ s.items[parent(p)] = "dir")
      opened == placed /\ p \in before /\ k = "dir"
  IN  [items |-> [Cleared(s, Under(p)) EXCEPT ![p] = IF placed THEN k ELSE "none"],
       open  |-> (s.open \ Under(p)) \union (IF opened THEN {p} ELSE {}),
       prev  |-> IF placed THEN before \ {p} ELSE before,
       sent  |-> IF opened THEN Append(s.sent, add(p)) ELSE s.sent,
       stray |-> s.stray \/ (opened /\ parent(p) \notin s.open \union {Root})]
WithoutItem(s, p) ==
  [items |-> Cleared(s, Under(p)), open |-> s.open \ Under(p), prev |-> s.prev,
   sent |-> Append(s.sent, remove(p)), stray |-> s.stray]
WithMode(s, p, k) ==
  [items |-> IF ItemOf(s, p) \in {"file", "exec"}
             THEN [s.items EXCEPT ![p] = IF k \in {"exec", "dir"} THEN "exec" ELSE "file"]
             ELSE s.items,
   open |-> s.open, prev |-> s.prev, sent |-> s.sent, stray |-> s.stray]
WithError(s, p) ==
  [items |-> IF ItemOf(s, p) = "dir" THEN Cleared(s, Below(p)) ELSE s.items,
   open |-> IF ItemOf(s, p) = "dir" THEN s.open \ Below(p) ELSE s.open,
   prev |-> s.prev, sent |-> s.sent, stray |-> s.stray]
After(s, m) ==
  CASE m.event = "heartbeat" -> s
    [] m.event = "create" -> WithItem(s, m.fname, m.kind)
    [] m.event = "delete" -> WithoutItem(s, m.fname)
    [] m.event = "update" -> WithMode(s, m.fname, m.kind)
    [] m.event = "error"  -> WithError(s, m.fname)

(* From s, the messages T make q of the pane.                              *)
Course(P, s, T) ==
  /\ P \in [0..Len(T) -> PaneStates]
  /\ P[0] = s
  /\ \A i \in 1..Len(T) : P[i] = After(P[i - 1], T[i])
Handles(s, T, q) == \E P : Course(P, s, T) /\ q = P[Len(T)]

Extends(a, b) == Len(a) <= Len(b) /\ \A j \in 1..Len(a) : b[j] = a[j]
Popped(s) ==
  [items |-> s.items, open |-> s.open, prev |-> s.prev, sent |-> Tail(s.sent), stray |-> s.stray]

LEMMA StateParts ==
  ASSUME NEW s \in PaneStates
  PROVE  /\ s.items \in [Paths -> EntryKinds \union {"unknown"}]
         /\ s.open \subseteq Paths /\ s.prev \subseteq Paths
         /\ s.sent \in Seq(PaneCommands) /\ s.stray \in BOOLEAN /\ Len(s.sent) \in Nat
         /\ s = [items |-> s.items, open |-> s.open, prev |-> s.prev, sent |-> s.sent, stray |-> s.stray]
  BY LenProperties DEF PaneStates

(* A command more at the end changes nothing before it.                    *)
LEMMA CommandAdded ==
  ASSUME NEW C \in Seq(PaneCommands), NEW c \in PaneCommands
  PROVE  /\ Append(C, c) \in Seq(PaneCommands) /\ Extends(C, Append(C, c)) /\ Extends(C, C)
         /\ Append(C, c) # <<>>
         /\ C # <<>> => Tail(Append(C, c)) = Append(Tail(C), c)
  <1>1. /\ Append(C, c) \in Seq(PaneCommands) /\ Len(C) \in Nat /\ Len(Append(C, c)) = Len(C) + 1
        /\ \A i \in 1..Len(C) : Append(C, c)[i] = C[i]
        /\ Append(C, c)[Len(C) + 1] = c
    BY AppendProperties, LenProperties
  <1>2. Extends(C, Append(C, c)) /\ Extends(C, C)
    BY <1>1 DEF Extends
  <1>3. Append(C, c) # <<>>
    BY <1>1, EmptySeq
  <1>4. ASSUME C # <<>> PROVE Tail(Append(C, c)) = Append(Tail(C), c)
    <2> DEFINE A == Tail(Append(C, c))  B == Append(Tail(C), c)
    <2>1. /\ Tail(C) \in Seq(PaneCommands) /\ Len(Tail(C)) = Len(C) - 1 /\ Len(C) \in Nat \ {0}
          /\ \A i \in 1..Len(Tail(C)) : Tail(C)[i] = C[i + 1]
      BY <1>4, TailIs
    <2>2. /\ A \in Seq(PaneCommands) /\ Len(A) = Len(C)
          /\ \A i \in 1..Len(A) : A[i] = Append(C, c)[i + 1]
      BY <1>1, <1>3, TailIs
    <2>3. /\ B \in Seq(PaneCommands) /\ Len(B) = Len(C)
          /\ \A i \in 1..Len(Tail(C)) : B[i] = Tail(C)[i]
          /\ B[Len(C)] = c
      BY <2>1, AppendProperties
    <2> HIDE DEF A, B
    <2>4. ASSUME NEW i \in 1..Len(A) PROVE A[i] = B[i]
      <3>1. CASE i = Len(C)
        BY <1>1, <2>2, <2>3, <3>1
      <3>2. CASE i < Len(C)
        BY <1>1, <2>1, <2>2, <2>3, <3>2
      <3> QED
        <4>1. i \in Nat /\ i <= Len(C) /\ Len(C) \in Nat
          BY <2>1, <2>2
        <4> QED
          BY <3>1, <3>2, <4>1
    <2>5. A = B
      BY <2>2, <2>3, <2>4, SeqEqual
    <2> QED
      BY <2>5 DEF A, B
  <1> QED
    BY <1>1, <1>2, <1>3, <1>4

(* The operators keep the types, only add to what is sent, and do not ask  *)
(* what was sent before.                                                   *)
LEMMA AfterTypes ==
  ASSUME NEW s \in PaneStates, NEW m \in HelperMessages
  PROVE  /\ After(s, m) \in PaneStates /\ Extends(s.sent, After(s, m).sent)
         /\ s.stray => After(s, m).stray
         /\ s.sent # <<>> => After(s, m).sent # <<>> /\ After(Popped(s), m) = Popped(After(s, m))
  <1> DEFINE p == m.fname  k == m.kind
  <1>1. p \in Names /\ k \in EntryKinds \union {"unknown"}
    BY DEF HelperMessages, Names
  <1>2. add(p) \in PaneCommands /\ remove(p) \in PaneCommands
    BY <1>1 DEF add, remove, PaneCommands, Names
  <1>3. /\ s.items \in [Paths -> EntryKinds \union {"unknown"}]
        /\ s.open \subseteq Paths /\ s.prev \subseteq Paths
        /\ s.sent \in Seq(PaneCommands) /\ s.stray \in BOOLEAN
        /\ s = [items |-> s.items, open |-> s.open, prev |-> s.prev, sent |-> s.sent, stray |-> s.stray]
    BY StateParts
  <1>4. /\ Extends(s.sent, s.sent)
        /\ \A c \in PaneCommands : /\ Append(s.sent, c) \in Seq(PaneCommands)
                                   /\ Extends(s.sent, Append(s.sent, c)) /\ Append(s.sent, c) # <<>>
                                   /\ s.sent # <<>> => Tail(Append(s.sent, c)) = Append(Tail(s.sent), c)
    BY <1>2, <1>3, CommandAdded
  <1>5. \A ps : Cleared(s, ps) \in [Paths -> EntryKinds \union {"unknown"}]
    BY <1>3 DEF Cleared, EntryKinds
  <1>6. \A ps : Cleared(Popped(s), ps) = Cleared(s, ps)
    BY DEF Cleared, Popped
  <1>7. /\ Popped(s).items = s.items /\ Popped(s).open = s.open /\ Popped(s).prev = s.prev
        /\ Popped(s).sent = Tail(s.sent) /\ Popped(s).stray = s.stray
        /\ ItemOf(Popped(s), p) = ItemOf(s, p)
    BY DEF Popped, ItemOf
  <1> HIDE DEF p, k
  <1>8. CASE m.event = "heartbeat"
    BY <1>4, <1>8 DEF After
  <1>9. CASE m.event = "create"
    <2> DEFINE before == s.prev \union (IF ItemOf(s, p) # "none" THEN s.open \intersect Under(p) ELSE {})
               placed == p \in Paths /\ (parent(p) = Root \/ s.items[parent(p)] = "dir")
               opened == placed /\ p \in before /\ k = "dir"
               shows == [Cleared(s, Under(p)) EXCEPT ![p] = IF placed THEN k ELSE "none"]
               opens == (s.open \ Under(p)) \union (IF opened THEN {p} ELSE {})
               prevs == IF placed THEN before \ {p} ELSE before
               strays == s.stray \/ (opened /\ parent(p) \notin s.open \union {Root})
    <2>1. WithItem(s, p, k) = [items |-> shows, open |-> opens, prev |-> prevs,
                               sent |-> IF opened THEN Append(s.sent, add(p)) ELSE s.sent,
                               stray |-> strays]
      BY DEF WithItem
    <2>2. WithItem(Popped(s), p, k) = [items |-> shows, open |-> opens, prev |-> prevs,
                               sent |-> IF opened THEN Append(Tail(s.sent), add(p)) ELSE Tail(s.sent),
                               stray |-> strays]
      BY <1>6, <1>7 DEF WithItem
    <2>3. before \subseteq Paths
      BY <1>3
    <2>4. shows \in [Paths -> EntryKinds \union {"unknown"}]
      BY <1>1, <1>5 DEF EntryKinds
    <2>5. opened => p \in Paths
      OBVIOUS
    <2> HIDE DEF before, shows, opened, placed
    <2>6. opens \subseteq Paths /\ prevs \subseteq Paths
      BY <1>3, <2>3, <2>5
    <2> DEFINE isOp == opened
    <2>7. strays \in BOOLEAN /\ (s.stray => strays)
      BY <1>3
    <2> HIDE DEF opens, prevs, strays
    <2>8. After(s, m) = WithItem(s, p, k) /\ After(Popped(s), m) = WithItem(Popped(s), p, k)
      BY <1>9 DEF After, p, k
    <2>9. CASE opened
      <3>1. After(s, m) = [items |-> shows, open |-> opens, prev |-> prevs,
                           sent |-> Append(s.sent, add(p)), stray |-> strays]
        BY <2>1, <2>8, <2>9
      <3>2. After(Popped(s), m) = [items |-> shows, open |-> opens, prev |-> prevs,
                           sent |-> Append(Tail(s.sent), add(p)), stray |-> strays]
        BY <2>2, <2>8, <2>9
      <3> DEFINE t == Append(s.sent, add(p))
      <3>3. /\ t \in Seq(PaneCommands) /\ Extends(s.sent, t) /\ t # <<>>
            /\ s.sent # <<>> => Tail(t) = Append(Tail(s.sent), add(p))
        BY <1>2, <1>4
      <3> HIDE DEF t
      <3>4. After(s, m) = [items |-> shows, open |-> opens, prev |-> prevs, sent |-> t, stray |-> strays]
        BY <3>1 DEF t
      <3>5. After(s, m) \in PaneStates /\ After(s, m).sent = t /\ After(s, m).stray = strays
        BY <2>4, <2>6, <2>7, <3>3, <3>4 DEF PaneStates
      <3>6. s.sent # <<>> => After(Popped(s), m) = Popped(After(s, m))
        <4> SUFFICES ASSUME s.sent # <<>> PROVE After(Popped(s), m) = Popped(After(s, m))
          OBVIOUS
        <4>1. Append(Tail(s.sent), add(p)) = Tail(t)
          BY <3>3
        <4>2. After(Popped(s), m) = [items |-> shows, open |-> opens, prev |-> prevs,
                                     sent |-> Tail(t), stray |-> strays]
          BY <3>2, <4>1
        <4> DEFINE z == After(s, m)
        <4>3. /\ z.items = shows /\ z.open = opens /\ z.prev = prevs /\ z.sent = t
              /\ z.stray = strays
          BY <3>4
        <4> HIDE DEF z
        <4>4. Popped(z) = [items |-> shows, open |-> opens, prev |-> prevs,
                           sent |-> Tail(t), stray |-> strays]
          BY <4>3 DEF Popped
        <4> QED
          BY <4>2, <4>4 DEF z
      <3> QED
        BY <2>7, <3>3, <3>5, <3>6
    <2>10. CASE ~ opened
      <3>1. After(s, m) = [items |-> shows, open |-> opens, prev |-> prevs,
                           sent |-> s.sent, stray |-> strays]
        BY <2>1, <2>8, <2>10
      <3>2. After(Popped(s), m) = [items |-> shows, open |-> opens, prev |-> prevs,
                           sent |-> Tail(s.sent), stray |-> strays]
        BY <2>2, <2>8, <2>10
      <3> QED
        BY <1>3, <1>4, <2>4, <2>6, <2>7, <3>1, <3>2 DEF PaneStates, Popped
    <2> QED
      BY <2>9, <2>10
  <1>10. CASE m.event = "delete"
    <2>1. /\ After(s, m) = [items |-> Cleared(s, Under(p)), open |-> s.open \ Under(p), prev |-> s.prev,
                            sent |-> Append(s.sent, remove(p)), stray |-> s.stray]
          /\ After(Popped(s), m) =
                           [items |-> Cleared(s, Under(p)), open |-> s.open \ Under(p), prev |-> s.prev,
                            sent |-> Append(Tail(s.sent), remove(p)), stray |-> s.stray]
      BY <1>6, <1>7, <1>10 DEF After, WithoutItem, p
    <2> DEFINE t == Append(s.sent, remove(p))  shows == Cleared(s, Under(p))
    <2>3. /\ t \in Seq(PaneCommands) /\ Extends(s.sent, t) /\ t # <<>>
          /\ s.sent # <<>> => Tail(t) = Append(Tail(s.sent), remove(p))
          /\ shows \in [Paths -> EntryKinds \union {"unknown"}]
      BY <1>2, <1>4, <1>5
    <2> HIDE DEF t
    <2>4. After(s, m) = [items |-> shows, open |-> s.open \ Under(p), prev |-> s.prev, sent |-> t, stray |-> s.stray]
      BY <2>1 DEF t
    <2> HIDE DEF shows
    <2>5. After(s, m) \in PaneStates /\ After(s, m).sent = t /\ After(s, m).stray = s.stray
      BY <1>3, <2>3, <2>4 DEF PaneStates
    <2>6. s.sent # <<>> => After(Popped(s), m) = Popped(After(s, m))
      <3> SUFFICES ASSUME s.sent # <<>> PROVE After(Popped(s), m) = Popped(After(s, m))
        OBVIOUS
      <3>1. Append(Tail(s.sent), remove(p)) = Tail(t)
        BY <2>3
      <3>2. After(Popped(s), m) = [items |-> shows, open |-> s.open \ Under(p), prev |-> s.prev,
                                   sent |-> Tail(t), stray |-> s.stray]
        BY <2>1, <3>1 DEF shows
      <3> DEFINE z == After(s, m)
      <3>3. /\ z.items = shows /\ z.open = s.open \ Under(p) /\ z.prev = s.prev /\ z.sent = t
            /\ z.stray = s.stray
        BY <2>4
      <3> HIDE DEF z
      <3>4. Popped(z) = [items |-> shows, open |-> s.open \ Under(p), prev |-> s.prev,
                         sent |-> Tail(t), stray |-> s.stray]
        BY <3>3 DEF Popped
      <3> QED
        BY <3>2, <3>4 DEF z
    <2> QED
      BY <2>3, <2>5, <2>6
  <1>11. CASE m.event = "update"
    <2> DEFINE shows == IF ItemOf(s, p) \in {"file", "exec"}
                        THEN [s.items EXCEPT ![p] = IF k \in {"exec", "dir"} THEN "exec" ELSE "file"]
                        ELSE s.items
    <2>1. shows \in [Paths -> EntryKinds \union {"unknown"}]
      BY <1>3 DEF EntryKinds
    <2>2. /\ After(s, m) = [items |-> shows, open |-> s.open, prev |-> s.prev,
                            sent |-> s.sent, stray |-> s.stray]
          /\ After(Popped(s), m) = [items |-> shows, open |-> s.open, prev |-> s.prev,
                            sent |-> Tail(s.sent), stray |-> s.stray]
      BY <1>7, <1>11 DEF After, WithMode, p, k
    <2> HIDE DEF shows
    <2> QED
      BY <1>3, <1>4, <2>1, <2>2 DEF PaneStates, Popped
  <1>12. CASE m.event = "error"
    <2> DEFINE shows == IF ItemOf(s, p) = "dir" THEN Cleared(s, Below(p)) ELSE s.items
               opens == IF ItemOf(s, p) = "dir" THEN s.open \ Below(p) ELSE s.open
    <2>1. shows \in [Paths -> EntryKinds \union {"unknown"}] /\ opens \subseteq Paths
      BY <1>3, <1>5
    <2>2. /\ After(s, m) = [items |-> shows, open |-> opens, prev |-> s.prev,
                            sent |-> s.sent, stray |-> s.stray]
          /\ After(Popped(s), m) = [items |-> shows, open |-> opens, prev |-> s.prev,
                            sent |-> Tail(s.sent), stray |-> s.stray]
      BY <1>6, <1>7, <1>12 DEF After, WithError, p
    <2> HIDE DEF shows, opens
    <2> QED
      BY <1>3, <1>4, <2>1, <2>2 DEF PaneStates, Popped
  <1> QED
    BY <1>8, <1>9, <1>10, <1>11, <1>12 DEF HelperMessages

(* Messages only add commands, and never take back that a watch is stray.  *)
LEMMA CourseKeeps ==
  ASSUME NEW P, NEW s, NEW T \in Seq(HelperMessages), Course(P, s, T)
  PROVE  /\ Len(T) \in Nat /\ P[Len(T)] \in PaneStates /\ s \in PaneStates
         /\ \A i \in 0..Len(T) : /\ P[i] \in PaneStates /\ Extends(s.sent, P[i].sent)
                                 /\ s.stray => P[i].stray
  <1>1. /\ Len(T) \in Nat /\ \A i \in 0..Len(T) : P[i] \in PaneStates
        /\ P[0] = s /\ 0 \in 0..Len(T) /\ Len(T) \in 0..Len(T)
    BY LenProperties DEF Course
  <1> DEFINE good(i) == Extends(s.sent, P[i].sent) /\ (s.stray => P[i].stray)
             bad == {i \in 0..Len(T) : ~ good(i)}
  <1>2. SUFFICES ASSUME bad # {} PROVE FALSE
    BY <1>1
  <1>3. PICK i \in bad : \A j \in bad : i <= j
    <2>1. bad \subseteq Nat
      OBVIOUS
    <2> HIDE DEF bad
    <2> QED
      BY <1>2, <2>1, HasLeast
  <1>4. i # 0
    <2>1. good(0)
      BY <1>1, StateParts DEF Extends
    <2> QED
      BY <1>3, <2>1
  <1>5. i \in 1..Len(T) /\ i - 1 \in 0..Len(T) /\ ~ (i <= i - 1)
    BY <1>1, <1>3, <1>4
  <1>6. good(i - 1)
    BY <1>3, <1>5
  <1>7. T[i] \in HelperMessages /\ P[i] = After(P[i - 1], T[i]) /\ P[i - 1] \in PaneStates
    BY <1>1, <1>5, ElementOfSeq DEF Course
  <1>8. Extends(P[i - 1].sent, P[i].sent) /\ (P[i - 1].stray => P[i].stray)
    BY <1>7, AfterTypes
  <1>9. good(i)
    <2> DEFINE a == s.sent  b == P[i - 1].sent  c == P[i].sent
    <2>1. /\ Len(a) \in Nat /\ Len(b) \in Nat /\ Len(c) \in Nat
          /\ Extends(a, b) /\ Extends(b, c)
      BY <1>1, <1>3, <1>6, <1>7, <1>8, StateParts
    <2> HIDE DEF a, b, c
    <2>2. Extends(a, c)
      BY <2>1 DEF Extends
    <2> QED
      BY <1>6, <1>8, <2>2 DEF a, b, c
  <1> QED
    BY <1>3, <1>9

(* ... so what the pane was about to send is still there at the end.       *)
LEMMA HandlesKeeps ==
  ASSUME NEW s, NEW T \in Seq(HelperMessages), NEW q, Handles(s, T, q)
  PROVE  /\ s \in PaneStates /\ q \in PaneStates /\ Extends(s.sent, q.sent)
         /\ s.stray => q.stray
  <1>1. PICK P : Course(P, s, T) /\ q = P[Len(T)]
    BY DEF Handles
  <1>2. Len(T) \in 0..Len(T)
    BY LenProperties
  <1> QED
    BY <1>1, <1>2, CourseKeeps

(* Nothing is on its way.                                                  *)
LEMMA HandlesNone ==
  ASSUME NEW s \in PaneStates, NEW T, Len(T) = 0
  PROVE  Handles(s, T, s) /\ \A q : Handles(s, T, q) => q = s
  <1> DEFINE P == [i \in 0..0 |-> s]
  <1>1. Course(P, s, T) /\ P[Len(T)] = s
    BY DEF Course
  <1> QED
    BY <1>1 DEF Handles, Course

(* One message more.                                                       *)
LEMMA HandlesMore ==
  ASSUME NEW s, NEW T \in Seq(HelperMessages), NEW q, Handles(s, T, q), NEW m \in HelperMessages
  PROVE  Handles(s, Append(T, m), After(q, m))
  <1>1. PICK P : Course(P, s, T) /\ q = P[Len(T)]
    BY DEF Handles
  <1> DEFINE D == Append(T, m)
  <1>2. /\ Len(T) \in Nat /\ Len(D) = Len(T) + 1 /\ D[Len(T) + 1] = m
        /\ \A i \in 1..Len(T) : D[i] = T[i]
    BY AppendProperties, LenProperties
  <1>3. P \in [0..Len(T) -> PaneStates] /\ P[0] = s /\ \A i \in 1..Len(T) : P[i] = After(P[i - 1], T[i])
    BY <1>1 DEF Course
  <1>4. After(q, m) \in PaneStates
    BY <1>1, CourseKeeps, AfterTypes
  <1> DEFINE Q == [i \in 0 .. Len(T) + 1 |-> IF i <= Len(T) THEN P[i] ELSE After(q, m)]
  <1> HIDE DEF D
  <1>5. Q \in [0..Len(D) -> PaneStates]
    <2>1. \A i \in 0 .. Len(T) + 1 : Q[i] \in PaneStates
      BY <1>2, <1>3, <1>4
    <2> QED
      BY <1>2, <2>1
  <1>6. Q[0] = s /\ Q[Len(D)] = After(q, m)
    BY <1>2, <1>3
  <1>7. ASSUME NEW i \in 1..Len(D) PROVE Q[i] = After(Q[i - 1], D[i])
    <2>1. CASE i = Len(T) + 1
      <3>1. Q[i] = After(q, m) /\ D[i] = m /\ Q[i - 1] = q
        BY <1>1, <1>2, <2>1
      <3> QED
        BY <3>1
    <2>2. CASE i # Len(T) + 1
      <3>1. i \in 1..Len(T) /\ i \in 0 .. Len(T) + 1 /\ i - 1 \in 0 .. Len(T) + 1 /\ i <= Len(T) /\ i - 1 <= Len(T)
        BY <1>2, <2>2
      <3>2. Q[i] = P[i] /\ Q[i - 1] = P[i - 1] /\ D[i] = T[i]
        BY <1>2, <3>1
      <3> QED
        BY <1>3, <3>1, <3>2
    <2> QED
      BY <2>1, <2>2
  <1> HIDE DEF Q
  <1>8. Course(Q, s, D)
    BY <1>5, <1>6, <1>7 DEF Course
  <1> QED
    BY <1>6, <1>8 DEF Handles, D

(* The first message is handled.                                           *)
LEMMA HandlesFirst ==
  ASSUME NEW s, NEW T \in Seq(HelperMessages), T # <<>>, NEW q, Handles(s, T, q)
  PROVE  Handles(After(s, Head(T)), Tail(T), q)
  <1>1. PICK P : Course(P, s, T) /\ q = P[Len(T)]
    BY DEF Handles
  <1> DEFINE D == Tail(T)
  <1>2. /\ Len(T) \in Nat \ {0} /\ Len(D) = Len(T) - 1 /\ T[1] = Head(T)
        /\ \A i \in 1..Len(D) : D[i] = T[i + 1]
    BY TailIs
  <1>3. P \in [0..Len(T) -> PaneStates] /\ P[0] = s /\ \A i \in 1..Len(T) : P[i] = After(P[i - 1], T[i])
    BY <1>1 DEF Course
  <1> DEFINE Q == [i \in 0 .. Len(T) - 1 |-> P[i + 1]]
  <1> HIDE DEF D
  <1>5. Q \in [0..Len(D) -> PaneStates]
    <2>1. \A i \in 0 .. Len(T) - 1 : Q[i] \in PaneStates
      BY <1>2, <1>3
    <2> QED
      BY <1>2, <2>1
  <1>6. Q[0] = After(s, Head(T)) /\ Q[Len(D)] = q
    <2>1. Q[0] = P[1] /\ Q[Len(D)] = P[Len(T)] /\ P[1] = After(P[1 - 1], T[1]) /\ 1 - 1 = 0
      BY <1>2, <1>3
    <2> QED
      BY <1>1, <1>2, <1>3, <2>1
  <1>7. ASSUME NEW i \in 1..Len(D) PROVE Q[i] = After(Q[i - 1], D[i])
    <2>1. /\ i + 1 \in 1..Len(T) /\ i \in 0 .. Len(T) - 1 /\ i - 1 \in 0 .. Len(T) - 1
          /\ (i + 1) - 1 = i /\ (i - 1) + 1 = i
      BY <1>2
    <2>2. Q[i] = P[i + 1] /\ Q[i - 1] = P[i] /\ D[i] = T[i + 1]
      BY <1>2, <2>1
    <2>3. P[i + 1] = After(P[i], T[i + 1])
      BY <1>3, <2>1
    <2> QED
      BY <2>2, <2>3
  <1> HIDE DEF Q
  <1>8. Course(Q, After(s, Head(T)), D)
    BY <1>5, <1>6, <1>7 DEF Course
  <1> QED
    BY <1>6, <1>8 DEF Handles, D

(* The helper reads and forgets a command: the pane does not know.         *)
LEMMA HandlesPopped ==
  ASSUME NEW s, NEW T \in Seq(HelperMessages), NEW q, Handles(s, T, q), s.sent # <<>>
  PROVE  /\ Handles(Popped(s), T, Popped(q)) /\ q.sent # <<>>
         /\ q.sent[1] = s.sent[1]
  <1>1. PICK P : Course(P, s, T) /\ q = P[Len(T)]
    BY DEF Handles
  <1>2. /\ Len(T) \in Nat /\ s \in PaneStates
        /\ \A i \in 0..Len(T) : P[i] \in PaneStates /\ Extends(s.sent, P[i].sent)
    BY <1>1, CourseKeeps
  <1>3. P \in [0..Len(T) -> PaneStates] /\ P[0] = s /\ \A i \in 1..Len(T) : P[i] = After(P[i - 1], T[i])
    BY <1>1 DEF Course
  <1>4. Len(s.sent) \in Nat \ {0}
    BY <1>2, StateParts, EmptySeq
  <1>5. \A i \in 0..Len(T) : P[i].sent # <<>> /\ P[i].sent[1] = s.sent[1]
    <2> SUFFICES ASSUME NEW i \in 0..Len(T) PROVE P[i].sent # <<>> /\ P[i].sent[1] = s.sent[1]
      OBVIOUS
    <2>1. Len(s.sent) <= Len(P[i].sent) /\ P[i].sent[1] = s.sent[1]
      BY <1>2, <1>4 DEF Extends
    <2>2. Len(P[i].sent) # 0
      BY <1>2, <1>4, <2>1, StateParts
    <2> QED
      BY <2>1, <2>2, EmptySeq
  <1>6. ASSUME NEW u \in PaneStates, u.sent # <<>> PROVE Popped(u) \in PaneStates
    <2>1. Tail(u.sent) \in Seq(PaneCommands)
      BY <1>6, StateParts, TailIs
    <2> QED
      BY <2>1, StateParts DEF Popped, PaneStates
  <1> DEFINE Q == [i \in 0..Len(T) |-> Popped(P[i])]
  <1>7. Q \in [0..Len(T) -> PaneStates]
    BY <1>2, <1>5, <1>6
  <1>8. Q[0] = Popped(s) /\ Q[Len(T)] = Popped(q)
    BY <1>1, <1>2, <1>3
  <1>9. ASSUME NEW i \in 1..Len(T) PROVE Q[i] = After(Q[i - 1], T[i])
    <2>1. i \in 0..Len(T) /\ i - 1 \in 0..Len(T)
      BY <1>2
    <2>2. T[i] \in HelperMessages /\ P[i - 1] \in PaneStates /\ P[i - 1].sent # <<>>
      BY <1>2, <1>5, <2>1, ElementOfSeq
    <2>3. After(Popped(P[i - 1]), T[i]) = Popped(After(P[i - 1], T[i]))
      BY <2>2, AfterTypes
    <2>4. P[i] = After(P[i - 1], T[i])
      BY <1>3
    <2>5. Q[i] = Popped(P[i]) /\ Q[i - 1] = Popped(P[i - 1])
      BY <2>1
    <2> QED
      BY <2>3, <2>4, <2>5
  <1> HIDE DEF Q
  <1>10. Course(Q, Popped(s), T)
    BY <1>7, <1>8, <1>9 DEF Course
  <1>11. Len(T) \in 0..Len(T)
    BY <1>2
  <1> QED
    BY <1>1, <1>5, <1>8, <1>10, <1>11 DEF Handles

-----------------------------------------------------------------------------
(* The kernel's events stay true *)

LEMMA NameIs ==
  ASSUME NEW d \in Names, NEW x \in Names, Len(x) = 1, NEW p \in Paths, p = d \o x
  PROVE  parent(p) = d /\ <<p[Len(p)]>> = x
  <1>1. parent(p) = d
    BY ChildIs
  <1> DEFINE y == <<p[Len(p)]>>
  <1>2. y \in Names /\ Len(y) = 1 /\ parent(p) \o y = p
    BY LastName
  <1> HIDE DEF y
  <1>3. d \o y = d \o x
    BY <1>1, <1>2
  <1>4. y = x
    BY <1>2, <1>3, ChildIs
  <1> QED
    BY <1>1, <1>4 DEF y

(* A change that the kernel tells keeps the events true.                   *)
LEMMA ChangeTrue ==
  ASSUME NEW K, NEW E, NEW G, EventsTrue(K, E, G),
         NEW P, NEW Q, NEW T, NEW K2, NEW D, NEW G2, Changes(K, E, G, P, Q, T, K2, D, G2)
  PROVE  EventsTrue(K2, D, G2)
  <1> USE DEF Changes
  <1>1. \A i \in 1..Len(E) : i \in 1..Len(D)
    OBVIOUS
  <1>2. ASSUME NEW i \in 1..Len(E), NEW M, Later(E, i, M) PROVE Later(D, i, M)
    BY <1>1, <1>2 DEF Later
  <1>3. ASSUME NEW i \in 1..Len(E), NEW k \in K, NEW x \in Paths, NEW M, Told(K, D, Len(E), x, M),
               E[i].mask \in Gone \union Came, E[i].wd = k.wd, At(k, E[i]) = x
        PROVE  Later(D, i, M)
    <2>1. parent(x) = k.at /\ <<x[Len(x)]>> = E[i].name
      <3>1. k.at \in Names /\ E[i].name \in Names /\ Len(E[i].name) = 1
        BY <1>3
      <3>2. x \in Paths /\ x = k.at \o E[i].name
        BY <1>3 DEF At
      <3> DEFINE d == k.at  y == E[i].name
      <3>3. d \in Names /\ y \in Names /\ Len(y) = 1 /\ x = d \o y
        BY <3>1, <3>2
      <3> HIDE DEF d, y
      <3>4. parent(x) = d /\ <<x[Len(x)]>> = y
        BY ONLY <3>2, <3>3, NameIs
      <3> QED
        BY <3>4 DEF d, y
    <2>2. PICK j \in 1..Len(D) : j > Len(E) /\ D[j].mask \in M /\ D[j].wd = k.wd /\ D[j].name = <<x[Len(x)]>>
      BY <1>3, <2>1 DEF Told
    <2>3. j > i /\ D[i] = E[i]
      BY <2>2
    <2> QED
      BY <1>3, <2>1, <2>2, <2>3 DEF Later
  <1>4. ASSUME NEW v \in K2, NEW i \in 1..Len(D), D[i].wd = v.wd
        PROVE  /\ D[i].mask \in Gone /\ There(G2, At(v, D[i])) => Later(D, i, Came)
               /\ D[i].mask \in Came /\ ~ There(G2, At(v, D[i])) => Later(D, i, Gone)
    <2>1. CASE i > Len(E)
      BY <1>4, <2>1
    <2>2. CASE i \in 1..Len(E) /\ E[i].mask \in Gone \union Came
      <3>0. D[i] = E[i]
        BY <2>2
      <3>1. PICK k \in K : k.wd = v.wd /\ \A m \in 1..Len(E) : E[m].mask \in Gone \union Came =>
              \/ There(G2, At(v, E[m])) <=> There(G, At(k, E[m]))
              \/ At(k, E[m]) \in P /\ ~ There(G2, At(v, E[m]))
              \/ At(k, E[m]) \in Q /\ There(G2, At(v, E[m]))
        OBVIOUS
      <3>2. \/ There(G2, At(v, E[i])) <=> There(G, At(k, E[i]))
            \/ At(k, E[i]) \in P /\ ~ There(G2, At(v, E[i]))
            \/ At(k, E[i]) \in Q /\ There(G2, At(v, E[i]))
        BY <2>2, <3>1
      <3>3. E[i].wd = k.wd
        BY <1>4, <3>0, <3>1
      <3>4. At(k, E[i]) \in P => Later(D, i, Gone)
        BY <1>3, <2>2, <3>3
      <3>5. At(k, E[i]) \in Q => Later(D, i, Came)
        BY <1>3, <2>2, <3>3
      <3>6. /\ E[i].mask \in Gone /\ There(G, At(k, E[i])) => Later(D, i, Came)
            /\ E[i].mask \in Came /\ ~ There(G, At(k, E[i])) => Later(D, i, Gone)
        BY <1>2, <2>2, <3>3 DEF EventsTrue
      <3> QED
        BY <3>0, <3>2, <3>4, <3>5, <3>6
    <2>3. CASE i \in 1..Len(E) /\ E[i].mask \notin Gone \union Came
      BY <2>3
    <2> QED
      BY <2>1, <2>2, <2>3
  <1>5. ASSUME NEW i \in 1..Len(D), NEW j \in 1..Len(D),
               i < j /\ D[i].mask \in Came /\ D[j].mask \in Came /\ D[i].wd = D[j].wd /\ D[i].name = D[j].name
        PROVE  \E l \in 1..Len(D) : /\ i < l /\ l < j /\ D[l].mask \in Gone
                                    /\ D[l].wd = D[i].wd /\ D[l].name = D[i].name
    <2>1. CASE j \in 1..Len(E)
      <3>1. i \in 1..Len(E) /\ D[i] = E[i] /\ D[j] = E[j]
        BY <1>5, <2>1
      <3>2. PICK l \in 1..Len(E) : /\ i < l /\ l < j /\ E[l].mask \in Gone
                                   /\ E[l].wd = E[i].wd /\ E[l].name = E[i].name
        BY <1>5, <2>1, <3>1 DEF EventsTrue
      <3> QED
        BY <1>1, <3>1, <3>2
    <2>2. CASE j > Len(E) /\ i \in 1..Len(E)
      <3>1. D[i] = E[i]
        BY <2>2
      <3>2. PICK k \in K : k.wd = D[j].wd /\ ~ There(G, At(k, D[j]))
        BY <1>5, <2>2 DEF There
      <3>3. At(k, D[j]) = At(k, E[i]) /\ E[i].wd = k.wd /\ E[i].mask \in Came
        BY <1>5, <3>1, <3>2 DEF At
      <3>4. Later(E, i, Gone)
        BY <2>2, <3>2, <3>3 DEF EventsTrue
      <3>5. PICK l \in 1..Len(E) : l > i /\ E[l].mask \in Gone /\ E[l].wd = E[i].wd /\ E[l].name = E[i].name
        BY <3>4 DEF Later
      <3>6. l < j /\ i < l /\ D[l] = E[l] /\ l \in 1..Len(D)
        BY <1>1, <2>2, <3>5
      <3> QED
        BY <3>1, <3>5, <3>6
    <2>3. CASE i > Len(E)
      <3>1. j > Len(E)
        BY <1>5, <2>3
      <3>2. i = j
        BY <1>5, <2>3, <3>1
      <3> QED
        BY <1>5, <3>2
    <2> QED
      BY <2>1, <2>2, <2>3
  <1> QED
    BY <1>4, <1>5 DEF EventsTrue
=============================================================================
